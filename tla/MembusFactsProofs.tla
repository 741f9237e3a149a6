-------------------------- MODULE MembusFactsProofs --------------------------
(***************************************************************************)
(* The facts that membus extracts from a circuit are true: whatever the    *)
(* circuits, every fact holds of the integers in every assignment that     *)
(* satisfies the circuit modulo the prime (FactsAreTrue).                  *)
(*                                                                         *)
(* The proof follows the extraction.  Recursive functions exist and do     *)
(* what their equations say; forms and expressions keep their values when  *)
(* they are normalised, multiplied out, or have pins and aliases folded    *)
(* in; then bounds, pins, kinds, rows, clocks, gaps, upper bounds and      *)
(* address limbs, each from those found before it.  Every rule that reads  *)
(* a congruence as an equation has bounds by which the two sides are       *)
(* closer than P (SameClose).                                              *)
(***************************************************************************)
EXTENDS MembusReports, TLAPS, FiniteSetTheorems, WellFoundedInduction

\* The library's induction principles take an operator, these two a set.
LEMMA SmallestNumber ==
  ASSUME NEW T, T \subseteq Nat, T # {}
  PROVE  \E n \in T : \A m \in T : n <= m
<1>1. IsWellFoundedOn(OpToRel(<, Nat), Nat)
  BY NatLessThanWellFounded
<1>2. PICK n \in T : \A m \in T : ~(<<m, n>> \in OpToRel(<, Nat))
  BY <1>1, WFMin
<1>3. ASSUME NEW m \in T PROVE n <= m
  <2>1. ~(m < n)
    BY <1>2 DEF OpToRel
  <2>2. QED
    BY <2>1
<1>4. QED
  BY <1>3

\* Among some subsets of a finite set there is a smallest one.
LEMMA SmallestSet ==
  ASSUME NEW U, IsFiniteSet(U), NEW B, B \subseteq SUBSET U, B # {}
  PROVE  \E S \in B : \A x \in S : S \ {x} \notin B
<1> DEFINE N == {Cardinality(S) : S \in B}
<1>1. \A S \in B : IsFiniteSet(S) /\ Cardinality(S) \in Nat
  BY FS_Subset, FS_CardinalityType
<1>6. N \subseteq Nat /\ N # {}
  BY <1>1
<1>2. PICK n \in N : \A m \in N : n <= m
  BY <1>6, SmallestNumber
<1>3. PICK S \in B : n = Cardinality(S)
  OBVIOUS
<1>4. ASSUME NEW x \in S, S \ {x} \in B PROVE FALSE
  <2>1. Cardinality(S \ {x}) = Cardinality(S) - 1
    BY <1>1, FS_RemoveElement
  <2>2. n <= Cardinality(S \ {x})
    BY <1>2, <1>4
  <2>3. QED
    BY <2>1, <2>2, <1>1, <1>3
<1>5. QED
  BY <1>3, <1>4

-----------------------------------------------------------------------------
\* Integers that are equal modulo the prime.
Same(a, b) == a \in Int /\ b \in Int /\ \E k \in Int : a = b + k * P

\* The parameters are integers.
LEMMA PrimeIsInt == P \in Int /\ P \in Nat /\ P >= 1 /\ TsMax \in Int /\ TsMax >= 1 /\ TsMax <= P /\ Byte \in Int /\ Byte >= 1 /\ Byte <= P
BY FactsAssumption

\* What the remainder by P is.
LEMMA Remainder ==
  ASSUME NEW a \in Int
  PROVE  (a % P) \in 0..P - 1 /\ a = P * (a \div P) + (a % P) /\ (a \div P) \in Int
BY PrimeIsInt

\* Same is an equivalence, and respects sums and products.
LEMMA SameRefl == ASSUME NEW a \in Int PROVE Same(a, a)
<1>1. a = a + 0 * P
  BY PrimeIsInt
<1>2. QED
  BY <1>1 DEF Same

LEMMA SameSym == ASSUME NEW a, NEW b, Same(a, b) PROVE Same(b, a)
<1>1. PICK k \in Int : a = b + k * P
  BY DEF Same
<1>2. b = a + (-k) * P
  BY <1>1, PrimeIsInt DEF Same
<1>3. QED
  BY <1>2 DEF Same

LEMMA SameTrans == ASSUME NEW a, NEW b, NEW c, Same(a, b), Same(b, c) PROVE Same(a, c)
<1>1. PICK k \in Int : a = b + k * P
  BY DEF Same
<1>2. PICK j \in Int : b = c + j * P
  BY DEF Same
<1>3. a = c + (k + j) * P /\ k + j \in Int
  <2>1. (k + j) * P = k * P + j * P /\ k * P \in Int /\ j * P \in Int
    BY PrimeIsInt
  <2>2. a = (c + j * P) + k * P /\ c \in Int
    BY <1>1, <1>2 DEF Same
  <2>3. QED
    BY <2>1, <2>2
<1>4. QED
  BY <1>3 DEF Same

LEMMA SameAdd ==
  ASSUME NEW a, NEW b, NEW c, NEW d, Same(a, b), Same(c, d) PROVE Same(a + c, b + d)
<1>1. PICK k \in Int : a = b + k * P
  BY DEF Same
<1>2. PICK j \in Int : c = d + j * P
  BY DEF Same
<1>3. a + c = (b + d) + (k + j) * P /\ k + j \in Int
  BY <1>1, <1>2, PrimeIsInt DEF Same
<1>4. QED
  BY <1>3 DEF Same

LEMMA SameMul ==
  ASSUME NEW a, NEW b, NEW c, NEW d, Same(a, b), Same(c, d) PROVE Same(a * c, b * d)
<1>1. PICK k \in Int : a = b + k * P
  BY DEF Same
<1>2. PICK j \in Int : c = d + j * P
  BY DEF Same
<1>0. a \in Int /\ b \in Int /\ c \in Int /\ d \in Int
  BY DEF Same
<1>3. a * c = b * d + (k * d + j * b + k * j * P) * P /\ k * d + j * b + k * j * P \in Int
  BY <1>0, <1>1, <1>2, PrimeIsInt
<1>4. a * c \in Int /\ b * d \in Int
  BY <1>0
<1>5. QED
  BY <1>3, <1>4 DEF Same

LEMMA SameNeg == ASSUME NEW a, NEW b, Same(a, b) PROVE Same(-a, -b)
<1>1. PICK k \in Int : a = b + k * P
  BY DEF Same
<1>2. -a = -b + (-k) * P
  BY <1>1, PrimeIsInt DEF Same
<1>3. QED
  BY <1>2 DEF Same

LEMMA SameSub ==
  ASSUME NEW a, NEW b, NEW c, NEW d, Same(a, b), Same(c, d) PROVE Same(a - c, b - d)
<1>1. Same(a + (-c), b + (-d))
  BY SameNeg, SameAdd
<1>2. a - c = a + (-c) /\ b - d = b + (-d)
  BY DEF Same
<1>3. QED
  BY <1>1, <1>2

\* A value and its remainder are the same modulo P.
LEMMA SameMod == ASSUME NEW a \in Int PROVE Same(a % P, a) /\ Same(a, a % P)
<1>1. (a % P) \in Int /\ a = (a % P) + (a \div P) * P /\ (a \div P) \in Int
  BY Remainder, PrimeIsInt
<1>2. Same(a, a % P)
  BY <1>1 DEF Same
<1>3. QED
  BY <1>2, SameSym

\* Two equal integers whose distance is less than the prime are the same one.
LEMMA SameClose ==
  ASSUME NEW a, NEW b, Same(a, b), a - b < P, b - a < P PROVE a = b
<1>1. PICK k \in Int : a = b + k * P
  BY DEF Same
<1>2. a \in Int /\ b \in Int
  BY DEF Same
<1>3. a - b = k * P
  BY <1>1, <1>2, PrimeIsInt
<1>4. CASE k >= 1
  <2>1. k * P >= P
    BY <1>4, PrimeIsInt
  <2>2. QED
    BY <2>1, <1>2, <1>3, PrimeIsInt
<1>5. CASE k <= -1
  <2>1. k * P <= -P
    BY <1>5, PrimeIsInt
  <2>2. QED
    BY <2>1, <1>2, <1>3, PrimeIsInt
<1>6. CASE k = 0
  BY <1>1, <1>2, <1>6, PrimeIsInt
<1>7. QED
  BY <1>4, <1>5, <1>6

\* Two values of the field that are the same modulo P are equal.
LEMMA SameInField ==
  ASSUME NEW a \in 0..P - 1, NEW b \in 0..P - 1, Same(a, b) PROVE a = b
<1>1. a - b < P /\ b - a < P
  BY PrimeIsInt
<1>2. QED
  BY <1>1, SameClose

\* To be the same modulo P is to have the same remainder.
LEMMA SameIsMod ==
  ASSUME NEW a, NEW b, a \in Int, b \in Int
  PROVE  Same(a, b) <=> (a % P) = (b % P)
<1>1. ASSUME Same(a, b) PROVE (a % P) = (b % P)
  <2>1. Same(a % P, b % P)
    BY <1>1, SameMod, SameTrans
  <2>2. QED
    BY <2>1, Remainder, SameInField
<1>2. ASSUME (a % P) = (b % P) PROVE Same(a, b)
  BY <1>2, SameMod, SameTrans
<1>3. QED
  BY <1>1, <1>2

\* The same as zero, and what has no remainder.
LEMMA SameZero == ASSUME NEW a \in Int PROVE Same(a, 0) <=> (a % P) = 0
<1>1. (0 % P) = 0
  <2>1. Same(0 % P, 0) /\ (0 % P) \in 0..P - 1 /\ 0 \in 0..P - 1
    BY SameMod, Remainder, PrimeIsInt
  <2>2. QED
    BY <2>1, SameInField
<1>2. QED
  BY <1>1, SameIsMod

\* The signed representative is the same modulo P.
LEMMA SignedSame == ASSUME NEW a \in Int PROVE Signed(a) \in Int /\ Same(Signed(a), a) /\ -P < Signed(a) /\ Signed(a) < P
<1>1. (a % P) \in 0..P - 1 /\ Same(a % P, a)
  BY Remainder, SameMod
<1>2. Same((a % P) - P, a % P)
  <2>1. (a % P) - P = (a % P) + (-1) * P /\ (a % P) \in Int /\ (a % P) - P \in Int
    BY <1>1, PrimeIsInt
  <2>2. QED
    BY <2>1 DEF Same
<1>3. Same((a % P) - P, a)
  BY <1>1, <1>2, SameTrans
<1>4. CASE (a % P) > P \div 2
  <2>1. Signed(a) = (a % P) - P /\ (a % P) > 0
    BY <1>1, <1>4, PrimeIsInt DEF Signed
  <2>2. QED
    BY <1>1, <1>3, <2>1, PrimeIsInt
<1>5. CASE ~((a % P) > P \div 2)
  <2>1. Signed(a) = (a % P)
    BY <1>5 DEF Signed
  <2>2. QED
    BY <1>1, <2>1, PrimeIsInt
<1>6. QED
  BY <1>4, <1>5

\* What the inverse of an integer other than zero does.
LEMMA InverseWorks ==
  ASSUME PrimeField, NEW k \in Int, ~Same(k, 0)
  PROVE  InverseOf(k) \in 1..P - 1 /\ Same(k * InverseOf(k), 1) /\ (k * InverseOf(k)) % P = 1
<1> DEFINE r == k % P
<1>1. r \in 1..P - 1 /\ Same(k, r)
  BY Remainder, SameZero, SameMod, PrimeIsInt
<1>2. PICK v \in 1..P - 1 : (r * v) % P = 1
  BY <1>1 DEF PrimeField
<1>3. v \in Int /\ r \in Int /\ Same(v, v)
  BY <1>1, SameRefl, PrimeIsInt
<1>4. Same(k * v, r * v)
  BY <1>1, <1>3, SameMul
<1>5. (k * v) % P = 1
  BY <1>2, <1>4, SameIsMod DEF Same
<1>6. InverseOf(k) \in 1..P - 1 /\ (k * InverseOf(k)) % P = 1
  BY <1>5 DEF InverseOf
<1>7. k * InverseOf(k) \in Int
  BY <1>6, PrimeIsInt
<1>8. Same(k * InverseOf(k), 1)
  BY <1>6, <1>7, SameMod
<1>9. QED
  BY <1>6, <1>8

\* From a multiple of an integer the integer.
LEMMA Divide ==
  ASSUME PrimeField, NEW k \in Int, ~Same(k, 0), NEW a \in Int, NEW b \in Int, Same(k * a, b)
  PROVE  Same(a, b * InverseOf(k))
<1> DEFINE v == InverseOf(k)
<1>1. v \in Int /\ Same(k * v, 1)
  BY InverseWorks, PrimeIsInt
<1>2. Same(v, v) /\ Same(a, a)
  BY <1>1, SameRefl
<1>3. Same((k * a) * v, b * v)
  BY <1>2, SameMul
<1>4. Same((k * v) * a, 1 * a)
  BY <1>1, <1>2, SameMul
<1>5. (k * v) * a = (k * a) * v /\ 1 * a = a
  <2> HIDE DEF v
  <2> QED BY <1>1
<1>6. Same(a, (k * a) * v)
  BY <1>4, <1>5, SameSym
<1>7. QED
  BY <1>3, <1>6, SameTrans

\* A product that is zero in the field has a factor that is.
LEMMA ZeroFactor ==
  ASSUME PrimeField, NEW a \in Int, NEW b \in Int, Same(a * b, 0), ~Same(a, 0) PROVE Same(b, 0)
<1>1. InverseOf(a) \in Int
  BY InverseWorks, PrimeIsInt
<1>3. Same(b, 0 * InverseOf(a))
  BY Divide, 0 \in Int
<1>2. 0 * InverseOf(a) = 0
  BY <1>1
<1>4. QED
  BY <1>2, <1>3

-----------------------------------------------------------------------------
\* Sums.
IsSumOf(s, f) ==
  s = [S \in SUBSET DOMAIN f |-> IF S = {} THEN 0 ELSE LET x == CHOOSE y \in S : TRUE IN f[x] + s[S \ {x}]]
SumOver(f, S) == Total([x \in S |-> f[x]])

\* The sums of the parts of at most n members.
IsPartialSum(s, f, n) ==
  s = [S \in {T \in SUBSET DOMAIN f : Cardinality(T) <= n} |->
         IF S = {} THEN 0 ELSE LET x == CHOOSE y \in S : TRUE IN f[x] + s[S \ {x}]]

\* A sum over the subsets of at most n elements extends to n + 1.
LEMMA NextPartialSum ==
  ASSUME NEW f, IsFiniteSet(DOMAIN f), NEW n \in Nat, NEW s, IsPartialSum(s, f, n)
  PROVE  \E t : IsPartialSum(t, f, n + 1)
<1> DEFINE Small(m) == {T \in SUBSET DOMAIN f : Cardinality(T) <= m}
           t == [S \in Small(n + 1) |-> IF S = {} THEN 0 ELSE LET x == CHOOSE y \in S : TRUE IN f[x] + s[S \ {x}]]
<1>1. \A S \in Small(n) : S \in Small(n + 1) /\ t[S] = s[S]
  <2>1. SUFFICES ASSUME NEW S \in Small(n) PROVE S \in Small(n + 1) /\ t[S] = s[S]
    OBVIOUS
  <2>2. S \in Small(n + 1)
    <3>1. Cardinality(S) \in Nat
      BY FS_Subset, FS_CardinalityType
    <3>2. QED
      BY <3>1
  <2>3. s[S] = IF S = {} THEN 0 ELSE LET x == CHOOSE y \in S : TRUE IN f[x] + s[S \ {x}]
    BY DEF IsPartialSum
  <2>4. QED
    BY <2>2, <2>3
<1>2. \A S \in Small(n + 1) : \A x \in S : S \ {x} \in Small(n)
  <2>1. SUFFICES ASSUME NEW S \in Small(n + 1), NEW x \in S PROVE S \ {x} \in Small(n)
    OBVIOUS
  <2>2. IsFiniteSet(S) /\ Cardinality(S) \in Nat
    BY FS_Subset, FS_CardinalityType
  <2>3. Cardinality(S \ {x}) = Cardinality(S) - 1
    BY <2>2, FS_RemoveElement
  <2>4. QED
    BY <2>2, <2>3
<1>3. \A S \in Small(n + 1) : t[S] = IF S = {} THEN 0 ELSE LET x == CHOOSE y \in S : TRUE IN f[x] + t[S \ {x}]
  <2>1. SUFFICES ASSUME NEW S \in Small(n + 1)
                 PROVE  t[S] = IF S = {} THEN 0 ELSE LET x == CHOOSE y \in S : TRUE IN f[x] + t[S \ {x}]
    OBVIOUS
  <2>2. CASE S = {}
    BY <2>2
  <2>3. CASE S # {}
    <3> DEFINE x == CHOOSE y \in S : TRUE
    <3>1. x \in S
      BY <2>3
    <3>2. t[S \ {x}] = s[S \ {x}]
      BY <3>1, <1>1, <1>2
    <3>3. t[S] = f[x] + s[S \ {x}]
      BY <2>3
    <3>4. QED
      BY <2>3, <3>2, <3>3
  <2>4. QED
    BY <2>2, <2>3
<1>4. IsPartialSum(t, f, n + 1)
  <2> HIDE DEF t
  <2>1. t = [S \in Small(n + 1) |-> t[S]]
    BY DEF t
  <2>2. QED
    BY <2>1, <1>3 DEF IsPartialSum
<1>5. QED
  BY <1>4

\* The recursive function of Total exists: for subsets of every size, hence for all.
LEMMA PartialSums ==
  ASSUME NEW f, IsFiniteSet(DOMAIN f), NEW n \in Nat PROVE \E s : IsPartialSum(s, f, n)
<1> DEFINE Bad == {m \in Nat : ~\E s : IsPartialSum(s, f, m)}
<1>1. SUFFICES ASSUME Bad # {} PROVE FALSE
  OBVIOUS
<1>2. PICK m \in Bad : \A k \in Bad : m <= k
  BY <1>1, SmallestNumber
<1>3. m # 0
  <2>1. SUFFICES \E s : IsPartialSum(s, f, 0)
    OBVIOUS
  <2> DEFINE s == [S \in {{}} |-> 0]
  <2>2. {T \in SUBSET DOMAIN f : Cardinality(T) <= 0} = {{}}
    <3>1. \A T \in SUBSET DOMAIN f : IsFiniteSet(T) /\ Cardinality(T) \in Nat
      BY FS_Subset, FS_CardinalityType
    <3>2. QED
      BY <3>1, FS_EmptySet
  <2>3. s = [S \in {{}} |-> IF S = {} THEN 0 ELSE LET x == CHOOSE y \in S : TRUE IN f[x] + s[S \ {x}]]
    OBVIOUS
  <2>4. IsPartialSum(s, f, 0)
    BY <2>2, <2>3 DEF IsPartialSum
  <2>5. QED
    BY <2>4
<1>4. m - 1 \in Nat /\ m - 1 \notin Bad
  BY <1>2, <1>3
<1>5. PICK s : IsPartialSum(s, f, m - 1)
  BY <1>4
<1>6. \E t : IsPartialSum(t, f, (m - 1) + 1)
  BY <1>4, <1>5, NextPartialSum
<1>7. (m - 1) + 1 = m
  OBVIOUS
<1>8. QED
  BY <1>2, <1>6, <1>7

LEMMA SumsExist ==
  ASSUME NEW f, IsFiniteSet(DOMAIN f) PROVE \E s : IsSumOf(s, f)
<1>1. Cardinality(DOMAIN f) \in Nat
  BY FS_CardinalityType
<1>2. PICK s : IsPartialSum(s, f, Cardinality(DOMAIN f))
  BY <1>1, PartialSums
<1>3. {T \in SUBSET DOMAIN f : Cardinality(T) <= Cardinality(DOMAIN f)} = SUBSET DOMAIN f
  BY FS_Subset
<1>4. QED
  BY <1>2, <1>3 DEF IsPartialSum, IsSumOf

\* What the definition of a sum denotes.
LEMMA TotalIs ==
  ASSUME NEW f, IsFiniteSet(DOMAIN f)
  PROVE  \E s : IsSumOf(s, f) /\ Total(f) = s[DOMAIN f]
<1> DEFINE c == CHOOSE s : IsSumOf(s, f)
<1>1. IsSumOf(c, f)
  BY SumsExist
<1>2. Total(f) = c[DOMAIN f]
  BY DEF Total, IsSumOf
<1>3. QED
  BY <1>1, <1>2

\* Its recursion, at the element that it chooses.
LEMMA SumOfStep ==
  ASSUME NEW f, NEW s, IsSumOf(s, f), NEW S \in SUBSET DOMAIN f, S # {}
  PROVE  (CHOOSE y \in S : TRUE) \in S /\ s[S] = f[CHOOSE y \in S : TRUE] + s[S \ {CHOOSE y \in S : TRUE}]
BY DEF IsSumOf

\* The sum over a part is the same in every function with these values.
LEMMA SumOfPart ==
  ASSUME NEW f, NEW g, NEW s, NEW t, IsSumOf(s, f), IsSumOf(t, g), IsFiniteSet(DOMAIN f),
         NEW U \in SUBSET DOMAIN f, U \subseteq DOMAIN g, \A x \in U : f[x] = g[x]
  PROVE  s[U] = t[U]
<1> DEFINE Bad == {S \in SUBSET U : s[S] # t[S]}
<1>1. SUFFICES ASSUME Bad # {} PROVE FALSE
  OBVIOUS
<1>2. IsFiniteSet(U)
  BY FS_Subset
<1>3. PICK S \in Bad : \A x \in S : S \ {x} \notin Bad
  BY <1>1, <1>2, SmallestSet
<1>4. S # {}
  BY DEF IsSumOf
<1> DEFINE x == CHOOSE y \in S : TRUE
<1>5. x \in S /\ s[S] = f[x] + s[S \ {x}] /\ t[S] = g[x] + t[S \ {x}]
  BY <1>4, SumOfStep
<1>6. s[S \ {x}] = t[S \ {x}] /\ f[x] = g[x]
  BY <1>3, <1>5
<1>7. QED
  BY <1>5, <1>6

\* A sum is the value of one member and the sum of the others; the rest is a
\* number.
LEMMA SumEmpty == ASSUME NEW f PROVE SumOver(f, {}) = 0
<1> DEFINE g == [x \in {} |-> f[x]]
<1>1. IsFiniteSet(DOMAIN g) /\ DOMAIN g = {}
  BY FS_EmptySet
<1>2. PICK s : IsSumOf(s, g) /\ Total(g) = s[DOMAIN g]
  BY <1>1, TotalIs
<1>3. QED
  BY <1>1, <1>2 DEF IsSumOf, SumOver

\* A sum takes out some element.
LEMMA SumFirst ==
  ASSUME NEW f, NEW S, IsFiniteSet(S), S # {}
  PROVE  \E x \in S : SumOver(f, S) = f[x] + SumOver(f, S \ {x})
<1> DEFINE g == [y \in S |-> f[y]]
           x == CHOOSE y \in S : TRUE
           h == [y \in S \ {x} |-> f[y]]
<1>0. x \in S
  OBVIOUS
<1>7. \A y : IsFiniteSet(S \ {y})
  BY FS_RemoveElement
<1>1. x \in S /\ IsFiniteSet(S \ {x}) /\ DOMAIN g = S /\ DOMAIN h = S \ {x}
  BY <1>0, <1>7
<1>2. PICK s : IsSumOf(s, g) /\ Total(g) = s[S]
  BY <1>1, TotalIs
<1>3. PICK t : IsSumOf(t, h) /\ Total(h) = t[S \ {x}]
  BY <1>1, TotalIs
<1>4. s[S] = g[x] + s[S \ {x}]
  <2>1. S \in SUBSET DOMAIN g
    BY <1>1
  <2> HIDE DEF g
  <2>2. QED
    BY <1>2, <2>1, SumOfStep
<1>5. s[S \ {x}] = t[S \ {x}]
  <2>1. S \ {x} \in SUBSET DOMAIN g /\ S \ {x} \subseteq DOMAIN h /\ IsFiniteSet(DOMAIN g)
    BY <1>1
  <2>2. \A y \in S \ {x} : g[y] = h[y]
    OBVIOUS
  <2> HIDE DEF g, h, x
  <2>3. QED
    BY <1>2, <1>3, <2>1, <2>2, SumOfPart
<1>6. QED
  BY <1>1, <1>2, <1>3, <1>4, <1>5 DEF SumOver

\* A sum of integers is one.
LEMMA SumIsInt ==
  ASSUME NEW f, NEW S, IsFiniteSet(S), \A x \in S : f[x] \in Int PROVE SumOver(f, S) \in Int
<1> DEFINE Bad == {T \in SUBSET S : SumOver(f, T) \notin Int}
<1>1. SUFFICES ASSUME Bad # {} PROVE FALSE
  OBVIOUS
<1>2. PICK T \in Bad : \A x \in T : T \ {x} \notin Bad
  BY <1>1, SmallestSet
<1>3. IsFiniteSet(T) /\ T # {}
  <2>1. T # {}
    BY SumEmpty
  <2>2. T \in SUBSET S
    OBVIOUS
  <2>3. QED
    BY <2>1, <2>2, FS_Subset
<1>4. PICK x \in T : SumOver(f, T) = f[x] + SumOver(f, T \ {x})
  BY <1>3, SumFirst
<1>5. f[x] \in Int /\ SumOver(f, T \ {x}) \in Int
  BY <1>2, <1>4
<1>6. QED
  BY <1>4, <1>5

\* A sum takes out any element.
LEMMA SumRemove ==
  ASSUME NEW f, NEW S, IsFiniteSet(S), \A x \in S : f[x] \in Int, NEW x \in S
  PROVE  SumOver(f, S) = f[x] + SumOver(f, S \ {x})
<1> DEFINE Bad == {T \in SUBSET S : \E y \in T : SumOver(f, T) # f[y] + SumOver(f, T \ {y})}
<1>1. SUFFICES ASSUME Bad # {} PROVE FALSE
  OBVIOUS
<1>2. PICK T \in Bad : \A y \in T : T \ {y} \notin Bad
  BY <1>1, SmallestSet
<1>3. PICK a \in T : SumOver(f, T) # f[a] + SumOver(f, T \ {a})
  OBVIOUS
<1>4. IsFiniteSet(T) /\ T # {}
  BY FS_Subset
<1>5. PICK b \in T : SumOver(f, T) = f[b] + SumOver(f, T \ {b})
  BY <1>4, SumFirst
<1>6. a # b
  BY <1>3, <1>5
<1> DEFINE R == (T \ {a}) \ {b}
<1>7. R = (T \ {b}) \ {a} /\ R \in SUBSET S
  OBVIOUS
<1>8. SumOver(f, T \ {b}) = f[a] + SumOver(f, R) /\ SumOver(f, T \ {a}) = f[b] + SumOver(f, R)
  BY <1>2, <1>6, <1>7
<1>9. f[a] \in Int /\ f[b] \in Int /\ SumOver(f, R) \in Int
  <2>1. IsFiniteSet(R) /\ \A y \in R : f[y] \in Int
    BY <1>7, FS_Subset
  <2>2. QED
    BY <2>1, SumIsInt
<1>10. QED
  BY <1>3, <1>5, <1>8, <1>9

\* A sum of one.
LEMMA SumSingle == ASSUME NEW f, NEW x, f[x] \in Int PROVE SumOver(f, {x}) = f[x]
<1>1. IsFiniteSet({x}) /\ {x} \ {x} = {}
  BY FS_Singleton
<1>2. SumOver(f, {x}) = f[x] + SumOver(f, {x} \ {x})
  BY <1>1, SumRemove
<1>3. QED
  BY <1>1, <1>2, SumEmpty

\* Sums of equal values are equal.
LEMMA SumEqual ==
  ASSUME NEW f, NEW g, NEW S, \A x \in S : f[x] = g[x] PROVE SumOver(f, S) = SumOver(g, S)
<1>1. [x \in S |-> f[x]] = [x \in S |-> g[x]]
  OBVIOUS
<1>2. QED
  BY <1>1 DEF SumOver

\* Sums add.
LEMMA SumAdd ==
  ASSUME NEW S, IsFiniteSet(S), NEW f, NEW g, NEW h,
         \A x \in S : f[x] \in Int /\ g[x] \in Int /\ h[x] = f[x] + g[x]
  PROVE  SumOver(h, S) = SumOver(f, S) + SumOver(g, S)
<1> DEFINE Bad == {T \in SUBSET S : SumOver(h, T) # SumOver(f, T) + SumOver(g, T)}
<1>1. SUFFICES ASSUME Bad # {} PROVE FALSE
  OBVIOUS
<1>2. PICK T \in Bad : \A y \in T : T \ {y} \notin Bad
  BY <1>1, SmallestSet
<1>3. IsFiniteSet(T) /\ T # {}
  <2>1. T # {}
    <3>1. SumOver(f, {}) = 0 /\ SumOver(g, {}) = 0 /\ SumOver(h, {}) = 0
      BY SumEmpty
    <3>2. SumOver(h, {}) = SumOver(f, {}) + SumOver(g, {})
      BY <3>1, 0 + 0 = 0
    <3>3. QED
      BY <3>2
  <2>2. T \in SUBSET S
    OBVIOUS
  <2>3. QED
    BY <2>1, <2>2, FS_Subset
<1>4. PICK x \in T : TRUE
  BY <1>3
<1> DEFINE R == T \ {x}
<1>5. IsFiniteSet(R) /\ \A y \in T : f[y] \in Int /\ g[y] \in Int /\ h[y] \in Int
  BY <1>3, FS_RemoveElement
<1>6. SumOver(f, T) = f[x] + SumOver(f, R) /\ SumOver(g, T) = g[x] + SumOver(g, R) /\ SumOver(h, T) = h[x] + SumOver(h, R)
  BY <1>3, <1>5, SumRemove
<1>7. SumOver(f, R) \in Int /\ SumOver(g, R) \in Int /\ f[x] \in Int /\ g[x] \in Int /\ h[x] = f[x] + g[x]
  BY <1>5, SumIsInt
<1>8. SumOver(h, R) = SumOver(f, R) + SumOver(g, R)
  BY <1>2
<1>9. QED
  BY <1>6, <1>7, <1>8

\* A factor is taken out of a sum.
LEMMA SumScale ==
  ASSUME NEW S, IsFiniteSet(S), NEW f, NEW g, NEW k \in Int,
         \A x \in S : f[x] \in Int /\ g[x] = k * f[x]
  PROVE  SumOver(g, S) = k * SumOver(f, S)
<1> DEFINE Bad == {T \in SUBSET S : SumOver(g, T) # k * SumOver(f, T)}
<1>1. SUFFICES ASSUME Bad # {} PROVE FALSE
  OBVIOUS
<1>2. PICK T \in Bad : \A y \in T : T \ {y} \notin Bad
  BY <1>1, SmallestSet
<1>3. IsFiniteSet(T) /\ T # {}
  <2>1. T # {}
    <3>1. SumOver(f, {}) = 0 /\ SumOver(g, {}) = 0 /\ k * 0 = 0
      BY SumEmpty
    <3>2. QED
      BY <3>1
  <2>2. T \in SUBSET S
    OBVIOUS
  <2>3. QED
    BY <2>1, <2>2, FS_Subset
<1>4. PICK x \in T : TRUE
  BY <1>3
<1> DEFINE R == T \ {x}
<1>5. IsFiniteSet(R) /\ \A y \in T : f[y] \in Int /\ g[y] \in Int
  BY <1>3, FS_RemoveElement
<1>6. SumOver(f, T) = f[x] + SumOver(f, R) /\ SumOver(g, T) = g[x] + SumOver(g, R)
  BY <1>3, <1>5, SumRemove
<1>7. SumOver(f, R) \in Int /\ f[x] \in Int /\ g[x] = k * f[x]
  BY <1>5, SumIsInt
<1>8. SumOver(g, R) = k * SumOver(f, R)
  BY <1>2
<1>9. k * (f[x] + SumOver(f, R)) = k * f[x] + k * SumOver(f, R)
  BY <1>7
<1>10. QED
  BY <1>6, <1>7, <1>8, <1>9

\* Sums of values that are the same modulo P are.
LEMMA SumSame ==
  ASSUME NEW S, IsFiniteSet(S), NEW f, NEW g, \A x \in S : Same(f[x], g[x])
  PROVE  Same(SumOver(f, S), SumOver(g, S))
<1> DEFINE Bad == {T \in SUBSET S : ~Same(SumOver(f, T), SumOver(g, T))}
<1>1. SUFFICES ASSUME Bad # {} PROVE FALSE
  OBVIOUS
<1>2. PICK T \in Bad : \A y \in T : T \ {y} \notin Bad
  BY <1>1, SmallestSet
<1>3. IsFiniteSet(T) /\ T # {}
  BY FS_Subset, SumEmpty, SameRefl, 0 \in Int
<1>4. PICK x \in T : TRUE
  BY <1>3
<1>5. \A y \in T : f[y] \in Int /\ g[y] \in Int
  BY DEF Same
<1>6. SumOver(f, T) = f[x] + SumOver(f, T \ {x}) /\ SumOver(g, T) = g[x] + SumOver(g, T \ {x})
  BY <1>3, <1>5, SumRemove
<1>7. Same(f[x], g[x]) /\ Same(SumOver(f, T \ {x}), SumOver(g, T \ {x}))
  BY <1>2
<1>8. QED
  BY <1>6, <1>7, SameAdd

\* Sums keep the order.
LEMMA SumLe ==
  ASSUME NEW S, IsFiniteSet(S), NEW f, NEW g,
         \A x \in S : f[x] \in Int /\ g[x] \in Int /\ f[x] <= g[x]
  PROVE  SumOver(f, S) <= SumOver(g, S)
<1> DEFINE Bad == {T \in SUBSET S : ~(SumOver(f, T) <= SumOver(g, T))}
<1>1. SUFFICES ASSUME Bad # {} PROVE FALSE
  OBVIOUS
<1>2. PICK T \in Bad : \A y \in T : T \ {y} \notin Bad
  BY <1>1, SmallestSet
<1>3. IsFiniteSet(T) /\ T # {}
  <2>1. T # {}
    BY SumEmpty
  <2>2. T \in SUBSET S
    OBVIOUS
  <2>3. QED
    BY <2>1, <2>2, FS_Subset
<1>4. PICK x \in T : TRUE
  BY <1>3
<1> DEFINE R == T \ {x}
<1>5. IsFiniteSet(R) /\ \A y \in T : f[y] \in Int /\ g[y] \in Int
  BY <1>3, FS_RemoveElement
<1>6. SumOver(f, T) = f[x] + SumOver(f, R) /\ SumOver(g, T) = g[x] + SumOver(g, R)
  BY <1>3, <1>5, SumRemove
<1>7. SumOver(f, R) \in Int /\ SumOver(g, R) \in Int /\ f[x] \in Int /\ g[x] \in Int /\ f[x] <= g[x]
  BY <1>5, SumIsInt
<1>8. SumOver(f, R) <= SumOver(g, R)
  BY <1>2
<1>9. QED
  BY <1>6, <1>7, <1>8

\* Members whose value is zero do not count.
LEMMA SumZeros ==
  ASSUME NEW S, IsFiniteSet(S), NEW T \in SUBSET S, NEW f,
         \A x \in S : f[x] \in Int, \A x \in S \ T : f[x] = 0
  PROVE  SumOver(f, S) = SumOver(f, T)
<1> DEFINE Bad == {U \in SUBSET (S \ T) : SumOver(f, T \cup U) # SumOver(f, T)}
<1>1. SUFFICES ASSUME Bad # {} PROVE FALSE
  <2>1. S \ T \in SUBSET (S \ T) /\ T \cup (S \ T) = S
    OBVIOUS
  <2>2. S \ T \in Bad \/ SumOver(f, S) = SumOver(f, T)
    BY <2>1
  <2>3. QED
    BY <2>2
<1>2. IsFiniteSet(S \ T)
  BY FS_Difference
<1>3. PICK U \in Bad : \A y \in U : U \ {y} \notin Bad
  BY <1>1, <1>2, SmallestSet
<1>4. U # {}
  <2>1. T \cup {} = T
    OBVIOUS
  <2>2. QED
    BY <2>1
<1>5. PICK x \in U : TRUE
  BY <1>4
<1>6. x \notin T /\ f[x] = 0 /\ (T \cup U) \ {x} = T \cup (U \ {x})
  OBVIOUS
<1>7. IsFiniteSet(T \cup U) /\ x \in T \cup U /\ \A y \in T \cup U : f[y] \in Int
  BY FS_Subset
<1>8. SumOver(f, T \cup U) = f[x] + SumOver(f, T \cup (U \ {x}))
  BY <1>6, <1>7, SumRemove
<1>9. SumOver(f, T \cup (U \ {x})) = SumOver(f, T) /\ SumOver(f, T) \in Int
  <2>1. IsFiniteSet(T) /\ \A y \in T : f[y] \in Int
    BY FS_Subset
  <2>2. QED
    BY <2>1, <1>3, SumIsInt
<1>10. QED
  BY <1>6, <1>8, <1>9

-----------------------------------------------------------------------------
\* Linear forms over columns C, and what they are worth.
Forms(C) == [coef : UNION {[D -> Int] : D \in SUBSET C}, const : Int]
IsCanonical(l) == \A x \in Columns(l) : l.coef[x] % P # 0
OnColumns(C, w) == IsFiniteSet(C) /\ C \subseteq DOMAIN w /\ \A x \in C : w[x] \in Int
TermsOf(l, w) == [x \in Columns(l) |-> l.coef[x] * w[x]]

\* A tabulated function is the function, and Joined is defined on both domains.
LEMMA TabulatedIs == ASSUME NEW f PROVE Tabulated(f) = f
BY DEF Tabulated

LEMMA JoinedIs ==
  ASSUME NEW f, NEW g
  PROVE  /\ DOMAIN Joined(f, g) = DOMAIN f \cup DOMAIN g
         /\ \A x \in DOMAIN f : Joined(f, g)[x] = f[x]
         /\ \A x \in DOMAIN g \ DOMAIN f : Joined(f, g)[x] = g[x]
BY TabulatedIs DEF Joined

LEMMA JoinedFunction ==
  ASSUME NEW f, NEW g
  PROVE  Joined(f, g) = [x \in DOMAIN f \cup DOMAIN g |-> IF x \in DOMAIN f THEN f[x] ELSE g[x]]
BY TabulatedIs DEF Joined

LEMMA JustIs == ASSUME NEW x, NEW v PROVE DOMAIN Just(x, v) = {x} /\ Just(x, v)[x] = v
BY DEF Just

\* What a linear form is made of.
LEMMA FormIs ==
  ASSUME NEW C, NEW l \in Forms(C)
  PROVE  /\ l.const \in Int /\ Columns(l) \subseteq C
         /\ \A x \in Columns(l) : l.coef[x] \in Int
         /\ l.coef \in [Columns(l) -> Int]
         /\ l = [coef |-> l.coef, const |-> l.const]
<1>1. l.const \in Int /\ l.coef \in UNION {[D -> Int] : D \in SUBSET C} /\ l = [coef |-> l.coef, const |-> l.const]
  BY DEF Forms
<1>2. PICK D \in SUBSET C : l.coef \in [D -> Int]
  BY <1>1
<1>3. QED
  BY <1>1, <1>2 DEF Columns

\* A form over some columns is one over more.
LEMMA FormsGrow == ASSUME NEW C, NEW D, C \subseteq D PROVE Forms(C) \subseteq Forms(D)
<1>1. {[E -> Int] : E \in SUBSET C} \subseteq {[E -> Int] : E \in SUBSET D}
  OBVIOUS
<1>2. UNION {[E -> Int] : E \in SUBSET C} \subseteq UNION {[E -> Int] : E \in SUBSET D}
  BY <1>1
<1>3. QED
  BY <1>2 DEF Forms

LEMMA FormIsIn ==
  ASSUME NEW C, NEW l \in Forms(C), NEW D, Columns(l) \subseteq D PROVE l \in Forms(D)
<1>1. l.const \in Int /\ l.coef \in [Columns(l) -> Int] /\ l = [coef |-> l.coef, const |-> l.const]
  BY FormIs
<1>2. l.coef \in UNION {[E -> Int] : E \in SUBSET D}
  BY <1>1
<1>3. QED
  BY <1>1, <1>2 DEF Forms

\* Normalisation drops coefficients that are zero and makes the others signed.
LEMMA LinFormIs ==
  ASSUME NEW D, NEW m \in [D -> Int], NEW k \in Int
  PROVE  /\ LinForm(m, k) \in Forms(D)
         /\ Columns(LinForm(m, k)) = {x \in D : m[x] % P # 0}
         /\ \A x \in Columns(LinForm(m, k)) : LinForm(m, k).coef[x] = Signed(m[x])
         /\ LinForm(m, k).const = Signed(k)
         /\ IsCanonical(LinForm(m, k))
<1> DEFINE f == [x \in {y \in DOMAIN m : m[y] % P # 0} |-> Signed(m[x])]
<1>1. LinForm(m, k) = [coef |-> Tabulated(f), const |-> Signed(k)]
  BY DEF LinForm
<1>2. DOMAIN f = {x \in D : m[x] % P # 0} /\ \A x \in DOMAIN f : f[x] = Signed(m[x])
  OBVIOUS
<1>3. Tabulated(f) = f
  BY TabulatedIs
<1>4. \A x \in DOMAIN f : f[x] \in Int /\ f[x] % P # 0
  <2>1. SUFFICES ASSUME NEW x \in DOMAIN f PROVE f[x] \in Int /\ f[x] % P # 0
    OBVIOUS
  <2>2. m[x] \in Int /\ m[x] % P # 0 /\ f[x] = Signed(m[x])
    BY <1>2
  <2>3. Same(f[x], m[x])
    BY <2>2, SignedSame
  <2>4. f[x] \in Int
    BY <2>2, SignedSame
  <2>5. QED
    BY <2>2, <2>3, <2>4, SameIsMod
<1>5. Tabulated(f) \in [DOMAIN f -> Int] /\ DOMAIN f \in SUBSET D
  BY <1>2, <1>3, <1>4
<1>6. Tabulated(f) \in UNION {[E -> Int] : E \in SUBSET D}
  BY <1>5
<1>7. Signed(k) \in Int
  BY SignedSame
<1> HIDE DEF f
<1>8. LinForm(m, k) \in Forms(D)
  BY <1>1, <1>6, <1>7 DEF Forms
<1>9. Columns(LinForm(m, k)) = DOMAIN f /\ LinForm(m, k).coef = Tabulated(f) /\ LinForm(m, k).const = Signed(k)
  BY <1>1, <1>3 DEF Columns
<1>10. IsCanonical(LinForm(m, k))
  BY <1>3, <1>4, <1>9 DEF IsCanonical
<1>11. QED
  BY <1>2, <1>3, <1>8, <1>9, <1>10

\* The value of a form is an integer: its constant and the sum of its terms.
LEMMA ValueIs ==
  ASSUME NEW C, NEW l \in Forms(C), NEW w, OnColumns(C, w)
  PROVE  /\ IsFiniteSet(Columns(l))
         /\ \A x \in Columns(l) : TermsOf(l, w)[x] = l.coef[x] * w[x] /\ TermsOf(l, w)[x] \in Int /\ w[x] \in Int
         /\ Value(l, w) = l.const + SumOver(TermsOf(l, w), Columns(l))
         /\ SumOver(TermsOf(l, w), Columns(l)) \in Int
         /\ Value(l, w) \in Int
<1>1. l.const \in Int /\ Columns(l) \subseteq C /\ \A x \in Columns(l) : l.coef[x] \in Int
  BY FormIs
<1>2. IsFiniteSet(Columns(l)) /\ Columns(l) \cap DOMAIN w = Columns(l)
  BY <1>1, FS_Subset DEF OnColumns
<1>3. \A x \in Columns(l) : TermsOf(l, w)[x] = l.coef[x] * w[x] /\ TermsOf(l, w)[x] \in Int /\ w[x] \in Int
  BY <1>1 DEF TermsOf, OnColumns
<1>4. [x \in Columns(l) \cap DOMAIN w |-> l.coef[x] * w[x]] = [x \in Columns(l) |-> TermsOf(l, w)[x]]
  BY <1>2, <1>3
<1>5. Value(l, w) = l.const + SumOver(TermsOf(l, w), Columns(l))
  BY <1>4 DEF Value, SumOver
<1>6. SumOver(TermsOf(l, w), Columns(l)) \in Int
  BY <1>2, <1>3, SumIsInt
<1>7. QED
  BY <1>1, <1>2, <1>3, <1>5, <1>6

\* Normalisation keeps the value modulo P.
LEMMA LinFormValue ==
  ASSUME NEW C, NEW D \in SUBSET C, NEW m \in [D -> Int], NEW k \in Int, NEW w, OnColumns(C, w)
  PROVE  Same(Value(LinForm(m, k), w), k + SumOver([x \in D |-> m[x] * w[x]], D))
<1> DEFINE l == LinForm(m, k)
           f == [x \in D |-> IF x \in Columns(l) THEN l.coef[x] * w[x] ELSE 0]
           g == [x \in D |-> m[x] * w[x]]
<1>1. /\ l \in Forms(D)
      /\ Columns(l) = {x \in D : m[x] % P # 0}
      /\ \A x \in Columns(l) : l.coef[x] = Signed(m[x])
      /\ l.const = Signed(k)
  BY LinFormIs
<1>2. IsFiniteSet(D) /\ \A x \in D : w[x] \in Int /\ m[x] \in Int
  BY FS_Subset DEF OnColumns
<1>3. OnColumns(D, w)
  BY <1>2 DEF OnColumns
<1> HIDE DEF l
<1>4. \A x \in D : Same(f[x], g[x])
  <2>1. SUFFICES ASSUME NEW x \in D PROVE Same(f[x], g[x])
    OBVIOUS
  <2>2. w[x] \in Int /\ m[x] \in Int /\ Same(w[x], w[x])
    BY <1>2, SameRefl
  <2>3. CASE m[x] % P # 0
    <3>1. f[x] = Signed(m[x]) * w[x]
      BY <1>1, <2>3
    <3>2. Same(Signed(m[x]), m[x])
      BY <2>2, SignedSame
    <3>3. QED
      BY <2>2, <3>1, <3>2, SameMul
  <2>4. CASE m[x] % P = 0
    <3>1. f[x] = 0
      BY <1>1, <2>4
    <3>2. Same(0, m[x])
      BY <2>2, <2>4, SameZero, SameSym
    <3>3. Same(0 * w[x], m[x] * w[x]) /\ 0 * w[x] = 0
      BY <2>2, <3>2, SameMul
    <3>4. QED
      BY <3>1, <3>3
  <2>5. QED
    BY <2>3, <2>4
<1>5. Same(SumOver(f, D), SumOver(g, D))
  BY <1>2, <1>4, SumSame
<1>6. SumOver(f, D) = SumOver(f, Columns(l))
  <2>1. Columns(l) \in SUBSET D /\ (\A x \in D : f[x] \in Int) /\ \A x \in D \ Columns(l) : f[x] = 0
    BY <1>1, <1>4 DEF Same
  <2> HIDE DEF f
  <2>2. QED
    BY <1>2, <2>1, SumZeros
<1>7. SumOver(f, Columns(l)) = SumOver(TermsOf(l, w), Columns(l))
  <2>1. \A x \in Columns(l) : f[x] = TermsOf(l, w)[x]
    BY <1>1 DEF TermsOf
  <2>2. QED
    BY <2>1, SumEqual
<1>8. Value(l, w) = l.const + SumOver(TermsOf(l, w), Columns(l))
  BY <1>1, <1>3, ValueIs
<1>9. Same(l.const, k)
  BY <1>1, SignedSame
<1> HIDE DEF f, g
<1>10. Same(l.const + SumOver(f, D), k + SumOver(g, D))
  BY <1>5, <1>9, SameAdd
<1>11. QED
  BY <1>6, <1>7, <1>8, <1>10 DEF l, g

\* A sum over two disjoint sets.
LEMMA SumSplit ==
  ASSUME NEW S, IsFiniteSet(S), NEW T \in SUBSET S, NEW f, \A x \in S : f[x] \in Int
  PROVE  SumOver(f, S) = SumOver(f, T) + SumOver(f, S \ T)
<1> DEFINE g == [x \in S |-> IF x \in T THEN f[x] ELSE 0]
           h == [x \in S |-> IF x \in T THEN 0 ELSE f[x]]
<1>1. SumOver(f, S) = SumOver(g, S) + SumOver(h, S)
  <2>1. \A x \in S : g[x] \in Int /\ h[x] \in Int /\ f[x] = g[x] + h[x]
    OBVIOUS
  <2> HIDE DEF g, h
  <2>2. QED
    BY <2>1, SumAdd
<1>2. SumOver(g, S) = SumOver(g, T)
  <2>1. (\A x \in S : g[x] \in Int) /\ \A x \in S \ T : g[x] = 0
    OBVIOUS
  <2> HIDE DEF g
  <2>2. QED
    BY <2>1, SumZeros
<1>3. SumOver(h, S) = SumOver(h, S \ T)
  <2>1. (\A x \in S : h[x] \in Int) /\ (\A x \in S \ (S \ T) : h[x] = 0) /\ S \ T \in SUBSET S
    OBVIOUS
  <2> HIDE DEF h
  <2>2. QED
    BY <2>1, SumZeros
<1>4. SumOver(g, T) = SumOver(f, T)
  <2>1. \A x \in T : g[x] = f[x]
    OBVIOUS
  <2> HIDE DEF g
  <2>2. QED
    BY <2>1, SumEqual
<1>5. SumOver(h, S \ T) = SumOver(f, S \ T)
  <2>1. \A x \in S \ T : h[x] = f[x]
    OBVIOUS
  <2> HIDE DEF h
  <2>2. QED
    BY <2>1, SumEqual
<1>6. QED
  BY <1>1, <1>2, <1>3, <1>4, <1>5

\* The values of a constant, a column, a multiple, and a sum of forms.
LEMMA NumValue ==
  ASSUME NEW k \in Int
  PROVE  /\ \A C : Num(k) \in Forms(C) /\ Columns(Num(k)) = {} /\ Num(k).const = Signed(k) /\ IsNum(Num(k))
         /\ \A C, w : OnColumns(C, w) => Same(Value(Num(k), w), k)
<1>1. DOMAIN <<>> = {} /\ <<>> \in [{} -> Int]
  OBVIOUS
<1>2. Num(k) \in Forms({}) /\ Columns(Num(k)) = {} /\ Num(k).const = Signed(k)
  BY <1>1, LinFormIs, ZenonT(40) DEF Num
<1>3. \A C : Num(k) \in Forms(C)
  BY <1>2, FormIsIn
<1>4. ASSUME NEW C, NEW w, OnColumns(C, w) PROVE Same(Value(Num(k), w), k)
  <2>1. Same(Value(Num(k), w), k + SumOver([x \in {} |-> <<>>[x] * w[x]], {}))
    BY <1>1, <1>4, LinFormValue DEF Num
  <2>2. SumOver([x \in {} |-> <<>>[x] * w[x]], {}) = 0
    BY SumEmpty
  <2>3. QED
    BY <2>1, <2>2
<1>5. QED
  BY <1>2, <1>3, <1>4 DEF IsNum

LEMMA ColValue ==
  ASSUME NEW C, NEW x \in C, NEW w, OnColumns(C, w)
  PROVE  Col(x) \in Forms(C) /\ Same(Value(Col(x), w), w[x])
<1> DEFINE m == [y \in {x} |-> 1]
<1>1. m \in [{x} -> Int] /\ {x} \in SUBSET C /\ w[x] \in Int
  BY DEF OnColumns
<1>2. Col(x) = LinForm(m, 0)
  BY DEF Col
<1>3. Col(x) \in Forms({x})
  BY <1>1, <1>2, LinFormIs
<1>4. Same(Value(Col(x), w), 0 + SumOver([y \in {x} |-> m[y] * w[y]], {x}))
  BY <1>1, <1>2, LinFormValue
<1>5. SumOver([y \in {x} |-> m[y] * w[y]], {x}) = w[x]
  BY <1>1, SumSingle
<1>6. QED
  BY <1>1, <1>3, <1>4, <1>5, FormsGrow

LEMMA TimesValue ==
  ASSUME NEW C, NEW l \in Forms(C), NEW k \in Int
  PROVE  /\ Times(k, l) \in Forms(C) /\ IsCanonical(Times(k, l)) /\ Columns(Times(k, l)) \subseteq Columns(l)
         /\ \A w : OnColumns(C, w) => Same(Value(Times(k, l), w), k * Value(l, w))
<1> DEFINE m == [x \in Columns(l) |-> k * l.coef[x]]
<1>1. l.const \in Int /\ Columns(l) \in SUBSET C /\ \A x \in Columns(l) : l.coef[x] \in Int
  BY FormIs
<1>2. m \in [Columns(l) -> Int] /\ k * l.const \in Int
  BY <1>1
<1>3. Times(k, l) = LinForm(m, k * l.const)
  BY DEF Times
<1>4. Times(k, l) \in Forms(Columns(l)) /\ IsCanonical(Times(k, l)) /\ Columns(Times(k, l)) \subseteq Columns(l)
  BY <1>2, <1>3, LinFormIs
<1>5. Times(k, l) \in Forms(C)
  BY <1>1, <1>4, FormsGrow
<1>6. ASSUME NEW w, OnColumns(C, w) PROVE Same(Value(Times(k, l), w), k * Value(l, w))
  <2> DEFINE f == [x \in Columns(l) |-> m[x] * w[x]]
  <2>1. Same(Value(Times(k, l), w), k * l.const + SumOver(f, Columns(l)))
    BY <1>1, <1>2, <1>3, <1>6, LinFormValue
  <2>2. /\ IsFiniteSet(Columns(l))
        /\ \A x \in Columns(l) : TermsOf(l, w)[x] = l.coef[x] * w[x] /\ TermsOf(l, w)[x] \in Int /\ w[x] \in Int
        /\ Value(l, w) = l.const + SumOver(TermsOf(l, w), Columns(l))
        /\ SumOver(TermsOf(l, w), Columns(l)) \in Int
    BY <1>6, ValueIs
  <2>3. \A x \in Columns(l) : f[x] = k * TermsOf(l, w)[x]
    BY <1>1, <2>2
  <2>4. SumOver(f, Columns(l)) = k * SumOver(TermsOf(l, w), Columns(l))
    <3> HIDE DEF f
    <3>1. QED
      BY <2>2, <2>3, SumScale
  <2>5. k * (l.const + SumOver(TermsOf(l, w), Columns(l))) = k * l.const + k * SumOver(TermsOf(l, w), Columns(l))
    BY <1>1, <2>2
  <2>6. QED
    BY <2>1, <2>2, <2>4, <2>5
<1>7. QED
  BY <1>4, <1>5, <1>6

\* A form's sum, taken over more columns than it has.
LEMMA CoefSum ==
  ASSUME NEW C, NEW l \in Forms(C), NEW w, OnColumns(C, w), NEW D \in SUBSET C, Columns(l) \subseteq D
  PROVE  SumOver([x \in D |-> Coef(l, x) * w[x]], D) = SumOver(TermsOf(l, w), Columns(l))
<1> DEFINE f == [x \in D |-> Coef(l, x) * w[x]]
<1>1. IsFiniteSet(D) /\ \A x \in D : w[x] \in Int
  BY FS_Subset DEF OnColumns
<1>2. \A x \in Columns(l) : f[x] = TermsOf(l, w)[x] /\ f[x] \in Int
  BY ValueIs DEF Coef
<1>3. \A x \in D \ Columns(l) : f[x] = 0
  BY <1>1 DEF Coef
<1>4. \A x \in D : f[x] \in Int
  <2> HIDE DEF f
  <2>1. QED
    BY <1>2, <1>3
<1> HIDE DEF f
<1>5. SumOver(f, D) = SumOver(f, Columns(l))
  BY <1>1, <1>3, <1>4, SumZeros
<1>6. SumOver(f, Columns(l)) = SumOver(TermsOf(l, w), Columns(l))
  BY <1>2, SumEqual
<1>7. QED
  BY <1>5, <1>6 DEF f

LEMMA PlusValue ==
  ASSUME NEW C, NEW l \in Forms(C), NEW n \in Forms(C)
  PROVE  /\ Plus(l, n) \in Forms(C) /\ IsCanonical(Plus(l, n)) /\ Columns(Plus(l, n)) \subseteq Columns(l) \cup Columns(n)
         /\ \A w : OnColumns(C, w) => Same(Value(Plus(l, n), w), Value(l, w) + Value(n, w))
<1> DEFINE D == Columns(l) \cup Columns(n)
           m == [x \in D |-> Coef(l, x) + Coef(n, x)]
<1>1. /\ l.const \in Int /\ n.const \in Int /\ D \in SUBSET C
      /\ \A x \in D : Coef(l, x) \in Int /\ Coef(n, x) \in Int
  BY FormIs DEF Coef
<1>2. m \in [D -> Int] /\ l.const + n.const \in Int
  BY <1>1
<1>3. Plus(l, n) = LinForm(m, l.const + n.const)
  BY DEF Plus
<1>4. Plus(l, n) \in Forms(D) /\ IsCanonical(Plus(l, n)) /\ Columns(Plus(l, n)) \subseteq D
  BY <1>2, <1>3, LinFormIs
<1>5. Plus(l, n) \in Forms(C)
  BY <1>1, <1>4, FormsGrow
<1>6. ASSUME NEW w, OnColumns(C, w) PROVE Same(Value(Plus(l, n), w), Value(l, w) + Value(n, w))
  <2> DEFINE f == [x \in D |-> Coef(l, x) * w[x]]
             g == [x \in D |-> Coef(n, x) * w[x]]
             h == [x \in D |-> m[x] * w[x]]
  <2>1. Same(Value(Plus(l, n), w), (l.const + n.const) + SumOver(h, D))
    <3>1. D \in SUBSET C /\ m \in [D -> Int] /\ l.const + n.const \in Int
      BY <1>1, <1>2
    <3> HIDE DEF D, m
    <3>2. Same(Value(LinForm(m, l.const + n.const), w), (l.const + n.const) + SumOver([x \in D |-> m[x] * w[x]], D))
      BY <3>1, <1>6, LinFormValue
    <3>3. QED
      BY <3>2, <1>3
  <2>2. IsFiniteSet(D) /\ \A x \in D : w[x] \in Int
    BY <1>1, <1>6, FS_Subset DEF OnColumns
  <2>3. SumOver(f, D) = SumOver(TermsOf(l, w), Columns(l)) /\ SumOver(g, D) = SumOver(TermsOf(n, w), Columns(n))
    BY <1>1, <1>6, CoefSum
  <2>4. SumOver(h, D) = SumOver(f, D) + SumOver(g, D)
    <3>1. \A x \in D : f[x] \in Int /\ g[x] \in Int /\ h[x] = f[x] + g[x]
      BY <1>1, <2>2
    <3> HIDE DEF f, g, h, D
    <3>2. QED
      BY <2>2, <3>1, SumAdd
  <2>5. Value(l, w) = l.const + SumOver(TermsOf(l, w), Columns(l)) /\ SumOver(TermsOf(l, w), Columns(l)) \in Int
    BY <1>6, ValueIs
  <2>6. Value(n, w) = n.const + SumOver(TermsOf(n, w), Columns(n)) /\ SumOver(TermsOf(n, w), Columns(n)) \in Int
    BY <1>6, ValueIs
  <2>7. (l.const + n.const) + SumOver(h, D) = Value(l, w) + Value(n, w)
    <3> HIDE DEF f, g, h, D
    <3>1. QED
      BY <1>1, <2>3, <2>4, <2>5, <2>6
  <2>8. QED
    BY <2>1, <2>7
<1>7. QED
  BY <1>4, <1>5, <1>6

\* Columns are replaced by what they are known to be.
PinsAgree(pins, w) == \A x \in DOMAIN pins : x \in DOMAIN w /\ pins[x] \in Int /\ Same(pins[x], w[x])

\* Pins that hold may be substituted.
LEMMA SubstValue ==
  ASSUME NEW C, NEW l \in Forms(C), NEW pins, NEW w, OnColumns(C, w), PinsAgree(pins, w)
  PROVE  /\ Subst(l, pins) \in Forms(C) /\ IsCanonical(Subst(l, pins))
         /\ Columns(Subst(l, pins)) \subseteq Columns(l) \ DOMAIN pins
         /\ Same(Value(Subst(l, pins), w), Value(l, w))
         /\ Subst(l, pins).const = Signed(Value(l, pins)) /\ Value(l, pins) \in Int
<1> DEFINE A == Columns(l) \cap DOMAIN pins
           B == Columns(l) \ DOMAIN pins
           f == TermsOf(l, w)
           g == [x \in A |-> l.coef[x] * pins[x]]
           m == [x \in B |-> l.coef[x]]
<1>1. l.const \in Int /\ Columns(l) \in SUBSET C /\ \A x \in Columns(l) : l.coef[x] \in Int
  BY FormIs
<1>2. /\ IsFiniteSet(Columns(l))
      /\ \A x \in Columns(l) : f[x] = l.coef[x] * w[x] /\ f[x] \in Int /\ w[x] \in Int
      /\ Value(l, w) = l.const + SumOver(f, Columns(l))
      /\ SumOver(f, Columns(l)) \in Int
  BY ValueIs
<1>3. IsFiniteSet(A) /\ IsFiniteSet(B) /\ A \in SUBSET Columns(l) /\ B = Columns(l) \ A
  BY <1>2, FS_Intersection, FS_Difference
<1>4. \A x \in A : Same(g[x], f[x]) /\ g[x] \in Int
  <2>1. SUFFICES ASSUME NEW x \in A PROVE Same(g[x], f[x]) /\ g[x] \in Int
    OBVIOUS
  <2>2. Same(l.coef[x], l.coef[x]) /\ Same(pins[x], w[x])
    BY <1>1, SameRefl DEF PinsAgree
  <2>3. Same(l.coef[x] * pins[x], l.coef[x] * w[x])
    BY <2>2, SameMul
  <2>4. QED
    BY <1>2, <2>3 DEF Same
<1>5. Value(l, pins) = l.const + SumOver(g, A)
  BY DEF Value, SumOver
<1>6. Same(SumOver(g, A), SumOver(f, A))
  <2> HIDE DEF f, g, A
  <2>1. QED
    BY <1>3, <1>4, SumSame
<1>7. SumOver(f, Columns(l)) = SumOver(f, A) + SumOver(f, B)
  <2> HIDE DEF f, A, B
  <2>1. QED
    BY <1>2, <1>3, SumSplit
<1>8. SumOver(g, A) \in Int /\ SumOver(f, A) \in Int
  BY <1>6 DEF Same
<1>9. Value(l, pins) \in Int
  BY <1>1, <1>5, <1>8
<1>10. m \in [B -> Int] /\ B \in SUBSET C
  BY <1>1
<1>11. Subst(l, pins) = LinForm(m, Value(l, pins))
  BY DEF Subst
<1>12. /\ Subst(l, pins) \in Forms(B) /\ IsCanonical(Subst(l, pins)) /\ Columns(Subst(l, pins)) \subseteq B
       /\ Subst(l, pins).const = Signed(Value(l, pins))
  <2> HIDE DEF f, g, m, A, B
  <2>1. QED
    BY <1>9, <1>10, <1>11, LinFormIs
<1>13. Same(Value(Subst(l, pins), w), Value(l, pins) + SumOver([x \in B |-> m[x] * w[x]], B))
  BY <1>9, <1>10, <1>11, LinFormValue
<1>14. SumOver([x \in B |-> m[x] * w[x]], B) = SumOver(f, B)
  <2>1. \A x \in B : [y \in B |-> m[y] * w[y]][x] = f[x]
    BY <1>2
  <2>2. QED
    BY <2>1, SumEqual
<1>15. SumOver(f, B) \in Int
  <2>1. \A x \in B : f[x] \in Int
    BY <1>2
  <2> HIDE DEF f, B
  <2>2. QED
    BY <1>3, <2>1, SumIsInt
<1>16. Same(Value(l, pins) + SumOver(f, B), Value(l, w))
  <2>1. Same(l.const, l.const) /\ Same(SumOver(f, B), SumOver(f, B))
    BY <1>1, <1>15, SameRefl
  <2>2. Same((l.const + SumOver(g, A)) + SumOver(f, B), (l.const + SumOver(f, A)) + SumOver(f, B))
    BY <1>6, <2>1, SameAdd
  <2>3. (l.const + SumOver(f, A)) + SumOver(f, B) = Value(l, w)
    BY <1>1, <1>2, <1>7, <1>8, <1>15
  <2>4. QED
    BY <1>5, <2>2, <2>3
<1>17. Same(Value(Subst(l, pins), w), Value(l, w))
  BY <1>13, <1>14, <1>16, SameTrans
<1>18. Subst(l, pins) \in Forms(C)
  BY <1>10, <1>12, FormsGrow
<1>19. QED
  BY <1>9, <1>12, <1>17, <1>18

-----------------------------------------------------------------------------
\* Recursion: rounds up to N, and visits of the members of a finite set.
LEMMA RunsUpTo ==
  ASSUME NEW N \in Nat, NEW T, 0 \in T, \A n \in 1..N : n - 1 \in T => n \in T
  PROVE  \A n \in 0..N : n \in T
<1> DEFINE Bad == {n \in 0..N : n \notin T}
<1>1. SUFFICES ASSUME Bad # {} PROVE FALSE
  OBVIOUS
<1>6. Bad \subseteq Nat
  OBVIOUS
<1>2. PICK n \in Bad : \A m \in Bad : n <= m
  <2> HIDE DEF Bad
  <2>1. QED
    BY <1>1, <1>6, SmallestNumber
<1>3. n \in 1..N /\ n - 1 \in 0..N
  BY <1>2
<1>4. n - 1 \notin Bad
  BY <1>2, <1>3
<1>5. QED
  BY <1>2, <1>3, <1>4

IsRun(r, N, X, start, G) == r \in [0..N -> X] /\ r[0] = start /\ \A n \in 1..N : r[n] = G[n][r[n - 1]]

\* A function defined by recursion over 0..N has the steps it is given.
LEMMA RunsExist ==
  ASSUME NEW N \in Nat, NEW X, NEW start \in X, NEW G \in [1..N -> [X -> X]]
  PROVE  \E r : IsRun(r, N, X, start, G)
<1> DEFINE Good(m, r) == r \in [0..m -> X] /\ r[0] = start /\ \A n \in 1..m : r[n] = G[n][r[n - 1]]
           T == {m \in 0..N : \E r : Good(m, r)}
<1>1. 0 \in T
  <2>1. Good(0, [n \in 0..0 |-> start])
    OBVIOUS
  <2> HIDE DEF Good
  <2>2. QED
    BY <2>1
<1>2. ASSUME NEW m \in 1..N, m - 1 \in T PROVE m \in T
  <2>1. PICK s : Good(m - 1, s)
    BY <1>2
  <2> DEFINE v == G[m][s[m - 1]]
             r == [n \in 0..m |-> IF n = m THEN v ELSE s[n]]
  <2>2. v \in X
    BY <2>1
  <2>3. r \in [0..m -> X] /\ r[0] = start /\ r[m] = v
    BY <2>1, <2>2
  <2>4. ASSUME NEW n \in 1..m PROVE r[n] = G[n][r[n - 1]]
    <3>1. n - 1 \in 0..m - 1 /\ r[n - 1] = s[n - 1]
      OBVIOUS
    <3>2. CASE n = m
      BY <3>1, <3>2
    <3>3. CASE n # m
      <4>1. n \in 1..m - 1 /\ r[n] = s[n]
        BY <3>3
      <4>2. QED
        BY <2>1, <3>1, <4>1
    <3>4. QED
      BY <3>2, <3>3
  <2> HIDE DEF r
  <2>5. Good(m, r)
    BY <2>3, <2>4
  <2> HIDE DEF Good
  <2>6. QED
    BY <2>5
<1> HIDE DEF T
<1>3. \A m \in 0..N : m \in T
  <2>1. \A m \in 1..N : m - 1 \in T => m \in T
    BY <1>2
  <2>2. QED
    BY <1>1, <2>1, RunsUpTo
<1>4. N \in T
  BY <1>3
<1>5. QED
  BY <1>4 DEF T, IsRun

\* What a function that is defined by recursion over a finite set returns.
IsVisit(r, U, start, G) ==
  r = [A \in SUBSET U |-> IF A = {} THEN start ELSE LET a == CHOOSE x \in A : TRUE IN G[a][r[A \ {a}]]]
IsPartialVisit(r, U, X, start, G, n) ==
  LET Small == {A \in SUBSET U : Cardinality(A) <= n}
  IN  r \in [Small -> X] /\ \A A \in Small : r[A] = IF A = {} THEN start
                                                     ELSE LET a == CHOOSE x \in A : TRUE IN G[a][r[A \ {a}]]

\* A function defined by recursion over the subsets of a finite set.
LEMMA VisitsExist ==
  ASSUME NEW U, IsFiniteSet(U), NEW X, NEW start \in X, NEW G \in [U -> [X -> X]]
  PROVE  \E r : IsVisit(r, U, start, G) /\ r[U] \in X
<1> DEFINE Small(n) == {A \in SUBSET U : Cardinality(A) <= n}
           N == Cardinality(U)
           T == {n \in 0..N : \E r : IsPartialVisit(r, U, X, start, G, n)}
<1>1. N \in Nat /\ \A A \in SUBSET U : IsFiniteSet(A) /\ Cardinality(A) \in 0..N
  BY FS_Subset, FS_CardinalityType
<1>2. 0 \in T
  <2>1. Small(0) = {{}}
    BY <1>1, FS_EmptySet
  <2>2. IsPartialVisit([A \in Small(0) |-> start], U, X, start, G, 0)
    BY <2>1 DEF IsPartialVisit
  <2>3. QED
    BY <1>1, <2>2
<1>3. ASSUME NEW n \in 1..N, n - 1 \in T PROVE n \in T
  <2>1. PICK s : IsPartialVisit(s, U, X, start, G, n - 1)
    BY <1>3
  <2> DEFINE val(A) == IF A = {} THEN start ELSE LET a == CHOOSE x \in A : TRUE IN G[a][s[A \ {a}]]
             r == [A \in Small(n) |-> val(A)]
  <2>2. s \in [Small(n - 1) -> X] /\ \A A \in Small(n - 1) : s[A] = val(A)
    BY <2>1 DEF IsPartialVisit
  <2>3. \A A \in Small(n) : A # {} => LET a == CHOOSE x \in A : TRUE IN a \in A /\ a \in U /\ A \ {a} \in Small(n - 1)
    <3>1. SUFFICES ASSUME NEW A \in Small(n), A # {}, NEW a, a = CHOOSE x \in A : TRUE
                   PROVE  a \in A /\ a \in U /\ A \ {a} \in Small(n - 1)
      OBVIOUS
    <3>2. a \in A /\ a \in U
      BY <3>1
    <3>3. Cardinality(A \ {a}) = Cardinality(A) - 1
      BY <1>1, <3>2, FS_RemoveElement
    <3>4. QED
      BY <1>1, <3>2, <3>3
  <2>4. \A A \in Small(n) : val(A) \in X
    <3>1. SUFFICES ASSUME NEW A \in Small(n), A # {} PROVE val(A) \in X
      OBVIOUS
    <3>2. PICK a : a = CHOOSE x \in A : TRUE
      OBVIOUS
    <3>3. a \in U /\ A \ {a} \in Small(n - 1)
      BY <2>3, <3>1, <3>2
    <3>4. s[A \ {a}] \in X
      <4> HIDE DEF Small, val
      <4>1. QED
        BY <2>2, <3>3
    <3>5. val(A) = G[a][s[A \ {a}]]
      BY <3>1, <3>2
    <3>6. QED
      BY <3>3, <3>4, <3>5
  <2>5. \A A \in Small(n - 1) : A \in Small(n) /\ r[A] = s[A]
    <3>1. \A A \in Small(n - 1) : A \in Small(n)
      BY <1>1
    <3>2. QED
      BY <2>2, <3>1
  <2>6. \A A \in Small(n) : r[A] = IF A = {} THEN start ELSE LET a == CHOOSE x \in A : TRUE IN G[a][r[A \ {a}]]
    <3>1. SUFFICES ASSUME NEW A \in Small(n)
                   PROVE  r[A] = IF A = {} THEN start ELSE LET a == CHOOSE x \in A : TRUE IN G[a][r[A \ {a}]]
      OBVIOUS
    <3>2. r[A] = val(A)
      OBVIOUS
    <3>3. CASE A = {}
      BY <3>2, <3>3
    <3>4. CASE A # {}
      <4>1. PICK a : a = CHOOSE x \in A : TRUE
        OBVIOUS
      <4>2. r[A \ {a}] = s[A \ {a}]
        BY <2>3, <2>5, <3>4, <4>1
      <4>3. val(A) = G[a][s[A \ {a}]]
        BY <3>4, <4>1
      <4> HIDE DEF r, val
      <4>4. QED
        BY <3>2, <3>4, <4>1, <4>2, <4>3
    <3>5. QED
      BY <3>3, <3>4
  <2>7. r \in [Small(n) -> X]
    BY <2>4
  <2> HIDE DEF r
  <2>8. IsPartialVisit(r, U, X, start, G, n)
    BY <2>6, <2>7 DEF IsPartialVisit
  <2>9. QED
    BY <2>8
<1>4. N \in T
  <2> HIDE DEF T, N
  <2>1. QED
    BY <1>1, <1>2, <1>3, RunsUpTo
<1>5. PICK r : IsPartialVisit(r, U, X, start, G, N)
  BY <1>4
<1>6. Small(N) = SUBSET U
  BY <1>1
<1>7. r \in [SUBSET U -> X] /\ r = [A \in SUBSET U |-> r[A]]
  BY <1>5, <1>6 DEF IsPartialVisit
<1>8. \A A \in SUBSET U : r[A] = IF A = {} THEN start ELSE LET a == CHOOSE x \in A : TRUE IN G[a][r[A \ {a}]]
  BY <1>5, <1>6 DEF IsPartialVisit
<1>9. IsVisit(r, U, start, G)
  BY <1>7, <1>8 DEF IsVisit
<1>10. QED
  BY <1>7, <1>9

\* A recursion over a finite set stays within X.
LEMMA VisitIn ==
  ASSUME NEW U, IsFiniteSet(U), NEW X, NEW r, r[{}] \in X,
         \A A \in SUBSET U : A # {} => LET a == CHOOSE x \in A : TRUE IN r[A \ {a}] \in X => r[A] \in X
  PROVE  r[U] \in X
<1> DEFINE Bad == {A \in SUBSET U : r[A] \notin X}
<1>1. SUFFICES ASSUME U \in Bad PROVE FALSE
  OBVIOUS
<1>2. PICK A \in Bad : \A x \in A : A \ {x} \notin Bad
  BY <1>1, SmallestSet
<1>3. A # {}
  OBVIOUS
<1> DEFINE a == CHOOSE x \in A : TRUE
<1>4. a \in A
  BY <1>3
<1>5. r[A \ {a}] \in X
  BY <1>2, <1>4
<1>6. QED
  BY <1>3, <1>5

-----------------------------------------------------------------------------
\* Products of integers modulo the prime.
IsProductRun(r, v) ==
  /\ r \in [0..Len(v) -> Int] /\ r[0] = 1
  /\ \A n \in 1..Len(v) : r[n] = (r[n - 1] * v[n]) % P

\* The product of a sequence, step by step.
LEMMA MultiplyIs ==
  ASSUME NEW v \in Seq(Int) PROVE \E r : IsProductRun(r, v) /\ Multiply(v) = r[Len(v)]
<1> DEFINE N == Len(v)
           Computes(r) == r = [n \in 0..N |-> IF n = 0 THEN 1 ELSE (r[n - 1] * v[n]) % P]
           c == CHOOSE r : Computes(r)
           G == [n \in 1..N |-> [a \in Int |-> (a * v[n]) % P]]
<1>1. N \in Nat /\ \A n \in 1..N : v[n] \in Int
  OBVIOUS
<1>2. G \in [1..N -> [Int -> Int]] /\ 1 \in Int
  BY <1>1, PrimeIsInt
<1>11. PICK r : IsRun(r, N, Int, 1, G)
  <2> HIDE DEF G, N
  <2>1. QED
    BY <1>1, <1>2, RunsExist
<1>3. r \in [0..N -> Int] /\ r[0] = 1 /\ \A n \in 1..N : r[n] = G[n][r[n - 1]]
  BY <1>11 DEF IsRun
<1>4. \A n \in 0..N : r[n] = IF n = 0 THEN 1 ELSE (r[n - 1] * v[n]) % P
  <2>1. SUFFICES ASSUME NEW n \in 1..N PROVE r[n] = (r[n - 1] * v[n]) % P
    BY <1>3
  <2>5. n - 1 \in 0..N
    BY <1>1
  <2>2. r[n - 1] \in Int
    BY <1>3, <2>5
  <2>4. G[n] = [a \in Int |-> (a * v[n]) % P]
    OBVIOUS
  <2> HIDE DEF G
  <2>3. QED
    BY <1>3, <2>2, <2>4
<1>5. Computes(r)
  BY <1>3, <1>4
<1>6. Computes(c)
  <2> HIDE DEF Computes
  <2>1. QED
    BY <1>5
<1>7. Multiply(v) = c[N]
  BY DEF Multiply
<1> HIDE DEF c
<1>8. \A n \in 0..N : c[n] \in Int
  <2> DEFINE T == {n \in 0..N : c[n] \in Int}
  <2>1. 0 \in T
    BY <1>1, <1>6
  <2>2. ASSUME NEW n \in 1..N, n - 1 \in T PROVE n \in T
    <3>1. c[n] = (c[n - 1] * v[n]) % P
      BY <1>6, <1>1
    <3>2. c[n - 1] * v[n] \in Int
      BY <1>1, <2>2
    <3>3. QED
      BY <3>1, <3>2, PrimeIsInt
  <2> HIDE DEF T
  <2>3. \A n \in 0..N : n \in T
    BY <1>1, <2>1, <2>2, RunsUpTo
  <2>4. QED
    BY <2>3 DEF T
<1>9. IsProductRun(c, v)
  <2>1. c \in [0..N -> Int]
    BY <1>6, <1>8
  <2>2. \A n \in 1..N : c[n] = (c[n - 1] * v[n]) % P
    BY <1>6, <1>1
  <2>3. c[0] = 1
    BY <1>6, <1>1
  <2>4. QED
    BY <2>1, <2>2, <2>3 DEF IsProductRun
<1>10. QED
  BY <1>7, <1>9

\* It is in the field.
LEMMA MultiplyInField == ASSUME PrimeField, NEW v \in Seq(Int) PROVE Multiply(v) \in 0..P - 1
<1>1. PICK r : IsProductRun(r, v) /\ Multiply(v) = r[Len(v)]
  BY MultiplyIs
<1>2. Len(v) \in Nat /\ \A n \in 1..Len(v) : v[n] \in Int
  OBVIOUS
<1>3. CASE Len(v) = 0
  BY <1>1, <1>3, PrimeIsInt DEF IsProductRun, PrimeField
<1>4. CASE Len(v) # 0
  <2>1. Len(v) \in 1..Len(v) /\ Len(v) - 1 \in 0..Len(v)
    BY <1>2, <1>4
  <2>2. r[Len(v) - 1] * v[Len(v)] \in Int
    BY <1>1, <1>2, <2>1 DEF IsProductRun
  <2>3. QED
    BY <1>1, <2>1, <2>2, Remainder DEF IsProductRun
<1>5. QED
  BY <1>3, <1>4

\* Congruent factors have the same product.
LEMMA MultiplySame ==
  ASSUME NEW v \in Seq(Int), NEW u \in Seq(Int), Len(u) = Len(v), \A n \in 1..Len(v) : Same(v[n], u[n])
  PROVE  Multiply(v) = Multiply(u)
<1>1. PICK r : IsProductRun(r, v) /\ Multiply(v) = r[Len(v)]
  BY MultiplyIs
<1>2. PICK s : IsProductRun(s, u) /\ Multiply(u) = s[Len(u)]
  BY MultiplyIs
<1> DEFINE N == Len(v)
           T == {n \in 0..N : r[n] = s[n]}
<1>3. N \in Nat
  OBVIOUS
<1>4. 0 \in T
  BY <1>1, <1>2, <1>3 DEF IsProductRun
<1>5. ASSUME NEW n \in 1..N, n - 1 \in T PROVE n \in T
  <2>1. n - 1 \in 0..N /\ r[n - 1] \in Int /\ v[n] \in Int /\ u[n] \in Int /\ s[n - 1] = r[n - 1]
    <3>1. n - 1 \in 0..N /\ n \in 1..Len(v) /\ n \in 1..Len(u) /\ s[n - 1] = r[n - 1]
      BY <1>3, <1>5
    <3>2. r[n - 1] \in Int
      BY <1>1, <3>1 DEF IsProductRun
    <3>3. QED
      BY <3>1, <3>2
  <2>2. r[n] = (r[n - 1] * v[n]) % P /\ s[n] = (r[n - 1] * u[n]) % P
    <3>1. n \in 1..Len(v) /\ n \in 1..Len(u)
      OBVIOUS
    <3>2. QED
      BY <1>1, <1>2, <2>1, <3>1 DEF IsProductRun
  <2>3. Same(r[n - 1] * v[n], r[n - 1] * u[n])
    BY <2>1, SameRefl, SameMul
  <2>4. (r[n - 1] * v[n]) % P = (r[n - 1] * u[n]) % P
    <3>1. r[n - 1] * v[n] \in Int /\ r[n - 1] * u[n] \in Int
      BY <2>1
    <3>2. QED
      BY <2>3, <3>1, SameIsMod
  <2>5. QED
    BY <2>2, <2>4
<1>6. \A n \in 0..N : n \in T
  <2> HIDE DEF T, N
  <2>1. QED
    BY <1>3, <1>4, <1>5, RunsUpTo
<1>7. QED
  BY <1>1, <1>2, <1>3, <1>6

\* A product is zero when, and as P is prime only when, a factor is.
LEMMA MultiplyZero ==
  ASSUME PrimeField, NEW v \in Seq(Int)
  PROVE  Multiply(v) = 0 <=> \E n \in 1..Len(v) : Same(v[n], 0)
<1>1. PICK r : IsProductRun(r, v) /\ Multiply(v) = r[Len(v)]
  BY MultiplyIs
<1> DEFINE N == Len(v)
           T == {n \in 0..N : (r[n] % P) = 0 <=> \E m \in 1..n : Same(v[m], 0)}
<1>3. N \in Nat /\ \A n \in 1..N : v[n] \in Int
  OBVIOUS
<1>4. 0 \in T
  <2>1. r[0] = 1 /\ (1 % P) = 1
    BY <1>1, PrimeIsInt DEF IsProductRun, PrimeField
  <2>2. QED
    BY <1>3, <2>1
<1>5. ASSUME NEW n \in 1..N, n - 1 \in T PROVE n \in T
  <2>1. n - 1 \in 0..N /\ r[n - 1] \in Int /\ v[n] \in Int
    BY <1>1, <1>3 DEF IsProductRun
  <2>2. r[n] = (r[n - 1] * v[n]) % P
    BY <1>1 DEF IsProductRun
  <2>3. r[n] % P = (r[n - 1] * v[n]) % P
    <3>1. r[n - 1] * v[n] \in Int
      BY <2>1
    <3>2. \A k \in Int : (k % P) % P = k % P
      BY PrimeIsInt
    <3>3. QED
      BY <2>2, <3>1, <3>2
  <2>4. (r[n] % P) = 0 <=> Same(r[n - 1] * v[n], 0)
    BY <2>1, <2>3, SameZero
  <2>5. Same(r[n - 1] * v[n], 0) <=> Same(r[n - 1], 0) \/ Same(v[n], 0)
    <3>1. ASSUME Same(r[n - 1], 0) PROVE Same(r[n - 1] * v[n], 0)
      <4>1. Same(r[n - 1] * v[n], 0 * v[n])
        BY <2>1, <3>1, SameRefl, SameMul
      <4>2. QED
        BY <2>1, <4>1
    <3>2. ASSUME Same(v[n], 0) PROVE Same(r[n - 1] * v[n], 0)
      <4>1. Same(r[n - 1] * v[n], r[n - 1] * 0)
        BY <2>1, <3>2, SameRefl, SameMul
      <4>2. QED
        BY <2>1, <4>1
    <3>3. QED
      BY <2>1, <3>1, <3>2, ZeroFactor
  <2>6. Same(r[n - 1], 0) <=> (r[n - 1] % P) = 0
    BY <2>1, SameZero
  <2>7. (\E m \in 1..n : Same(v[m], 0)) <=> (\E m \in 1..n - 1 : Same(v[m], 0)) \/ Same(v[n], 0)
    <3>1. 1..n = (1..n - 1) \cup {n}
      OBVIOUS
    <3>2. QED
      BY <3>1
  <2>8. (r[n - 1] % P) = 0 <=> \E m \in 1..n - 1 : Same(v[m], 0)
    BY <1>5
  <2>9. QED
    BY <2>4, <2>5, <2>6, <2>7, <2>8
<1>6. \A n \in 0..N : n \in T
  <2> HIDE DEF T, N
  <2>1. QED
    BY <1>3, <1>4, <1>5, RunsUpTo
<1>7. N \in 0..N
  BY <1>3
<1>8. (r[N] % P) = 0 <=> \E m \in 1..N : Same(v[m], 0)
  BY <1>6, <1>7
<1>9. r[N] % P = r[N]
  <2>1. r[N] \in 0..P - 1
    BY <1>1, MultiplyInField
  <2>2. \A a \in 0..P - 1 : a % P = a
    BY PrimeIsInt
  <2>3. QED
    BY <2>1, <2>2
<1>10. QED
  BY <1>1, <1>8, <1>9

-----------------------------------------------------------------------------
\* Expressions.
Exprs(C) == Seq(Seq(Forms(C)))
ValuesOn(p, w) == [n \in DOMAIN p |-> Value(p[n], w)]
Valued(p, w) == \A n \in DOMAIN p : Value(p[n], w) \in Int
AllValued(e, w) == \A i \in DOMAIN e : Valued(e[i], w)
ProductsOn(e, w) == [i \in DOMAIN e |-> EvalProduct(e[i], w)]

\* What an expression is made of.
LEMMA ExprIs ==
  ASSUME NEW C, NEW e \in Exprs(C)
  PROVE  /\ Len(e) \in Nat /\ DOMAIN e = 1..Len(e) /\ IsFiniteSet(DOMAIN e)
         /\ \A i \in DOMAIN e : /\ e[i] \in Seq(Forms(C)) /\ Len(e[i]) \in Nat /\ DOMAIN e[i] = 1..Len(e[i])
                                /\ \A j \in DOMAIN e[i] : /\ e[i][j] \in Forms(C) /\ e[i][j] \in Factors(e)
                                                          /\ Columns(e[i][j]) \subseteq Names(e)
         /\ Names(e) \subseteq C
<1>1. Len(e) \in Nat /\ DOMAIN e = 1..Len(e) /\ \A i \in DOMAIN e : e[i] \in Seq(Forms(C))
  BY DEF Exprs
<1>2. IsFiniteSet(DOMAIN e)
  BY <1>1, FS_Interval
<1>3. \A i \in DOMAIN e : Len(e[i]) \in Nat /\ DOMAIN e[i] = 1..Len(e[i]) /\ \A j \in DOMAIN e[i] : e[i][j] \in Forms(C)
  BY <1>1
<1>4. \A i \in DOMAIN e : \A j \in DOMAIN e[i] : e[i][j] \in Factors(e)
  BY DEF Factors, ToSet
<1>5. \A f \in Factors(e) : Columns(f) \subseteq Names(e)
  BY DEF Names
<1>6. \A f \in Factors(e) : f \in Forms(C)
  BY <1>3 DEF Factors, ToSet
<1>7. Names(e) \subseteq C
  BY <1>6, FormIs DEF Names
<1>8. QED
  BY <1>1, <1>2, <1>3, <1>4, <1>5, <1>7

\* The value of an expression over the columns it names.
LEMMA ValueAgrees ==
  ASSUME NEW l, NEW w, NEW u, Columns(l) \cap DOMAIN w = Columns(l) \cap DOMAIN u,
         \A x \in Columns(l) \cap DOMAIN w : w[x] = u[x]
  PROVE  Value(l, w) = Value(l, u)
<1>1. [x \in Columns(l) \cap DOMAIN w |-> l.coef[x] * w[x]] = [x \in Columns(l) \cap DOMAIN u |-> l.coef[x] * u[x]]
  OBVIOUS
<1>2. QED
  BY <1>1 DEF Value

\* An expression has the same value where its factors have.
LEMMA EvalAgrees ==
  ASSUME NEW e, NEW w, NEW u, \A i \in DOMAIN e : \A j \in DOMAIN e[i] : Value(e[i][j], w) = Value(e[i][j], u)
  PROVE  Eval(e, w) = Eval(e, u)
<1>1. \A i \in DOMAIN e : EvalProduct(e[i], w) = EvalProduct(e[i], u)
  <2>1. SUFFICES ASSUME NEW i \in DOMAIN e PROVE EvalProduct(e[i], w) = EvalProduct(e[i], u)
    OBVIOUS
  <2>2. [n \in DOMAIN e[i] |-> Value(e[i][n], w)] = [n \in DOMAIN e[i] |-> Value(e[i][n], u)]
    OBVIOUS
  <2>3. QED
    BY <2>2 DEF EvalProduct
<1>2. [n \in DOMAIN e |-> EvalProduct(e[n], w)] = [n \in DOMAIN e |-> EvalProduct(e[n], u)]
  BY <1>1
<1>3. QED
  BY <1>2 DEF Eval

\* It has the same value where its columns have.
LEMMA EvalAgreesOn ==
  ASSUME NEW C, NEW e \in Exprs(C), NEW w, NEW u, Names(e) \subseteq DOMAIN w, Names(e) \subseteq DOMAIN u,
         \A x \in Names(e) : w[x] = u[x]
  PROVE  Eval(e, w) = Eval(e, u)
<1>1. \A i \in DOMAIN e : \A j \in DOMAIN e[i] : Columns(e[i][j]) \subseteq Names(e)
  BY ExprIs
<1>2. ASSUME NEW i \in DOMAIN e, NEW j \in DOMAIN e[i] PROVE Value(e[i][j], w) = Value(e[i][j], u)
  <2>1. Columns(e[i][j]) \cap DOMAIN w = Columns(e[i][j]) /\ Columns(e[i][j]) \cap DOMAIN u = Columns(e[i][j])
    BY <1>1
  <2>2. \A x \in Columns(e[i][j]) : w[x] = u[x]
    BY <1>1
  <2>3. QED
    BY <2>1, <2>2, ValueAgrees
<1>3. QED
  BY <1>2, EvalAgrees

\* Values of forms are integers.
LEMMA ValueInt ==
  ASSUME NEW C, IsFiniteSet(C), NEW l \in Forms(C), NEW w, \A x \in C \cap DOMAIN w : w[x] \in Int
  PROVE  Value(l, w) \in Int
<1> DEFINE S == Columns(l) \cap DOMAIN w
           f == [x \in S |-> l.coef[x] * w[x]]
<1>1. l.const \in Int /\ Columns(l) \in SUBSET C /\ \A x \in Columns(l) : l.coef[x] \in Int
  BY FormIs
<1>2. S \in SUBSET C
  BY <1>1
<1>3. IsFiniteSet(S)
  BY <1>2, FS_Subset
<1>4. \A x \in S : f[x] \in Int
  BY <1>1, <1>2
<1>5. SumOver(f, S) \in Int
  <2> HIDE DEF f, S
  <2>1. QED
    BY <1>3, <1>4, SumIsInt
<1>6. f = [x \in S |-> f[x]]
  OBVIOUS
<1>7. Value(l, w) = l.const + SumOver(f, S)
  BY <1>6 DEF Value, SumOver
<1>8. QED
  BY <1>1, <1>5, <1>7

LEMMA ExprValued ==
  ASSUME NEW C, NEW e \in Exprs(C), NEW w, IsFiniteSet(C), \A x \in C \cap DOMAIN w : w[x] \in Int
  PROVE  AllValued(e, w)
<1>1. \A i \in DOMAIN e : \A j \in DOMAIN e[i] : e[i][j] \in Forms(C)
  BY ExprIs
<1>2. QED
  BY <1>1, ValueInt DEF AllValued, Valued

\* The value of a product is in the field.
LEMMA ProductIs ==
  ASSUME PrimeField, NEW C, NEW p \in Seq(Forms(C)), NEW w, Valued(p, w)
  PROVE  /\ ValuesOn(p, w) \in Seq(Int) /\ Len(ValuesOn(p, w)) = Len(p) /\ Len(p) \in Nat /\ DOMAIN p = 1..Len(p)
         /\ \A n \in DOMAIN p : ValuesOn(p, w)[n] = Value(p[n], w) /\ Value(p[n], w) \in Int
         /\ EvalProduct(p, w) = Multiply(ValuesOn(p, w))
         /\ EvalProduct(p, w) \in 0..P - 1
<1>1. Len(p) \in Nat /\ DOMAIN p = 1..Len(p)
  OBVIOUS
<1>2. \A n \in DOMAIN p : ValuesOn(p, w)[n] = Value(p[n], w) /\ Value(p[n], w) \in Int
  BY DEF ValuesOn, Valued
<1>3. ValuesOn(p, w) \in [1..Len(p) -> Int]
  BY <1>1, <1>2 DEF ValuesOn
<1>4. ValuesOn(p, w) \in Seq(Int) /\ Len(ValuesOn(p, w)) = Len(p)
  BY <1>1, <1>3
<1>5. EvalProduct(p, w) = Multiply(ValuesOn(p, w))
  BY DEF EvalProduct, ValuesOn
<1>6. QED
  BY <1>1, <1>2, <1>4, <1>5, MultiplyInField

\* So is the value of an expression.
LEMMA EvalIs ==
  ASSUME PrimeField, NEW C, NEW e \in Exprs(C), NEW w, AllValued(e, w)
  PROVE  /\ \A i \in DOMAIN e : ProductsOn(e, w)[i] = EvalProduct(e[i], w) /\ EvalProduct(e[i], w) \in 0..P - 1
         /\ SumOver(ProductsOn(e, w), DOMAIN e) \in Int
         /\ Eval(e, w) = SumOver(ProductsOn(e, w), DOMAIN e) % P
         /\ Same(Eval(e, w), SumOver(ProductsOn(e, w), DOMAIN e))
         /\ Eval(e, w) \in 0..P - 1
<1>1. IsFiniteSet(DOMAIN e) /\ \A i \in DOMAIN e : e[i] \in Seq(Forms(C))
  BY ExprIs
<1>2. \A i \in DOMAIN e : EvalProduct(e[i], w) \in 0..P - 1
  BY <1>1, ProductIs DEF AllValued
<1>3. \A i \in DOMAIN e : ProductsOn(e, w)[i] = EvalProduct(e[i], w) /\ ProductsOn(e, w)[i] \in Int
  BY <1>2, PrimeIsInt DEF ProductsOn
<1>4. SumOver(ProductsOn(e, w), DOMAIN e) \in Int
  BY <1>1, <1>3, SumIsInt
<1>5. ProductsOn(e, w) = [i \in DOMAIN e |-> ProductsOn(e, w)[i]]
  BY DEF ProductsOn
<1>6. Eval(e, w) = SumOver(ProductsOn(e, w), DOMAIN e) % P
  BY <1>5 DEF Eval, SumOver, ProductsOn
<1>7. QED
  BY <1>2, <1>3, <1>4, <1>6, SameMod, Remainder

\* Congruent factors: the expression keeps its value.
LEMMA ProductSame ==
  ASSUME PrimeField, NEW C, NEW D, NEW p \in Seq(Forms(C)), NEW q \in Seq(Forms(D)), NEW w, NEW u,
         Len(p) = Len(q), \A n \in 1..Len(p) : Same(Value(p[n], w), Value(q[n], u))
  PROVE  EvalProduct(p, w) = EvalProduct(q, u) /\ Valued(p, w) /\ Valued(q, u)
<1>1. DOMAIN p = 1..Len(p) /\ DOMAIN q = 1..Len(p)
  OBVIOUS
<1>2. Valued(p, w) /\ Valued(q, u)
  BY <1>1 DEF Valued, Same
<1>3. /\ ValuesOn(p, w) \in Seq(Int) /\ Len(ValuesOn(p, w)) = Len(p)
      /\ \A n \in DOMAIN p : ValuesOn(p, w)[n] = Value(p[n], w)
      /\ EvalProduct(p, w) = Multiply(ValuesOn(p, w))
  BY <1>2, ProductIs
<1>4. /\ ValuesOn(q, u) \in Seq(Int) /\ Len(ValuesOn(q, u)) = Len(q)
      /\ \A n \in DOMAIN q : ValuesOn(q, u)[n] = Value(q[n], u)
      /\ EvalProduct(q, u) = Multiply(ValuesOn(q, u))
  BY <1>2, ProductIs
<1>5. \A n \in 1..Len(ValuesOn(p, w)) : Same(ValuesOn(p, w)[n], ValuesOn(q, u)[n])
  BY <1>1, <1>3, <1>4
<1>6. QED
  BY <1>2, <1>3, <1>4, <1>5, MultiplySame

\* Factors that are the same modulo P give the same value.
LEMMA EvalSame ==
  ASSUME PrimeField, NEW C, NEW D, NEW e \in Exprs(C), NEW d \in Exprs(D), NEW w, NEW u, Len(d) = Len(e),
         \A i \in 1..Len(e) : /\ Len(d[i]) = Len(e[i])
                              /\ \A j \in 1..Len(e[i]) : Same(Value(e[i][j], w), Value(d[i][j], u))
  PROVE  Eval(e, w) = Eval(d, u)
<1>1. DOMAIN e = 1..Len(e) /\ DOMAIN d = 1..Len(e)
      /\ \A i \in DOMAIN e : e[i] \in Seq(Forms(C)) /\ d[i] \in Seq(Forms(D))
  BY ExprIs
<1>2. \A i \in DOMAIN e : EvalProduct(e[i], w) = EvalProduct(d[i], u)
  BY <1>1, ProductSame
<1>3. [n \in DOMAIN e |-> EvalProduct(e[n], w)] = [n \in DOMAIN d |-> EvalProduct(d[n], u)]
  BY <1>1, <1>2
<1>4. QED
  BY <1>3 DEF Eval

\* A single product is zero when one of its factors is.
LEMMA EvalOfProduct ==
  ASSUME PrimeField, NEW C, NEW e \in Exprs(C), NEW w, AllValued(e, w), Len(e) = 1
  PROVE  /\ Eval(e, w) = EvalProduct(e[1], w)
         /\ Eval(e, w) = 0 <=> \E j \in 1..Len(e[1]) : Same(Value(e[1][j], w), 0)
<1>1. DOMAIN e = {1} /\ e[1] \in Seq(Forms(C)) /\ Valued(e[1], w)
  BY ExprIs DEF AllValued
<1>2. ProductsOn(e, w)[1] = EvalProduct(e[1], w) /\ EvalProduct(e[1], w) \in 0..P - 1
  BY <1>1, EvalIs
<1>3. SumOver(ProductsOn(e, w), {1}) = EvalProduct(e[1], w)
  BY <1>2, SumSingle, PrimeIsInt
<1>4. Eval(e, w) = EvalProduct(e[1], w) % P
  BY <1>1, <1>3, EvalIs
<1>5. \A a \in 0..P - 1 : a % P = a
  BY PrimeIsInt
<1>6. Eval(e, w) = EvalProduct(e[1], w)
  BY <1>2, <1>4, <1>5
<1>7. /\ ValuesOn(e[1], w) \in Seq(Int) /\ Len(ValuesOn(e[1], w)) = Len(e[1]) /\ DOMAIN e[1] = 1..Len(e[1])
      /\ \A n \in DOMAIN e[1] : ValuesOn(e[1], w)[n] = Value(e[1][n], w)
      /\ EvalProduct(e[1], w) = Multiply(ValuesOn(e[1], w))
  BY <1>1, ProductIs
<1>8. Multiply(ValuesOn(e[1], w)) = 0 <=> \E j \in 1..Len(ValuesOn(e[1], w)) : Same(ValuesOn(e[1], w)[j], 0)
  BY <1>7, MultiplyZero
<1>9. QED
  BY <1>6, <1>7, <1>8

-----------------------------------------------------------------------------
\* Linear expressions as linear forms.
LEMMA NumForm == ASSUME NEW l, NEW w, IsNum(l), l.const \in Int PROVE Value(l, w) = l.const
<1> DEFINE f == [x \in Columns(l) \cap DOMAIN w |-> l.coef[x] * w[x]]
<1>1. Columns(l) \cap DOMAIN w = {}
  BY DEF IsNum
<1>2. f = [x \in {} |-> f[x]]
  BY <1>1
<1>3. Total(f) = 0
  BY <1>2, SumEmpty DEF SumOver
<1>4. QED
  BY <1>3 DEF Value

\* A product of two forms one of which is constant is a form, with the product of the values.
LEMMA MultipliedIs ==
  ASSUME NEW C, NEW l \in Forms(C), NEW f \in Forms(C)
  PROVE  /\ Multiplied(l, f) \in Forms(C)
         /\ IsNum(l) /\ IsNum(f) => IsNum(Multiplied(l, f))
         /\ \A w : OnColumns(C, w) /\ (IsNum(l) \/ IsNum(f)) => Same(Value(Multiplied(l, f), w), Value(l, w) * Value(f, w))
<1>1. l.const \in Int /\ f.const \in Int
  BY FormIs
<1>2. CASE IsNum(l)
  <2>1. Multiplied(l, f) = Times(l.const, f)
    BY <1>2 DEF Multiplied
  <2>2. Columns(Times(l.const, f)) \subseteq Columns(f) /\ Times(l.const, f) \in Forms(C)
    BY <1>1, TimesValue
  <2>3. ASSUME NEW w, OnColumns(C, w) PROVE Same(Value(Multiplied(l, f), w), Value(l, w) * Value(f, w))
    <3>1. Value(l, w) = l.const
      BY <1>1, <1>2, NumForm
    <3>2. QED
      BY <1>1, <2>1, <2>3, <3>1, TimesValue
  <2>4. QED
    BY <2>1, <2>2, <2>3 DEF IsNum
<1>3. CASE ~IsNum(l)
  <2>1. Multiplied(l, f) = Times(f.const, l)
    BY <1>3 DEF Multiplied
  <2>2. Columns(Times(f.const, l)) \subseteq Columns(l) /\ Times(f.const, l) \in Forms(C)
    BY <1>1, TimesValue
  <2>3. ASSUME NEW w, OnColumns(C, w), IsNum(f) PROVE Same(Value(Multiplied(l, f), w), Value(l, w) * Value(f, w))
    <3>1. Value(f, w) = f.const
      BY <1>1, <2>3, NumForm
    <3>2. Same(Value(Times(f.const, l), w), f.const * Value(l, w)) /\ Value(l, w) \in Int
      BY <1>1, <2>3, TimesValue, ValueIs
    <3>3. f.const * Value(l, w) = Value(l, w) * f.const
      BY <1>1, <3>2
    <3>4. QED
      BY <2>1, <3>1, <3>2, <3>3
  <2>4. QED
    BY <1>3, <2>1, <2>2, <2>3
<1>4. QED
  BY <1>2, <1>3

IsProductForm(c, p) == \A n \in 0..Len(p) : c[n] = IF n = 0 THEN Num(1) ELSE Multiplied(c[n - 1], p[n])

\* So is a product with at most one factor that is not constant.
LEMMA ProductForm ==
  ASSUME NEW C, NEW p \in Seq(Forms(C))
  PROVE  \E c : c \in [0..Len(p) -> Forms(C)] /\ IsProductForm(c, p) /\ Product(p) = c[Len(p)]
<1> DEFINE N == Len(p)
           Computes(r) == r = [n \in 0..N |-> IF n = 0 THEN Num(1) ELSE Multiplied(r[n - 1], p[n])]
           c == CHOOSE r : Computes(r)
           G == [n \in 1..N |-> [l \in Forms(C) |-> Multiplied(l, p[n])]]
<1>1. N \in Nat /\ \A n \in 1..N : p[n] \in Forms(C)
  OBVIOUS
<1>2. \A n \in 1..N : \A l \in Forms(C) : Multiplied(l, p[n]) \in Forms(C)
  BY <1>1, MultipliedIs
<1>3. G \in [1..N -> [Forms(C) -> Forms(C)]] /\ Num(1) \in Forms(C)
  BY <1>2, NumValue
<1>4. PICK r : IsRun(r, N, Forms(C), Num(1), G)
  <2> HIDE DEF G, N
  <2>1. QED
    BY <1>1, <1>3, RunsExist
<1>5. r \in [0..N -> Forms(C)] /\ r[0] = Num(1) /\ \A n \in 1..N : r[n] = G[n][r[n - 1]]
  BY <1>4 DEF IsRun
<1>6. \A n \in 0..N : r[n] = IF n = 0 THEN Num(1) ELSE Multiplied(r[n - 1], p[n])
  <2>1. SUFFICES ASSUME NEW n \in 1..N PROVE r[n] = Multiplied(r[n - 1], p[n])
    BY <1>5
  <2>2. n - 1 \in 0..N
    BY <1>1
  <2>3. r[n - 1] \in Forms(C)
    BY <1>5, <2>2
  <2>4. G[n] = [l \in Forms(C) |-> Multiplied(l, p[n])]
    OBVIOUS
  <2> HIDE DEF G
  <2>5. QED
    BY <1>5, <2>3, <2>4
<1>7. Computes(r)
  BY <1>5, <1>6
<1>8. Computes(c)
  <2> HIDE DEF Computes
  <2>1. QED
    BY <1>7
<1>9. Product(p) = c[N]
  BY DEF Product
<1> HIDE DEF c
<1>10. c = [n \in 0..N |-> c[n]] /\ \A n \in 0..N : c[n] = IF n = 0 THEN Num(1) ELSE Multiplied(c[n - 1], p[n])
  BY <1>8
<1> DEFINE T == {n \in 0..N : c[n] \in Forms(C)}
<1>11. 0 \in T
  <2>1. 0 \in 0..N
    BY <1>1
  <2>2. QED
    BY <1>3, <1>10, <2>1
<1>12. ASSUME NEW n \in 1..N, n - 1 \in T PROVE n \in T
  <2>3. n \in 0..N /\ n # 0
    BY <1>1
  <2>1. n \in 0..N /\ c[n] = Multiplied(c[n - 1], p[n])
    BY <1>10, <2>3
  <2>2. QED
    BY <1>2, <1>12, <2>1
<1>13. \A n \in 0..N : n \in T
  <2> HIDE DEF T, N
  <2>1. QED
    BY <1>1, <1>11, <1>12, RunsUpTo
<1>14. c \in [0..N -> Forms(C)]
  BY <1>10, <1>13
<1>15. QED
  BY <1>9, <1>10, <1>14 DEF IsProductForm

AtMostOneColumnFactor(p) == \A j, k \in DOMAIN p : j = k \/ IsNum(p[j]) \/ IsNum(p[k])

\* Its value is the product of the values.
LEMMA ProductValue ==
  ASSUME PrimeField, NEW C, NEW p \in Seq(Forms(C)), AtMostOneColumnFactor(p), NEW w, OnColumns(C, w)
  PROVE  Product(p) \in Forms(C) /\ Same(Value(Product(p), w), EvalProduct(p, w))
<1> DEFINE N == Len(p)
           v == ValuesOn(p, w)
<1>1. PICK c : c \in [0..N -> Forms(C)] /\ IsProductForm(c, p) /\ Product(p) = c[N]
  BY ProductForm
<1>2. N \in Nat /\ DOMAIN p = 1..N /\ \A n \in 1..N : p[n] \in Forms(C)
  OBVIOUS
<1>3. Valued(p, w)
  BY <1>2, ValueIs DEF Valued
<1>4. v \in Seq(Int) /\ Len(v) = N /\ (\A n \in 1..N : v[n] = Value(p[n], w) /\ v[n] \in Int) /\ EvalProduct(p, w) = Multiply(v)
  BY <1>2, <1>3, ProductIs
<1>5. PICK r : IsProductRun(r, v) /\ Multiply(v) = r[N]
  BY <1>4, MultiplyIs
<1> HIDE DEF N, v
<1> DEFINE T == {n \in 0..N : (IsNum(c[n]) \/ \E j \in 1..n : ~IsNum(p[j])) /\ Same(Value(c[n], w), r[n])}
<1>6. 0 \in T
  <2>1. c[0] = Num(1) /\ r[0] = 1
    BY <1>1, <1>2, <1>4, <1>5 DEF IsProductForm, IsProductRun, N
  <2>2. IsNum(Num(1)) /\ Same(Value(Num(1), w), 1)
    BY NumValue
  <2>3. QED
    BY <1>2, <2>1, <2>2
<1>7. ASSUME NEW n \in 1..N, n - 1 \in T PROVE n \in T
  <2>1. n \in 0..N /\ n - 1 \in 0..N /\ n # 0 /\ n \in DOMAIN p
    BY <1>2
  <2>2. c[n] = Multiplied(c[n - 1], p[n]) /\ c[n - 1] \in Forms(C) /\ p[n] \in Forms(C)
    BY <1>1, <1>2, <2>1 DEF IsProductForm, N
  <2>3. r[n] = (r[n - 1] * v[n]) % P /\ r[n - 1] \in Int
    <3>1. n \in 1..Len(v) /\ n - 1 \in 0..Len(v)
      BY <1>4, <2>1
    <3>2. QED
      BY <1>5, <3>1 DEF IsProductRun
  <2>4. IsNum(c[n - 1]) \/ IsNum(p[n])
    <3>1. ASSUME ~IsNum(c[n - 1]) PROVE IsNum(p[n])
      <4>1. PICK j \in 1..n - 1 : ~IsNum(p[j])
        BY <1>7, <3>1
      <4>2. j \in DOMAIN p /\ j # n
        BY <1>2, <4>1
      <4>3. QED
        BY <2>1, <4>1, <4>2 DEF AtMostOneColumnFactor
    <3>2. QED
      BY <3>1
  <2>5. IsNum(c[n]) \/ \E j \in 1..n : ~IsNum(p[j])
    <3>1. CASE IsNum(c[n - 1]) /\ IsNum(p[n])
      BY <2>2, <3>1, MultipliedIs
    <3>2. CASE ~IsNum(p[n])
      <4>1. n \in 1..n
        BY <1>2
      <4>2. QED
        BY <3>2, <4>1
    <3>3. CASE ~IsNum(c[n - 1])
      <4>1. PICK j \in 1..n - 1 : ~IsNum(p[j])
        BY <1>7, <3>3
      <4>2. j \in 1..n
        BY <1>2, <4>1
      <4>3. QED
        BY <4>1, <4>2
    <3>4. QED
      BY <3>1, <3>2, <3>3
  <2>6. Same(Value(c[n], w), Value(c[n - 1], w) * Value(p[n], w))
    BY <2>2, <2>4, MultipliedIs
  <2>7. Same(Value(c[n - 1], w), r[n - 1]) /\ Same(Value(p[n], w), v[n])
    BY <1>4, <1>7, SameRefl
  <2>8. Same(Value(c[n - 1], w) * Value(p[n], w), r[n - 1] * v[n])
    BY <2>7, SameMul
  <2>9. Same(r[n - 1] * v[n], r[n])
    <3>1. r[n - 1] * v[n] \in Int
      BY <2>8 DEF Same
    <3>2. QED
      BY <2>3, <3>1, SameMod
  <2>10. Same(Value(c[n], w), r[n])
    BY <2>6, <2>8, <2>9, SameTrans
  <2>11. QED
    BY <2>1, <2>5, <2>10
<1>8. \A n \in 0..N : n \in T
  <2> HIDE DEF T
  <2>1. QED
    BY <1>2, <1>6, <1>7, RunsUpTo
<1>9. N \in T
  BY <1>2, <1>8
<1>10. c[N] \in Forms(C)
  BY <1>1, <1>2
<1>11. QED
  BY <1>1, <1>4, <1>5, <1>9, <1>10

\* An expression is one over its own columns.
LEMMA ExprOnNames == ASSUME NEW C, NEW e \in Exprs(C) PROVE e \in Exprs(Names(e))
<1> DEFINE D == Names(e)
<1>1. Len(e) \in Nat /\ DOMAIN e = 1..Len(e)
      /\ \A i \in DOMAIN e : /\ Len(e[i]) \in Nat /\ DOMAIN e[i] = 1..Len(e[i]) /\ e[i] \in Seq(Forms(C))
                             /\ \A j \in DOMAIN e[i] : e[i][j] \in Forms(C) /\ Columns(e[i][j]) \subseteq D
  BY ExprIs
<1> HIDE DEF D
<1>2. \A i \in DOMAIN e : \A j \in DOMAIN e[i] : e[i][j] \in Forms(D)
  BY <1>1, FormIsIn
<1>3. \A i \in 1..Len(e) : e[i] \in Seq(Forms(D))
  <2>1. SUFFICES ASSUME NEW i \in 1..Len(e) PROVE e[i] \in Seq(Forms(D))
    OBVIOUS
  <2>2. \A j \in 1..Len(e[i]) : e[i][j] \in Forms(D)
    BY <1>1, <1>2
  <2>3. e[i] \in [1..Len(e[i]) -> Forms(D)]
    BY <1>1, <2>2
  <2>4. QED
    BY <1>1, <2>3
<1>4. e \in Seq(Seq(Forms(C)))
  BY DEF Exprs
<1>5. e = [i \in 1..Len(e) |-> e[i]]
  BY <1>1, <1>4
<1>6. e \in [1..Len(e) -> Seq(Forms(D))]
  BY <1>3, <1>5
<1>7. e \in Seq(Seq(Forms(D)))
  BY <1>1, <1>6
<1>8. QED
  BY <1>7 DEF Exprs, D

IsLinearRun(c, e) == \A n \in 0..Len(e) : c[n] = IF n = 0 THEN Num(0) ELSE Plus(c[n - 1], Product(e[n]))

\* The form of a linear expression, product by product.
LEMMA LinearForm ==
  ASSUME NEW C, NEW e \in Exprs(C)
  PROVE  \E c : c \in [0..Len(e) -> Forms(C)] /\ IsLinearRun(c, e) /\ Linear(e) = c[Len(e)]
<1> DEFINE N == Len(e)
           Computes(r) == r = [n \in 0..N |-> IF n = 0 THEN Num(0) ELSE Plus(r[n - 1], Product(e[n]))]
           c == CHOOSE r : Computes(r)
           G == [n \in 1..N |-> [l \in Forms(C) |-> Plus(l, Product(e[n]))]]
<1>0. N \in Nat /\ \A n \in 1..N : e[n] \in Seq(Forms(C))
  BY ExprIs
<1>1. N \in Nat /\ \A n \in 1..N : Product(e[n]) \in Forms(C)
  <2>1. SUFFICES ASSUME NEW n \in 1..N PROVE Product(e[n]) \in Forms(C)
    BY <1>0
  <2>2. e[n] \in Seq(Forms(C))
    BY <1>0
  <2>3. PICK q : q \in [0..Len(e[n]) -> Forms(C)] /\ Product(e[n]) = q[Len(e[n])]
    BY <2>2, ProductForm
  <2>4. Len(e[n]) \in 0..Len(e[n])
    BY <2>2
  <2>5. QED
    BY <2>3, <2>4
<1>2. \A n \in 1..N : \A l \in Forms(C) : Plus(l, Product(e[n])) \in Forms(C)
  BY <1>1, PlusValue
<1>3. G \in [1..N -> [Forms(C) -> Forms(C)]] /\ Num(0) \in Forms(C)
  BY <1>2, NumValue
<1>4. PICK r : IsRun(r, N, Forms(C), Num(0), G)
  <2> HIDE DEF G, N
  <2>1. QED
    BY <1>1, <1>3, RunsExist
<1>5. r \in [0..N -> Forms(C)] /\ r[0] = Num(0) /\ \A n \in 1..N : r[n] = G[n][r[n - 1]]
  BY <1>4 DEF IsRun
<1>6. \A n \in 0..N : r[n] = IF n = 0 THEN Num(0) ELSE Plus(r[n - 1], Product(e[n]))
  <2>1. SUFFICES ASSUME NEW n \in 1..N PROVE r[n] = Plus(r[n - 1], Product(e[n]))
    BY <1>5
  <2>2. n - 1 \in 0..N
    BY <1>1
  <2>3. r[n - 1] \in Forms(C)
    BY <1>5, <2>2
  <2>4. G[n] = [l \in Forms(C) |-> Plus(l, Product(e[n]))]
    OBVIOUS
  <2> HIDE DEF G
  <2>5. QED
    BY <1>5, <2>3, <2>4
<1>7. Computes(r)
  BY <1>5, <1>6
<1>8. Computes(c)
  <2> HIDE DEF Computes
  <2>1. QED
    BY <1>7
<1>9. Linear(e) = c[N]
  BY DEF Linear
<1> HIDE DEF c
<1>10. c = [n \in 0..N |-> c[n]] /\ \A n \in 0..N : c[n] = IF n = 0 THEN Num(0) ELSE Plus(c[n - 1], Product(e[n]))
  BY <1>8
<1> DEFINE T == {n \in 0..N : c[n] \in Forms(C)}
<1>11. 0 \in T
  <2>1. 0 \in 0..N
    BY <1>1
  <2>2. QED
    BY <1>3, <1>10, <2>1
<1>12. ASSUME NEW n \in 1..N, n - 1 \in T PROVE n \in T
  <2>3. n \in 0..N /\ n # 0
    BY <1>1
  <2>1. n \in 0..N /\ c[n] = Plus(c[n - 1], Product(e[n]))
    BY <1>10, <2>3
  <2>2. QED
    BY <1>2, <1>12, <2>1
<1>13. \A n \in 0..N : n \in T
  <2> HIDE DEF T, N
  <2>1. QED
    BY <1>1, <1>11, <1>12, RunsUpTo
<1>14. c \in [0..N -> Forms(C)]
  BY <1>10, <1>13
<1>15. QED
  BY <1>9, <1>10, <1>14 DEF IsLinearRun

\* The linear form of a linear expression has its value.
LEMMA LinearValue ==
  ASSUME PrimeField, NEW C, NEW e \in Exprs(C), IsLinear(e), NEW w, OnColumns(C, w)
  PROVE  Same(Value(Linear(e), w), Eval(e, w))
<1> DEFINE N == Len(e)
           f == ProductsOn(e, w)
<1>1. PICK c : c \in [0..N -> Forms(C)] /\ IsLinearRun(c, e) /\ Linear(e) = c[N]
  BY LinearForm
<1>2. N \in Nat /\ DOMAIN e = 1..N /\ \A n \in 1..N : e[n] \in Seq(Forms(C))
  BY ExprIs
<1>3. AllValued(e, w)
  BY ExprValued DEF OnColumns
<1>4. /\ \A n \in 1..N : f[n] = EvalProduct(e[n], w) /\ f[n] \in Int
      /\ Same(Eval(e, w), SumOver(f, 1..N))
  <2>1. \A n \in 1..N : f[n] = EvalProduct(e[n], w) /\ EvalProduct(e[n], w) \in 0..P - 1
    BY <1>2, <1>3, EvalIs
  <2>2. QED
    BY <1>2, <1>3, <2>1, EvalIs, PrimeIsInt
<1>5. \A n \in 1..N : Product(e[n]) \in Forms(C) /\ Same(Value(Product(e[n]), w), f[n])
  <2>1. SUFFICES ASSUME NEW n \in 1..N PROVE Product(e[n]) \in Forms(C) /\ Same(Value(Product(e[n]), w), f[n])
    OBVIOUS
  <2>2. e[n] \in Seq(Forms(C)) /\ AtMostOneColumnFactor(e[n])
    BY <1>2 DEF IsLinear, AtMostOneColumnFactor
  <2>3. QED
    BY <1>4, <2>2, ProductValue
<1> HIDE DEF N, f
<1> DEFINE T == {n \in 0..N : Same(Value(c[n], w), SumOver(f, 1..n))}
<1>6. 0 \in T
  <2>1. c[0] = Num(0)
    BY <1>1, <1>2 DEF IsLinearRun, N
  <2>2. SumOver(f, 1..0) = 0
    <3>1. 1..0 = {}
      OBVIOUS
    <3>2. QED
      BY <3>1, SumEmpty
  <2>3. Same(Value(Num(0), w), 0)
    BY NumValue
  <2>4. QED
    BY <1>2, <2>1, <2>2, <2>3
<1>7. ASSUME NEW n \in 1..N, n - 1 \in T PROVE n \in T
  <2>1. n \in 0..N /\ n # 0 /\ n - 1 \in 0..N
    BY <1>2
  <2>2. c[n] = Plus(c[n - 1], Product(e[n])) /\ c[n - 1] \in Forms(C)
    BY <1>1, <2>1 DEF IsLinearRun, N
  <2>3. Same(Value(c[n], w), Value(c[n - 1], w) + Value(Product(e[n]), w))
    BY <1>5, <2>2, PlusValue
  <2>4. Same(Value(c[n - 1], w) + Value(Product(e[n]), w), SumOver(f, 1..n - 1) + f[n])
    BY <1>5, <1>7, SameAdd
  <2>5. SumOver(f, 1..n) = f[n] + SumOver(f, 1..n - 1) /\ SumOver(f, 1..n - 1) \in Int
    <3>1. n \in 1..n /\ (1..n) \ {n} = 1..n - 1 /\ (\A i \in 1..n : f[i] \in Int) /\ (\A i \in 1..n - 1 : f[i] \in Int)
      BY <1>2, <1>4
    <3>2. IsFiniteSet(1..n) /\ IsFiniteSet(1..n - 1)
      BY <1>2, FS_Interval
    <3>3. SumOver(f, 1..n) = f[n] + SumOver(f, (1..n) \ {n})
      BY <3>1, <3>2, SumRemove
    <3>4. QED
      BY <3>1, <3>2, <3>3, SumIsInt
  <2>6. SumOver(f, 1..n - 1) + f[n] = SumOver(f, 1..n)
    BY <1>4, <2>5
  <2>7. Same(Value(c[n], w), SumOver(f, 1..n))
    BY <2>3, <2>4, <2>6, SameTrans
  <2>8. QED
    BY <2>1, <2>7
<1>8. \A n \in 0..N : n \in T
  <2> HIDE DEF T
  <2>1. QED
    BY <1>2, <1>6, <1>7, RunsUpTo
<1>9. Same(Value(Linear(e), w), SumOver(f, 1..N))
  BY <1>1, <1>2, <1>8
<1>10. QED
  BY <1>4, <1>9, SameSym, SameTrans

\* The form of a linear expression is a form over its columns.
LEMMA LinearIs ==
  ASSUME PrimeField, NEW C, NEW e \in Exprs(C)
  PROVE  /\ Linear(e) \in Forms(Names(e)) /\ Linear(e) \in Forms(C)
         /\ IsCanonical(Linear(e)) /\ Columns(Linear(e)) \subseteq Names(e)
         /\ \A w : IsLinear(e) /\ OnColumns(Names(e), w) => Same(Value(Linear(e), w), Eval(e, w))
<1>1. e \in Exprs(Names(e)) /\ Names(e) \subseteq C
  BY ExprOnNames, ExprIs
<1>2. PICK c : c \in [0..Len(e) -> Forms(Names(e))] /\ IsLinearRun(c, e) /\ Linear(e) = c[Len(e)]
  BY <1>1, LinearForm
<1>3. Len(e) \in Nat
  BY ExprIs
<1>4. Len(e) \in 0..Len(e)
  BY <1>3
<1>5. Linear(e) \in Forms(Names(e))
  BY <1>2, <1>4
<1>6. IsCanonical(Linear(e))
  <2>1. CASE Len(e) = 0
    <3>1. Linear(e) = Num(0)
      BY <1>2, <1>4, <2>1 DEF IsLinearRun
    <3>2. Columns(Num(0)) = {}
      BY NumValue
    <3>3. QED
      BY <3>1, <3>2 DEF IsCanonical
  <2>2. CASE Len(e) # 0
    <3>1. Linear(e) = Plus(c[Len(e) - 1], Product(e[Len(e)]))
      BY <1>2, <1>4, <2>2 DEF IsLinearRun
    <3>2. Len(e) - 1 \in 0..Len(e) /\ e[Len(e)] \in Seq(Forms(Names(e)))
      <4>1. Len(e) - 1 \in 0..Len(e) /\ Len(e) \in 1..Len(e)
        BY <1>3, <2>2
      <4>2. QED
        BY <1>1, <4>1, ExprIs
    <3>3. PICK q : q \in [0..Len(e[Len(e)]) -> Forms(Names(e))] /\ Product(e[Len(e)]) = q[Len(e[Len(e)])]
      BY <3>2, ProductForm
    <3>4. Product(e[Len(e)]) \in Forms(Names(e))
      <4>1. Len(e[Len(e)]) \in 0..Len(e[Len(e)])
        BY <3>2
      <4>2. QED
        BY <3>3, <4>1
    <3>5. QED
      BY <1>2, <3>1, <3>2, <3>4, PlusValue
  <2>3. QED
    BY <2>1, <2>2
<1>7. QED
  BY <1>1, <1>5, <1>6, FormIs, FormsGrow, LinearValue

-----------------------------------------------------------------------------
\* Columns written as another column plus an offset.
Fibre(A, b, y) == {x \in A : b[x] = y}

\* Terms are grouped by the column that stands for them.
LEMMA Regroup ==
  ASSUME NEW S, IsFiniteSet(S), NEW D, IsFiniteSet(D), NEW b, NEW g, NEW w,
         \A x \in S : b[x] \in D /\ g[x] \in Int, \A y \in D : w[y] \in Int
  PROVE  SumOver([y \in D |-> SumOver(g, Fibre(S, b, y)) * w[y]], D) = SumOver([x \in S |-> g[x] * w[b[x]]], S)
<1> DEFINE h(A) == [y \in D |-> SumOver(g, Fibre(A, b, y)) * w[y]]
           k(A) == [x \in A |-> g[x] * w[b[x]]]
           Bad == {A \in SUBSET S : SumOver(h(A), D) # SumOver(k(A), A)}
<1>1. SUFFICES ASSUME Bad # {} PROVE FALSE
  OBVIOUS
<1>2. PICK A \in Bad : \A x \in A : A \ {x} \notin Bad
  BY <1>1, SmallestSet
<1>3. A \in SUBSET S /\ IsFiniteSet(A) /\ \A T \in SUBSET A : IsFiniteSet(T)
  BY <1>2, FS_Subset
<1>4. \A T \in SUBSET A : \A y \in D : SumOver(g, Fibre(T, b, y)) \in Int
  <2>1. SUFFICES ASSUME NEW T \in SUBSET A, NEW y \in D PROVE SumOver(g, Fibre(T, b, y)) \in Int
    OBVIOUS
  <2>2. Fibre(T, b, y) \in SUBSET A
    BY DEF Fibre
  <2>3. IsFiniteSet(Fibre(T, b, y)) /\ \A x \in Fibre(T, b, y) : g[x] \in Int
    BY <1>3, <2>2
  <2>4. QED
    BY <2>3, SumIsInt
<1>5. CASE A = {}
  <2>1. \A y \in D : h({})[y] = 0
    <3>1. SUFFICES ASSUME NEW y \in D PROVE h({})[y] = 0
      OBVIOUS
    <3>2. Fibre({}, b, y) = {}
      BY DEF Fibre
    <3>3. SumOver(g, Fibre({}, b, y)) = 0
      BY <3>2, SumEmpty
    <3>4. 0 * w[y] = 0
      OBVIOUS
    <3>5. QED
      BY <3>3, <3>4
  <2>2. SumOver(h({}), D) = SumOver(h({}), {})
    <3>1. {} \in SUBSET D /\ (\A y \in D : h({})[y] \in Int) /\ (\A y \in D \ {} : h({})[y] = 0)
      BY <2>1
    <3> HIDE DEF h
    <3>2. QED
      BY <3>1, SumZeros
  <2>3. SumOver(h({}), {}) = 0 /\ SumOver(k({}), {}) = 0
    <3> HIDE DEF h, k
    <3>1. QED
      BY SumEmpty
  <2>4. SumOver(h(A), D) = SumOver(k(A), A)
    <3> HIDE DEF h, k
    <3>1. QED
      BY <1>5, <2>2, <2>3
  <2>5. QED
    BY <1>2, <2>4
<1>6. CASE A # {}
  <2>1. PICK x \in A : TRUE
    BY <1>6
  <2> DEFINE B == A \ {x}
             d == [y \in D |-> IF y = b[x] THEN g[x] * w[y] ELSE 0]
  <2>2. B \in SUBSET A /\ B \notin Bad /\ B \in SUBSET S
    BY <1>2, <1>3, <2>1
  <2>3. SumOver(h(B), D) = SumOver(k(B), B)
    <3> HIDE DEF h, k
    <3>1. QED
      BY <2>2
  <2>4. b[x] \in D /\ g[x] \in Int /\ w[b[x]] \in Int
    BY <1>3, <2>1
  <2>5. \A y \in D : h(A)[y] = h(B)[y] + d[y] /\ h(B)[y] \in Int /\ d[y] \in Int
    <3>1. SUFFICES ASSUME NEW y \in D PROVE h(A)[y] = h(B)[y] + d[y] /\ h(B)[y] \in Int /\ d[y] \in Int
      OBVIOUS
    <3>2. SumOver(g, Fibre(B, b, y)) \in Int /\ SumOver(g, Fibre(A, b, y)) \in Int /\ w[y] \in Int
      BY <1>4, <2>2
    <3>3. CASE y = b[x]
      <4>1. Fibre(B, b, y) = Fibre(A, b, y) \ {x} /\ x \in Fibre(A, b, y) /\ Fibre(A, b, y) \in SUBSET A
        BY <2>1, <3>3 DEF Fibre
      <4>2. IsFiniteSet(Fibre(A, b, y)) /\ \A z \in Fibre(A, b, y) : g[z] \in Int
        <5>1. \A z \in A : g[z] \in Int
          BY <1>3
        <5>2. IsFiniteSet(Fibre(A, b, y))
          BY <1>3, <4>1
        <5>3. QED
          BY <4>1, <5>1, <5>2
      <4>3. SumOver(g, Fibre(A, b, y)) = g[x] + SumOver(g, Fibre(B, b, y))
        <5>1. \A F, G : IsFiniteSet(F) /\ (\A z \in F : g[z] \in Int) /\ x \in F /\ G = F \ {x}
                        => SumOver(g, F) = g[x] + SumOver(g, G)
          BY SumRemove
        <5> HIDE DEF B
        <5>2. QED
          BY <4>1, <4>2, <5>1
      <4>4. (g[x] + SumOver(g, Fibre(B, b, y))) * w[y] = SumOver(g, Fibre(B, b, y)) * w[y] + g[x] * w[y]
        BY <2>4, <3>2
      <4>5. d[y] = g[x] * w[y] /\ d[y] \in Int
        BY <2>4, <3>2, <3>3
      <4>6. QED
        BY <3>2, <4>3, <4>4, <4>5
    <3>4. CASE y # b[x]
      <4>1. Fibre(B, b, y) = Fibre(A, b, y)
        BY <3>4 DEF Fibre
      <4>2. d[y] = 0
        BY <3>4
      <4>3. QED
        BY <3>2, <4>1, <4>2
    <3>5. QED
      BY <3>3, <3>4
  <2>6. SumOver(h(A), D) = SumOver(h(B), D) + SumOver(d, D)
    <3>1. \A y \in D : h(A)[y] = h(B)[y] + d[y] /\ h(B)[y] \in Int /\ d[y] \in Int
      BY <2>5
    <3> HIDE DEF h, d, B
    <3>2. QED
      BY <3>1, SumAdd
  <2>7. SumOver(d, D) = g[x] * w[b[x]]
    <3>1. {b[x]} \in SUBSET D /\ (\A y \in D : d[y] \in Int) /\ (\A y \in D \ {b[x]} : d[y] = 0) /\ d[b[x]] = g[x] * w[b[x]]
      BY <2>4, <2>5
    <3>2. d[b[x]] \in Int
      BY <2>4, <3>1
    <3> HIDE DEF d
    <3>3. SumOver(d, D) = SumOver(d, {b[x]})
      BY <3>1, SumZeros
    <3>4. SumOver(d, {b[x]}) = d[b[x]]
      BY <3>2, SumSingle
    <3>5. QED
      BY <3>1, <3>3, <3>4
  <2>8. SumOver(k(A), A) = k(A)[x] + SumOver(k(A), B)
    <3>1. \A z \in A : k(A)[z] \in Int
      <4>1. \A z \in A : b[z] \in D /\ g[z] \in Int /\ w[b[z]] \in Int
        BY <1>3
      <4>2. QED
        BY <4>1
    <3> HIDE DEF k
    <3>2. QED
      BY <1>3, <2>1, <3>1, SumRemove
  <2>9. SumOver(k(A), B) = SumOver(k(B), B)
    <3>1. \A z \in B : k(A)[z] = k(B)[z]
      OBVIOUS
    <3> HIDE DEF k, B
    <3>2. QED
      BY <3>1, SumEqual
  <2>10. k(A)[x] = g[x] * w[b[x]]
    BY <2>1
  <2>11. SumOver(h(B), D) \in Int
    <3>1. \A y \in D : h(B)[y] \in Int
      BY <2>5
    <3> HIDE DEF h
    <3>2. QED
      BY <3>1, SumIsInt
  <2>12. SumOver(h(A), D) = SumOver(k(A), A)
    <3>1. g[x] * w[b[x]] \in Int
      BY <2>4
    <3> HIDE DEF h, k, B, d
    <3>2. QED
      BY <2>3, <2>6, <2>7, <2>8, <2>9, <2>10, <2>11, <3>1
  <2>13. QED
    BY <1>2, <2>12
<1>7. QED
  BY <1>5, <1>6

AliasesAgree(al, C, w) ==
  \A x \in DOMAIN al : al[x].base \in C /\ al[x].by \in Int /\ (x \in C => Same(w[x], w[al[x].base] + al[x].by))

\* Aliases that hold may be written in.
LEMMA AliasedValue ==
  ASSUME NEW C, NEW l \in Forms(C), NEW al, NEW w, OnColumns(C, w), AliasesAgree(al, C, w)
  PROVE  Aliased(l, al) \in Forms(C) /\ IsCanonical(Aliased(l, al)) /\ Same(Value(Aliased(l, al), w), Value(l, w))
<1> DEFINE own == Columns(l) \cap DOMAIN al
           rest == Columns(l) \ own
           b == [x \in own |-> al[x].base]
           D == rest \cup {al[x].base : x \in own}
           fixed == [y \in D |-> (IF y \in own THEN 0 ELSE Coef(l, y)) * w[y]]
           g == [x \in own |-> l.coef[x]]
           s == [y \in D |-> SumOver(g, Fibre(own, b, y))]
           m == [y \in D |-> (IF y \in own THEN 0 ELSE Coef(l, y)) + s[y]]
           by == [x \in own |-> l.coef[x] * al[x].by]
           f == TermsOf(l, w)
<1>1. l.const \in Int /\ Columns(l) \in SUBSET C /\ \A x \in Columns(l) : l.coef[x] \in Int
  BY FormIs
<1>2. /\ IsFiniteSet(C) /\ \A x \in C : w[x] \in Int
      /\ \A x \in own : x \in C /\ al[x].base \in C /\ al[x].by \in Int /\ Same(w[x], w[al[x].base] + al[x].by)
  <2>1. IsFiniteSet(C) /\ \A x \in C : w[x] \in Int
    BY DEF OnColumns
  <2>2. \A x \in own : x \in C /\ x \in DOMAIN al
    BY <1>1
  <2> HIDE DEF own
  <2>3. QED
    BY <2>1, <2>2 DEF AliasesAgree
<1>3. own \in SUBSET C /\ rest \in SUBSET C /\ D \in SUBSET C
  BY <1>1, <1>2
<1>4. IsFiniteSet(own) /\ IsFiniteSet(rest) /\ IsFiniteSet(D) /\ IsFiniteSet(Columns(l))
  BY <1>1, <1>2, <1>3, FS_Subset
<1>5. \A y \in D : s[y] \in Int
  <2>1. SUFFICES ASSUME NEW y \in D PROVE SumOver(g, Fibre(own, b, y)) \in Int
    OBVIOUS
  <2>2. Fibre(own, b, y) \in SUBSET own
    BY DEF Fibre
  <2>3. IsFiniteSet(Fibre(own, b, y)) /\ \A x \in Fibre(own, b, y) : g[x] \in Int
    BY <1>1, <1>4, <2>2, FS_Subset
  <2> HIDE DEF g, b, own
  <2>4. QED
    BY <2>3, SumIsInt
<1>6. \A y \in D : (IF y \in own THEN 0 ELSE Coef(l, y)) \in Int
  BY <1>1 DEF Coef
<1>7. m \in [D -> Int]
  <2>1. \A y \in D : (IF y \in own THEN 0 ELSE Coef(l, y)) + s[y] \in Int
    <3> HIDE DEF s, D, own
    <3>1. QED
      BY <1>5, <1>6
  <2> HIDE DEF D, own, s
  <2>2. QED
    BY <2>1
<1>8. \A x \in own : by[x] \in Int
  BY <1>1, <1>2
<1>9. SumOver(by, own) \in Int
  <2> HIDE DEF by, own
  <2>1. QED
    BY <1>4, <1>8, SumIsInt
<1>10. Aliased(l, al) = LinForm(m, l.const + SumOver(by, own))
  <2>1. \A y : Fibre(own, b, y) = {x \in own : al[x].base = y}
    BY DEF Fibre
  <2>2. \A y : SumOver(g, Fibre(own, b, y)) = Total([x \in {z \in own : al[z].base = y} |-> l.coef[x]])
    <3>1. SUFFICES ASSUME NEW y
                   PROVE  SumOver(g, Fibre(own, b, y)) = Total([x \in {z \in own : al[z].base = y} |-> l.coef[x]])
      OBVIOUS
    <3>2. [x \in Fibre(own, b, y) |-> g[x]] = [x \in {z \in own : al[z].base = y} |-> l.coef[x]]
      BY <2>1
    <3>3. QED
      BY <3>2 DEF SumOver
  <2>3. m = [y \in D |-> (IF y \in own THEN 0 ELSE Coef(l, y)) + Total([x \in {z \in own : al[z].base = y} |-> l.coef[x]])]
    BY <2>2
  <2>4. SumOver(by, own) = Total([x \in own |-> l.coef[x] * al[x].by])
    <3>1. [x \in own |-> by[x]] = [x \in own |-> l.coef[x] * al[x].by]
      OBVIOUS
    <3>2. QED
      BY <3>1 DEF SumOver
  <2> HIDE DEF m, by
  <2>5. QED
    BY <2>3, <2>4 DEF Aliased
<1>11. l.const + SumOver(by, own) \in Int
  BY <1>1, <1>9
<1>12. Aliased(l, al) \in Forms(C) /\ IsCanonical(Aliased(l, al))
  <2> HIDE DEF m, by, D, own
  <2>1. QED
    BY <1>3, <1>7, <1>10, <1>11, LinFormIs, FormsGrow
<1>13. Same(Value(Aliased(l, al), w), (l.const + SumOver(by, own)) + SumOver([x \in D |-> m[x] * w[x]], D))
  <2> HIDE DEF m, by, D, own
  <2>1. QED
    BY <1>3, <1>7, <1>10, <1>11, LinFormValue
<1>14. SumOver([x \in D |-> m[x] * w[x]], D) = SumOver(fixed, D) + SumOver([y \in D |-> s[y] * w[y]], D)
  <2> DEFINE u == [x \in D |-> m[x] * w[x]]
             v == [y \in D |-> s[y] * w[y]]
  <2>1. \A y \in D : fixed[y] \in Int /\ v[y] \in Int /\ u[y] = fixed[y] + v[y]
    <3>1. SUFFICES ASSUME NEW y \in D PROVE fixed[y] \in Int /\ v[y] \in Int /\ u[y] = fixed[y] + v[y]
      OBVIOUS
    <3> DEFINE a == IF y \in own THEN 0 ELSE Coef(l, y)
    <3>2. a \in Int /\ s[y] \in Int /\ w[y] \in Int
      BY <1>2, <1>3, <1>5, <1>6
    <3>3. fixed[y] = a * w[y] /\ v[y] = s[y] * w[y] /\ u[y] = (a + s[y]) * w[y]
      OBVIOUS
    <3> HIDE DEF a, s, fixed, v, u
    <3>4. (a + s[y]) * w[y] = a * w[y] + s[y] * w[y]
      BY <3>2
    <3>5. QED
      BY <3>2, <3>3, <3>4
  <2> HIDE DEF u, v, fixed, D
  <2>2. SumOver(u, D) = SumOver(fixed, D) + SumOver(v, D)
    BY <1>4, <2>1, SumAdd
  <2>3. QED
    BY <2>2 DEF u, v
<1>15. SumOver(fixed, D) = SumOver(f, rest)
  <2>1. \A y \in D : fixed[y] \in Int
    <3>1. \A y \in D : w[y] \in Int
      BY <1>2, <1>3
    <3>2. QED
      BY <1>6, <3>1
  <2>2. \A y \in D \ rest : fixed[y] = 0
    <3>1. SUFFICES ASSUME NEW y \in D \ rest PROVE fixed[y] = 0
      OBVIOUS
    <3>2. (IF y \in own THEN 0 ELSE Coef(l, y)) = 0
      BY DEF Coef
    <3>3. w[y] \in Int
      BY <1>2, <1>3
    <3>4. QED
      BY <3>2, <3>3
  <2>3. \A y \in rest : fixed[y] = f[y]
    BY DEF Coef, TermsOf
  <2>4. rest \in SUBSET D
    OBVIOUS
  <2> HIDE DEF fixed, D, rest, f
  <2>5. SumOver(fixed, D) = SumOver(fixed, rest)
    BY <1>4, <2>1, <2>2, <2>4, SumZeros
  <2>6. QED
    BY <2>3, <2>5, SumEqual
<1>16. SumOver([y \in D |-> s[y] * w[y]], D) = SumOver([x \in own |-> g[x] * w[b[x]]], own)
  <2>1. \A x \in own : b[x] \in D /\ g[x] \in Int
    BY <1>1
  <2>2. \A y \in D : w[y] \in Int
    BY <1>2, <1>3
  <2>3. [y \in D |-> s[y] * w[y]] = [y \in D |-> SumOver(g, Fibre(own, b, y)) * w[y]]
    OBVIOUS
  <2> HIDE DEF s, D, b, g, own
  <2>4. QED
    BY <1>4, <2>1, <2>2, <2>3, Regroup, SMTT(40)
<1> DEFINE moved == [x \in own |-> g[x] * w[b[x]]]
           both == [x \in own |-> moved[x] + by[x]]
<1>17. \A x \in own : moved[x] \in Int /\ by[x] \in Int /\ both[x] = moved[x] + by[x] /\ Same(f[x], both[x])
  <2>1. SUFFICES ASSUME NEW x \in own PROVE moved[x] \in Int /\ by[x] \in Int /\ both[x] = moved[x] + by[x] /\ Same(f[x], both[x])
    OBVIOUS
  <2>2. /\ l.coef[x] \in Int /\ w[x] \in Int /\ w[al[x].base] \in Int /\ al[x].by \in Int
        /\ Same(w[x], w[al[x].base] + al[x].by)
    BY <1>1, <1>2
  <2>3. moved[x] = l.coef[x] * w[al[x].base] /\ by[x] = l.coef[x] * al[x].by /\ f[x] = l.coef[x] * w[x] /\ both[x] = moved[x] + by[x]
    BY DEF TermsOf
  <2>4. Same(l.coef[x] * w[x], l.coef[x] * (w[al[x].base] + al[x].by))
    BY <2>2, SameRefl, SameMul
  <2>5. l.coef[x] * (w[al[x].base] + al[x].by) = l.coef[x] * w[al[x].base] + l.coef[x] * al[x].by
    BY <2>2
  <2>6. moved[x] \in Int /\ by[x] \in Int
    BY <2>2, <2>3
  <2>7. QED
    BY <2>3, <2>4, <2>5, <2>6
<1> HIDE DEF own, rest, b, D, fixed, g, s, m, by, f, moved, both
<1>18. Same(SumOver(f, own), SumOver(moved, own) + SumOver(by, own)) /\ SumOver(moved, own) \in Int
  <2>1. SumOver(both, own) = SumOver(moved, own) + SumOver(by, own)
    BY <1>4, <1>17, SumAdd
  <2>2. Same(SumOver(f, own), SumOver(both, own))
    BY <1>4, <1>17, SumSame
  <2>3. SumOver(moved, own) \in Int
    BY <1>4, <1>17, SumIsInt
  <2>4. QED
    BY <2>1, <2>2, <2>3
<1>19. Value(l, w) = l.const + SumOver(f, Columns(l)) /\ \A x \in Columns(l) : f[x] \in Int
  BY ValueIs DEF f
<1>20. SumOver(f, Columns(l)) = SumOver(f, own) + SumOver(f, rest)
  <2>1. own \in SUBSET Columns(l) /\ rest = Columns(l) \ own
    BY DEF own, rest
  <2>2. QED
    BY <1>4, <1>19, <2>1, SumSplit
<1>21. SumOver(f, rest) \in Int
  <2>1. \A x \in rest : f[x] \in Int
    BY <1>19 DEF rest
  <2>2. QED
    BY <1>4, <2>1, SumIsInt
<1>22. Same(Value(l, w), (l.const + SumOver(f, rest)) + (SumOver(moved, own) + SumOver(by, own)))
  <2>1. l.const + SumOver(f, rest) \in Int /\ SumOver(f, own) \in Int
    BY <1>1, <1>18, <1>21 DEF Same
  <2>2. Same((l.const + SumOver(f, rest)) + SumOver(f, own), (l.const + SumOver(f, rest)) + (SumOver(moved, own) + SumOver(by, own)))
    BY <1>18, <2>1, SameRefl, SameAdd
  <2>3. Value(l, w) = (l.const + SumOver(f, rest)) + SumOver(f, own)
    BY <1>1, <1>19, <1>20, <1>21, <2>1
  <2>4. QED
    BY <2>2, <2>3
<1>23. (l.const + SumOver(f, rest)) + (SumOver(moved, own) + SumOver(by, own))
         = (l.const + SumOver(by, own)) + (SumOver(f, rest) + SumOver(moved, own))
  BY <1>1, <1>9, <1>18, <1>21
<1>24. (l.const + SumOver(by, own)) + SumOver([x \in D |-> m[x] * w[x]], D)
         = (l.const + SumOver(by, own)) + (SumOver(f, rest) + SumOver(moved, own))
  BY <1>14, <1>15, <1>16 DEF moved
<1>25. QED
  BY <1>12, <1>13, <1>22, <1>23, <1>24, SameSym, SameTrans

-----------------------------------------------------------------------------
\* Circuits, and the assignments that satisfy them.
\* What the assignment of all columns of a circuit has passed.
Satisfied(c, w) ==
  /\ DOMAIN w = ToSet(c.cols) /\ \A x \in ToSet(c.cols) : w[x] \in ValuesOf(c, x)
  /\ \A e \in Constraints(c) : Names(e) # {} => Eval(e, w) = 0
  /\ \A k \in ToSet(c.checks) : CheckNames(k) # {} /\ Eval(k.mult, w) # 0 => InRange(k, w)
  /\ \A r \in ToSet(c.rows) : RowNames(r) # {} /\ Eval(r.mult, w) = P - 1 => \A e \in ToSet(r.data) : Eval(e, w) < Byte
  /\ \A s \in c.subs : (w[s.from] + s.by - w[s.to]) % P = 0

\* Sequences and expressions of circuits.
LEMMA SequenceIs ==
  ASSUME NEW s, IsSequence(s)
  PROVE  Len(s) \in Nat /\ DOMAIN s = 1..Len(s) /\ s \in [1..Len(s) -> ToSet(s)] /\ \A i \in DOMAIN s : s[i] \in ToSet(s)
<1>1. s \in Seq(ToSet(s))
  BY DEF IsSequence
<1>2. Len(s) \in Nat /\ DOMAIN s = 1..Len(s)
  BY <1>1
<1>3. QED
  BY <1>1, <1>2 DEF ToSet

LEMMA SequenceOf == ASSUME NEW s, IsSequence(s), NEW S, \A x \in ToSet(s) : x \in S PROVE s \in Seq(S)
<1>1. Len(s) \in Nat /\ s \in [1..Len(s) -> ToSet(s)]
  BY SequenceIs
<1>2. s \in [1..Len(s) -> S]
  BY <1>1
<1>3. QED
  BY <1>1, <1>2

LEMMA ExpressionIs ==
  ASSUME NEW C, NEW e, IsExpression(e, C)
  PROVE  e \in Exprs(C) /\ \A f \in Factors(e) : f \in Forms(C) /\ IsCanonical(f)
<1>1. \A f : IsForm(f, C) => f \in Forms(C) /\ IsCanonical(f)
  <2>1. SUFFICES ASSUME NEW f, IsForm(f, C) PROVE f \in Forms(C) /\ IsCanonical(f)
    OBVIOUS
  <2>2. f \in [coef : {f.coef}, const : Int] /\ f.coef \in [DOMAIN f.coef -> Int] /\ DOMAIN f.coef \in SUBSET C
    BY <2>1 DEF IsForm, Columns
  <2>3. f.coef \in UNION {[D -> Int] : D \in SUBSET C}
    BY <2>2
  <2>4. f \in Forms(C)
    BY <2>2, <2>3 DEF Forms
  <2>5. QED
    BY <2>1, <2>4 DEF IsForm, IsCanonical
<1>2. \A p \in ToSet(e) : IsSequence(p) /\ \A f \in ToSet(p) : f \in Forms(C) /\ IsCanonical(f)
  BY <1>1 DEF IsExpression
<1>3. \A p \in ToSet(e) : p \in Seq(Forms(C))
  BY <1>2, SequenceOf
<1>4. e \in Seq(Seq(Forms(C)))
  BY <1>3, SequenceOf DEF IsExpression
<1>5. \A f \in Factors(e) : \E p \in ToSet(e) : f \in ToSet(p)
  BY DEF Factors, ToSet
<1>6. QED
  BY <1>2, <1>4, <1>5 DEF Exprs

\* What a circuit is made of.
LEMMA CircuitIs ==
  ASSUME NEW c, IsCircuit(c), NEW C, C = ToSet(c.cols)
  PROVE  /\ IsFiniteSet(C) /\ Len(c.cols) \in Nat /\ DOMAIN c.cols = 1..Len(c.cols)
         /\ Len(c.cons) \in Nat /\ DOMAIN c.cons = 1..Len(c.cons) /\ IsFiniteSet(Constraints(c))
         /\ \A i \in DOMAIN c.cons : c.cons[i] \in Constraints(c)
         /\ \A e \in Constraints(c) : e \in Exprs(C) /\ \A f \in Factors(e) : f \in Forms(C) /\ IsCanonical(f)
         /\ Len(c.checks) \in Nat /\ DOMAIN c.checks = 1..Len(c.checks)
         /\ \A i \in DOMAIN c.checks : c.checks[i] \in ToSet(c.checks)
         /\ \A k \in ToSet(c.checks) : /\ k.mult \in Exprs(C) /\ \A e \in ToSet(k.args) : e \in Exprs(C)
                                       /\ k.bus = "var" => k.width \in Nat /\ k.args[1] \in ToSet(k.args)
         /\ \A i \in DOMAIN c.rows : c.rows[i] \in ToSet(c.rows)
         /\ \A r \in ToSet(c.rows) : /\ r \in [mult : {r.mult}, space : {r.space}, ptr : {r.ptr}, data : {r.data}, ts : {r.ts}]
                                     /\ r.mult \in Exprs(C) /\ r.space \in Exprs(C) /\ r.ptr \in Exprs(C) /\ r.ts \in Exprs(C)
                                     /\ \A e \in ToSet(r.data) : e \in Exprs(C)
<1>1. /\ IsSequence(c.cols) /\ IsSequence(c.cons) /\ IsSequence(c.checks) /\ IsSequence(c.rows)
      /\ \A e \in Constraints(c) : IsExpression(e, C)
      /\ \A k \in ToSet(c.checks) : IsCheck(k, C)
      /\ \A r \in ToSet(c.rows) : IsMessage(r, C)
  BY DEF IsCircuit
<1>2. /\ Len(c.cols) \in Nat /\ DOMAIN c.cols = 1..Len(c.cols)
      /\ Len(c.cons) \in Nat /\ DOMAIN c.cons = 1..Len(c.cons) /\ \A i \in DOMAIN c.cons : c.cons[i] \in Constraints(c)
      /\ Len(c.checks) \in Nat /\ DOMAIN c.checks = 1..Len(c.checks) /\ \A i \in DOMAIN c.checks : c.checks[i] \in ToSet(c.checks)
      /\ \A i \in DOMAIN c.rows : c.rows[i] \in ToSet(c.rows)
  BY <1>1, SequenceIs DEF Constraints
<1>3. \A s : IsSequence(s) => IsFiniteSet(ToSet(s))
  <2>1. SUFFICES ASSUME NEW s, IsSequence(s) PROVE IsFiniteSet(ToSet(s))
    OBVIOUS
  <2>2. IsFiniteSet(DOMAIN s)
    <3>1. Len(s) \in Nat /\ DOMAIN s = 1..Len(s)
      BY <2>1, SequenceIs
    <3>2. IsFiniteSet(1..Len(s))
      BY <3>1, FS_Interval
    <3>3. QED
      BY <3>1, <3>2
  <2>3. ToSet(s) = {s[i] : i \in DOMAIN s}
    BY DEF ToSet
  <2>4. s \in Surjection(DOMAIN s, ToSet(s))
    <3>1. s \in [DOMAIN s -> ToSet(s)]
      BY <2>1, SequenceIs
    <3>2. QED
      BY <2>3, <3>1 DEF Surjection
  <2>5. QED
    BY <2>2, <2>4, FS_Surjection
<1>4. IsFiniteSet(C) /\ IsFiniteSet(Constraints(c))
  BY <1>1, <1>3 DEF Constraints
<1>5. \A e : IsExpression(e, C) => e \in Exprs(C) /\ \A f \in Factors(e) : f \in Forms(C) /\ IsCanonical(f)
  BY ExpressionIs
<1>6. ASSUME NEW k \in ToSet(c.checks)
      PROVE  /\ k.mult \in Exprs(C) /\ \A e \in ToSet(k.args) : e \in Exprs(C)
             /\ k.bus = "var" => k.width \in Nat /\ k.args[1] \in ToSet(k.args)
  <2>1. IsCheck(k, C)
    BY <1>1
  <2>2. IsSequence(k.args) /\ (k.bus = "var" => k.width \in Nat /\ Len(k.args) >= 1)
    BY <2>1 DEF IsCheck
  <2>3. Len(k.args) >= 1 => k.args[1] \in ToSet(k.args)
    BY <2>2, SequenceIs
  <2>4. QED
    BY <1>5, <2>1, <2>2, <2>3 DEF IsCheck
<1>7. ASSUME NEW r \in ToSet(c.rows)
      PROVE  /\ r \in [mult : {r.mult}, space : {r.space}, ptr : {r.ptr}, data : {r.data}, ts : {r.ts}]
             /\ r.mult \in Exprs(C) /\ r.space \in Exprs(C) /\ r.ptr \in Exprs(C) /\ r.ts \in Exprs(C)
             /\ \A e \in ToSet(r.data) : e \in Exprs(C)
  <2>1. IsMessage(r, C)
    BY <1>1
  <2>2. \A e \in {r.mult, r.space, r.ptr, r.ts} \cup ToSet(r.data) : IsExpression(e, C)
    BY <2>1 DEF IsMessage
  <2>3. QED
    BY <1>5, <2>1, <2>2 DEF IsMessage
<1>8. QED
  BY <1>1, <1>2, <1>4, <1>5, <1>6, <1>7

\* What an assignment that satisfies a circuit gives its columns.
LEMMA SatisfiedIs ==
  ASSUME PrimeField, NEW c, IsCircuit(c), NEW C, C = ToSet(c.cols), NEW w, Satisfied(c, w)
  PROVE  /\ OnColumns(C, w) /\ DOMAIN w = C /\ \A x \in C : w[x] \in 0..P - 1
         /\ \A x \in C \cap c.times : w[x] < TsMax
         /\ c.assumed => \A x \in C \cap c.valid : w[x] = 1
         /\ \A D : D \in SUBSET C => OnColumns(D, w)
<1>1. IsFiniteSet(C) /\ DOMAIN w = C /\ \A x \in C : w[x] \in ValuesOf(c, x)
  BY CircuitIs DEF Satisfied
<1>2. ASSUME NEW x \in C
      PROVE  w[x] \in 0..P - 1 /\ (x \in c.times => w[x] < TsMax) /\ (c.assumed /\ x \in c.valid => w[x] = 1)
  <2>1. c.times \cap c.valid = {}
    BY DEF IsCircuit
  <2>3. CASE x \in c.times
    BY <1>1, <2>1, <2>3, PrimeIsInt DEF ValuesOf
  <2>4. CASE x \notin c.times /\ x \in c.valid /\ c.assumed
    BY <1>1, <2>4, PrimeIsInt DEF ValuesOf, PrimeField
  <2>5. CASE x \notin c.times /\ ~(x \in c.valid /\ c.assumed)
    BY <1>1, <2>5, PrimeIsInt DEF ValuesOf
  <2>6. QED
    BY <2>3, <2>4, <2>5
<1>3. \A x \in C : w[x] \in Int
  BY <1>2
<1>4. \A D : D \in SUBSET C => IsFiniteSet(D)
  BY <1>1, FS_Subset
<1>5. QED
  BY <1>1, <1>2, <1>3, <1>4 DEF OnColumns

-----------------------------------------------------------------------------
\* Linear constraints, and the columns that they pin.
Cols(c) == ToSet(c.cols)
Assigned(c, w) == PrimeField /\ IsCircuit(c) /\ Satisfied(c, w)

LEMMA AssignedIs ==
  ASSUME NEW c, NEW w, Assigned(c, w)
  PROVE  /\ PrimeField /\ IsCircuit(c) /\ IsFiniteSet(Cols(c))
         /\ OnColumns(Cols(c), w) /\ DOMAIN w = Cols(c) /\ \A x \in Cols(c) : w[x] \in 0..P - 1 /\ w[x] \in Int
         /\ \A x \in Cols(c) \cap c.times : w[x] < TsMax
         /\ c.assumed => \A x \in Cols(c) \cap c.valid : w[x] = 1
         /\ \A D : D \in SUBSET Cols(c) => OnColumns(D, w)
<1>1. PrimeField /\ IsCircuit(c) /\ Satisfied(c, w)
  BY DEF Assigned
<1>2. \A x \in 0..P - 1 : x \in Int
  BY PrimeIsInt
<1>3. QED
  BY <1>1, <1>2, SatisfiedIs DEF Cols, OnColumns

\* Constraints hold, those without columns aside.
LEMMA ConstraintHolds ==
  ASSUME NEW c, NEW w, Assigned(c, w), NEW e \in Constraints(c)
  PROVE  /\ e \in Exprs(Cols(c)) /\ Names(e) \subseteq Cols(c) /\ OnColumns(Names(e), w) /\ AllValued(e, w)
         /\ \A f \in Factors(e) : f \in Forms(Cols(c)) /\ IsCanonical(f)
         /\ Names(e) # {} => Eval(e, w) = 0
<1>1. e \in Exprs(Cols(c)) /\ \A f \in Factors(e) : f \in Forms(Cols(c)) /\ IsCanonical(f)
  BY AssignedIs, CircuitIs DEF Cols
<1>2. Names(e) \subseteq Cols(c)
  BY <1>1, ExprIs
<1>3. AllValued(e, w)
  BY <1>1, AssignedIs, ExprValued DEF OnColumns
<1>4. QED
  BY <1>1, <1>2, <1>3, AssignedIs DEF Assigned, Satisfied

\* A linear expression over columns of a circuit.
LEMMA LinearOn ==
  ASSUME NEW c, NEW w, Assigned(c, w), NEW e \in Exprs(Cols(c))
  PROVE  /\ Linear(e) \in Forms(Cols(c)) /\ IsCanonical(Linear(e)) /\ Columns(Linear(e)) \subseteq Names(e)
         /\ Names(e) \subseteq Cols(c) /\ Value(Linear(e), w) \in Int
         /\ Eval(e, w) \in 0..P - 1
         /\ IsLinear(e) => Same(Value(Linear(e), w), Eval(e, w)) /\ Eval(e, w) = Value(Linear(e), w) % P
<1>1. PrimeField /\ OnColumns(Cols(c), w) /\ Names(e) \in SUBSET Cols(c)
  BY AssignedIs, ExprIs
<1>2. /\ Linear(e) \in Forms(Cols(c)) /\ IsCanonical(Linear(e)) /\ Columns(Linear(e)) \subseteq Names(e)
      /\ IsLinear(e) => Same(Value(Linear(e), w), Eval(e, w))
  BY <1>1, LinearIs, AssignedIs
<1>3. Value(Linear(e), w) \in Int
  BY <1>1, <1>2, ValueIs
<1>4. Eval(e, w) \in 0..P - 1
  <2>1. AllValued(e, w)
    BY <1>1, ExprValued DEF OnColumns
  <2>2. QED
    BY <1>1, <2>1, EvalIs
<1>5. ASSUME IsLinear(e) PROVE Eval(e, w) = Value(Linear(e), w) % P
  <2>1. Same(Eval(e, w), Value(Linear(e), w) % P)
    BY <1>2, <1>3, <1>5, SameMod, SameSym, SameTrans
  <2>2. QED
    BY <1>3, <1>4, <2>1, Remainder, SameInField
<1>6. QED
  BY <1>1, <1>2, <1>3, <1>4, <1>5

\* Linear constraints are forms that are zero in the field.
LEMMA LinearConsHold ==
  ASSUME NEW c, NEW w, Assigned(c, w), NEW l \in LinearCons(c)
  PROVE  l \in Forms(Cols(c)) /\ IsCanonical(l) /\ Value(l, w) \in Int /\ (Columns(l) # {} => Same(Value(l, w), 0))
<1>1. PICK e \in Constraints(c) : IsLinear(e) /\ l = Linear(e)
  BY DEF LinearCons, Linears
<1>2. e \in Exprs(Cols(c)) /\ (Names(e) # {} => Eval(e, w) = 0)
  BY ConstraintHolds
<1>3. /\ l \in Forms(Cols(c)) /\ IsCanonical(l) /\ Value(l, w) \in Int /\ Columns(l) \subseteq Names(e)
      /\ Same(Value(l, w), Eval(e, w))
  BY <1>1, <1>2, LinearOn
<1>4. QED
  BY <1>2, <1>3

\* What is left of a linear constraint when pins are substituted.
LEMMA RemainderHolds ==
  ASSUME NEW c, NEW w, Assigned(c, w), NEW pins, PinsAgree(pins, w), NEW l \in LinearCons(c)
  PROVE  /\ Subst(l, pins) \in Forms(Cols(c)) /\ IsCanonical(Subst(l, pins)) /\ Value(Subst(l, pins), w) \in Int
         /\ Columns(Subst(l, pins)) \subseteq Cols(c) \ DOMAIN pins
         /\ Columns(Subst(l, pins)) # {} => Same(Value(Subst(l, pins), w), 0)
<1>1. l \in Forms(Cols(c)) /\ (Columns(l) # {} => Same(Value(l, w), 0)) /\ Columns(l) \subseteq Cols(c)
  BY LinearConsHold, FormIs
<1>2. /\ Subst(l, pins) \in Forms(Cols(c)) /\ IsCanonical(Subst(l, pins))
      /\ Columns(Subst(l, pins)) \subseteq Columns(l) \ DOMAIN pins
      /\ Same(Value(Subst(l, pins), w), Value(l, w))
  BY <1>1, AssignedIs, SubstValue
<1>3. Value(Subst(l, pins), w) \in Int
  BY <1>2 DEF Same
<1>4. ASSUME Columns(Subst(l, pins)) # {} PROVE Same(Value(Subst(l, pins), w), 0)
  BY <1>1, <1>2, <1>4, SameTrans
<1>5. QED
  BY <1>1, <1>2, <1>3, <1>4

\* A form of a single column.
LEMMA SingleIs ==
  ASSUME PrimeField, NEW C, NEW l \in Forms(C), IsCanonical(l), NEW w, OnColumns(C, w), NEW x \in Columns(l), Columns(l) = {x}
  PROVE  /\ x \in C /\ l.coef[x] \in Int /\ ~Same(l.coef[x], 0) /\ w[x] \in Int /\ l.const \in Int
         /\ Value(l, w) = l.const + l.coef[x] * w[x]
<1>1. l.const \in Int /\ x \in C /\ l.coef[x] \in Int
  BY FormIs
<1>2. ~Same(l.coef[x], 0)
  BY <1>1, SameZero DEF IsCanonical
<1>3. /\ TermsOf(l, w)[x] = l.coef[x] * w[x] /\ TermsOf(l, w)[x] \in Int /\ w[x] \in Int
      /\ Value(l, w) = l.const + SumOver(TermsOf(l, w), Columns(l))
  BY ValueIs, ZenonT(40)
<1>4. SumOver(TermsOf(l, w), {x}) = TermsOf(l, w)[x]
  BY <1>3, SumSingle
<1>5. QED
  BY <1>1, <1>2, <1>3, <1>4

\* A constraint of a single column pins it.
LEMMA ResidueTrue ==
  ASSUME PrimeField, NEW C, NEW l \in Forms(C), IsCanonical(l), Single(l), NEW w, OnColumns(C, w), Same(Value(l, w), 0)
  PROVE  /\ Residue(l).col \in Columns(l) /\ Residue(l).col \in C /\ Columns(l) = {Residue(l).col}
         /\ Residue(l).at \in 0..P - 1 /\ Same(Residue(l).at, w[Residue(l).col])
<1> DEFINE x == CHOOSE y \in Columns(l) : TRUE
           k == l.coef[x]
<1>1. x \in Columns(l) /\ Columns(l) = {x}
  BY DEF Single, IsSingleton
<1>2. Residue(l) = [col |-> x, at |-> (-l.const * InverseOf(k)) % P]
  BY DEF Residue
<1> HIDE DEF x
<1>3. /\ x \in C /\ k \in Int /\ ~Same(k, 0) /\ w[x] \in Int /\ l.const \in Int
      /\ Value(l, w) = l.const + k * w[x]
  BY <1>1, SingleIs
<1> HIDE DEF k
<1>4. Same(k * w[x], -l.const)
  <2>1. Same(-l.const, -l.const)
    BY <1>3, SameRefl
  <2>2. Same(Value(l, w) + (-l.const), 0 + (-l.const))
    BY <2>1, SameAdd
  <2>3. Value(l, w) + (-l.const) = k * w[x] /\ 0 + (-l.const) = -l.const
    BY <1>3
  <2>4. QED
    BY <2>2, <2>3
<1>5. Same(w[x], -l.const * InverseOf(k))
  <2>1. Same(w[x], (-l.const) * InverseOf(k))
    BY <1>3, <1>4, Divide
  <2>2. (-l.const) * InverseOf(k) = -l.const * InverseOf(k)
    BY <1>3, InverseWorks
  <2>3. QED
    BY <2>1, <2>2
<1>6. Same((-l.const * InverseOf(k)) % P, w[x])
  <2>1. -l.const * InverseOf(k) \in Int
    BY <1>5 DEF Same
  <2>2. QED
    BY <1>5, <2>1, SameMod, SameSym, SameTrans
<1>7. (-l.const * InverseOf(k)) % P \in 0..P - 1
  <2>1. -l.const * InverseOf(k) \in Int
    BY <1>5 DEF Same
  <2>2. QED
    BY <2>1, Remainder
<1>8. Residue(l).col = x /\ Residue(l).at = (-l.const * InverseOf(k)) % P
  BY <1>2
<1>9. QED
  BY <1>1, <1>3, <1>6, <1>7, <1>8

TruePins(R, w) == \A r \in R : r.col \in DOMAIN w /\ r.at \in Int /\ Same(r.at, w[r.col])

\* Pins from residues hold.
LEMMA AtOfTrue ==
  ASSUME NEW R, NEW w, TruePins(R, w)
  PROVE  PinsAgree(AtOf(R), w) /\ \A x \in DOMAIN AtOf(R) : \E r \in R : r.col = x /\ AtOf(R)[x] = r.at
<1> DEFINE f == [x \in {r.col : r \in R} |-> (CHOOSE r \in R : r.col = x).at]
<1>1. AtOf(R) = f
  BY TabulatedIs DEF AtOf
<1>2. ASSUME NEW x \in DOMAIN f PROVE \E r \in R : r.col = x /\ f[x] = r.at
  <2>1. \E r \in R : r.col = x
    OBVIOUS
  <2>2. PICK r : r = CHOOSE s \in R : s.col = x
    OBVIOUS
  <2>3. r \in R /\ r.col = x /\ f[x] = r.at
    BY <2>1, <2>2
  <2>4. QED
    BY <2>3
<1> HIDE DEF f
<1>3. QED
  BY <1>1, <1>2 DEF PinsAgree, TruePins

LEMMA JoinedAgree ==
  ASSUME NEW w, NEW pins, PinsAgree(pins, w), NEW more, PinsAgree(more, w) PROVE PinsAgree(Joined(pins, more), w)
<1>1. SUFFICES ASSUME NEW x \in DOMAIN Joined(pins, more)
               PROVE  x \in DOMAIN w /\ Joined(pins, more)[x] \in Int /\ Same(Joined(pins, more)[x], w[x])
  BY DEF PinsAgree
<1>5. DOMAIN Joined(pins, more) = DOMAIN pins \cup DOMAIN more
      /\ (\A y \in DOMAIN pins : Joined(pins, more)[y] = pins[y])
      /\ (\A y \in DOMAIN more \ DOMAIN pins : Joined(pins, more)[y] = more[y])
  BY JoinedIs
<1>2. CASE x \in DOMAIN pins
  <2>1. Joined(pins, more)[x] = pins[x]
    BY <1>2, <1>5
  <2>2. QED
    BY <1>2, <2>1 DEF PinsAgree
<1>3. CASE x \notin DOMAIN pins
  <2>1. x \in DOMAIN more /\ Joined(pins, more)[x] = more[x]
    BY <1>3, <1>5
  <2>2. QED
    BY <2>1 DEF PinsAgree
<1>4. QED
  BY <1>2, <1>3

\* Pins from single constraints, and those that follow by substitution, hold.
LEMMA SinglePinsTrue == ASSUME NEW c, NEW w, Assigned(c, w) PROVE PinsAgree(SinglePins(c), w)
<1>1. TruePins(Residues(LinearCons(c)), w)
  <2>1. SUFFICES ASSUME NEW l \in LinearCons(c), Single(l), NEW r, r = Residue(l)
                 PROVE  r.col \in DOMAIN w /\ r.at \in Int /\ Same(r.at, w[r.col])
    BY DEF Residues, TruePins
  <2>2. Columns(l) # {}
    BY <2>1 DEF Single, IsSingleton
  <2>3. l \in Forms(Cols(c)) /\ IsCanonical(l) /\ Same(Value(l, w), 0)
    BY <2>2, LinearConsHold
  <2>4. PrimeField /\ OnColumns(Cols(c), w) /\ DOMAIN w = Cols(c)
    BY AssignedIs
  <2>5. r.col \in Cols(c) /\ Same(r.at, w[r.col])
    BY <2>1, <2>3, <2>4, ResidueTrue
  <2>6. QED
    BY <2>4, <2>5 DEF Same
<1>2. QED
  BY <1>1, AtOfTrue DEF SinglePins

-----------------------------------------------------------------------------
\* Range checks that are sent.
LEMMA EmptyForms ==
  ASSUME NEW C, NEW l \in Forms(C), NEW n \in Forms(C), IsNum(l), IsNum(n), l.const = n.const PROVE l = n
<1>1. l = [coef |-> l.coef, const |-> l.const] /\ n = [coef |-> n.coef, const |-> n.const]
  BY FormIs
<1>2. l.coef \in [{} -> Int] /\ n.coef \in [{} -> Int]
  BY FormIs DEF IsNum
<1>3. l.coef = n.coef
  BY <1>2
<1>4. QED
  BY <1>1, <1>3

\* A constant form other than zero is not zero in the field.
LEMMA NotSameAsZero ==
  ASSUME NEW C, NEW l \in Forms(C), IsNum(l), l # Num(0), -P < l.const, l.const < P
  PROVE  ~Same(l.const, 0)
<1>1. Num(0) \in Forms(C) /\ IsNum(Num(0)) /\ Num(0).const = Signed(0)
  BY NumValue
<1>2. Signed(0) = 0
  <2>1. Signed(0) \in Int /\ Same(Signed(0), 0) /\ -P < Signed(0) /\ Signed(0) < P
    BY SignedSame
  <2>2. Signed(0) - 0 < P /\ 0 - Signed(0) < P
    BY <2>1, PrimeIsInt
  <2>3. QED
    BY <2>1, <2>2, SameClose
<1>3. l.const # 0
  BY <1>1, <1>2, EmptyForms
<1>4. l.const \in Int
  BY FormIs
<1>5. l.const - 0 < P /\ 0 - l.const < P
  BY <1>4, PrimeIsInt
<1>6. QED
  BY <1>3, <1>5, SameClose

\* The selector is one if that is assumed.
LEMMA SelectorIsOne ==
  ASSUME NEW c, NEW w, Assigned(c, w), c.assumed, SelectorIsValid(c), ActiveSelector(c) # {}
  PROVE  \E x \in Cols(c) : ActiveSelector(c) = {x} /\ w[x] = 1
<1> DEFINE mults == {Mult(c, i) : i \in DOMAIN c.rows}
           gates == {l \in Linears(mults) : ~IsNum(l)}
           cols  == UNION {Columns(l) : l \in gates}
<1>1. ActiveSelector(c) = cols /\ IsSingleton(cols)
  BY DEF ActiveSelector
<1>2. PICK x : ActiveSelector(c) = {x}
  BY <1>1 DEF IsSingleton
<1>3. PICK l \in gates : x \in Columns(l)
  <2> HIDE DEF gates
  <2>1. QED
    BY <1>1, <1>2
<1>4. PICK i \in DOMAIN c.rows : l = Linear(Mult(c, i))
  <2>1. l \in Linears(mults)
    BY <1>3
  <2>2. PICK e \in mults : l = Linear(e)
    <3> HIDE DEF mults
    <3>1. QED
      BY <2>1 DEF Linears
  <2>3. QED
    BY <2>2
<1>5. Mult(c, i) \in Exprs(Cols(c))
  BY AssignedIs, CircuitIs DEF Mult, Cols
<1>6. x \in Cols(c)
  BY <1>3, <1>4, <1>5, LinearOn
<1>7. w[x] = 1
  BY <1>2, <1>6, AssignedIs DEF SelectorIsValid
<1>8. QED
  BY <1>2, <1>6, <1>7

\* A constraint that pins a multiple of a form to something else than zero.
LEMMA PinsNonZeroMeans ==
  ASSUME PrimeField, NEW C, NEW l \in Forms(C), NEW r \in Forms(C), NEW w, OnColumns(C, w),
         Same(Value(l, w), 0), PinsNonZero(l, r)
  PROVE  ~Same(Value(r, w), 0)
<1>1. PICK k \in 1..P - 1 : /\ \A x \in Columns(r) : (l.coef[x] - k * r.coef[x]) % P = 0
                            /\ (k * r.const - l.const) % P # 0
  BY DEF PinsNonZero
<1>2. Columns(l) = Columns(r)
  BY DEF PinsNonZero
<1> DEFINE S == Columns(r)
           f == TermsOf(l, w)
           g == TermsOf(r, w)
           h == [x \in S |-> k * g[x]]
<1>3. k \in Int /\ l.const \in Int /\ r.const \in Int /\ \A x \in S : l.coef[x] \in Int /\ r.coef[x] \in Int
  BY <1>2, PrimeIsInt, FormIs
<1>4. /\ IsFiniteSet(S) /\ SumOver(f, S) \in Int /\ Value(l, w) = l.const + SumOver(f, S)
      /\ \A x \in S : f[x] = l.coef[x] * w[x] /\ w[x] \in Int /\ f[x] \in Int
  BY <1>2, ValueIs
<1>5. /\ SumOver(g, S) \in Int /\ Value(r, w) = r.const + SumOver(g, S)
      /\ \A x \in S : g[x] = r.coef[x] * w[x] /\ g[x] \in Int
  BY ValueIs
<1>6. \A x \in S : Same(f[x], h[x])
  <2>1. SUFFICES ASSUME NEW x \in S PROVE Same(f[x], k * g[x])
    OBVIOUS
  <2>2. l.coef[x] \in Int /\ r.coef[x] \in Int /\ w[x] \in Int /\ k * r.coef[x] \in Int
    BY <1>3, <1>4
  <2>3. Same(l.coef[x] - k * r.coef[x], 0)
    BY <1>1, <2>2, SameZero
  <2>4. Same(k * r.coef[x], k * r.coef[x])
    BY <2>2, SameRefl
  <2>5. Same((l.coef[x] - k * r.coef[x]) + k * r.coef[x], 0 + k * r.coef[x])
    BY <2>3, <2>4, SameAdd
  <2>6. (l.coef[x] - k * r.coef[x]) + k * r.coef[x] = l.coef[x] /\ 0 + k * r.coef[x] = k * r.coef[x]
    BY <2>2
  <2>7. Same(l.coef[x] * w[x], (k * r.coef[x]) * w[x])
    BY <2>2, <2>5, <2>6, SameRefl, SameMul
  <2>8. (k * r.coef[x]) * w[x] = k * (r.coef[x] * w[x])
    BY <1>3, <2>2
  <2>9. QED
    BY <1>4, <1>5, <2>7, <2>8
<1>7. \A x \in S : h[x] = k * g[x]
  OBVIOUS
<1> HIDE DEF S, f, g, h
<1>8. Same(SumOver(f, S), k * SumOver(g, S))
  <2>1. SumOver(h, S) = k * SumOver(g, S)
    BY <1>3, <1>4, <1>5, <1>7, SumScale
  <2>2. Same(SumOver(f, S), SumOver(h, S))
    BY <1>4, <1>6, SumSame
  <2>3. QED
    BY <2>1, <2>2
<1>9. Same(l.const + k * SumOver(g, S), 0)
  <2>1. Same(l.const + SumOver(f, S), l.const + k * SumOver(g, S))
    BY <1>3, <1>8, SameRefl, SameAdd
  <2>2. QED
    BY <1>4, <2>1, SameSym, SameTrans
<1>10. SUFFICES ASSUME Same(Value(r, w), 0) PROVE FALSE
  OBVIOUS
<1>11. Same(k * Value(r, w), k * 0)
  BY <1>3, <1>10, SameRefl, SameMul
<1>12. Same(k * Value(r, w) - (l.const + k * SumOver(g, S)), k * 0 - 0)
  BY <1>9, <1>11, SameSub
<1>13. k * Value(r, w) - (l.const + k * SumOver(g, S)) = k * r.const - l.const /\ k * 0 - 0 = 0
  <2>1. k * (r.const + SumOver(g, S)) = k * r.const + k * SumOver(g, S) /\ k * r.const \in Int /\ k * SumOver(g, S) \in Int
    BY <1>3, <1>5
  <2>2. QED
    BY <1>3, <1>5, <2>1
<1>14. k * r.const - l.const \in Int
  BY <1>3
<1>15. QED
  BY <1>1, <1>12, <1>13, <1>14, SameZero

\* A range check that is taken for sent is sent: its multiplicity is not zero
\* in any assignment that satisfies the circuit.
THEOREM SentTrue ==
  ASSUME NEW c, NEW w, Assigned(c, w), SelectorIsValid(c), NEW k \in ToSet(c.checks), Sent(c, k)
  PROVE  Eval(k.mult, w) # 0
<1> DEFINE l == Linear(k.mult)
           r == Subst(l, SinglePins(c))
<1>1. k.mult \in Exprs(Cols(c)) /\ IsLinear(k.mult) /\ SentFor(c, l)
  BY AssignedIs, CircuitIs DEF Sent, Cols
<1>2. PrimeField /\ OnColumns(Cols(c), w) /\ PinsAgree(SinglePins(c), w)
  BY AssignedIs, SinglePinsTrue
<1>3. l \in Forms(Cols(c)) /\ Same(Value(l, w), Eval(k.mult, w))
  BY <1>1, LinearOn
<1>4. /\ r \in Forms(Cols(c)) /\ IsCanonical(r) /\ Same(Value(r, w), Value(l, w))
      /\ r.const = Signed(Value(l, SinglePins(c))) /\ Value(l, SinglePins(c)) \in Int
  BY <1>2, <1>3, SubstValue
<1>5. \/ IsNum(r) /\ r # Num(0)
      \/ ~IsNum(r) /\ c.assumed /\ r.const = 0 /\ Columns(r) = ActiveSelector(c)
      \/ ~IsNum(r) /\ \E m \in LinearCons(c) : PinsNonZero(Subst(m, SinglePins(c)), r)
  BY <1>1 DEF SentFor
<1>6. ~Same(Value(r, w), 0)
  <2>1. CASE IsNum(r) /\ r # Num(0)
    <3>1. -P < r.const /\ r.const < P /\ r.const \in Int
      BY <1>4, SignedSame
    <3>2. Value(r, w) = r.const
      BY <2>1, <3>1, NumForm
    <3>3. QED
      BY <1>4, <2>1, <3>1, <3>2, NotSameAsZero
  <2>2. CASE ~IsNum(r) /\ c.assumed /\ r.const = 0 /\ Columns(r) = ActiveSelector(c)
    <3>1. PICK x \in Cols(c) : Columns(r) = {x} /\ w[x] = 1
      BY <2>2, SelectorIsOne DEF IsNum
    <3>2. r.coef[x] \in Int /\ ~Same(r.coef[x], 0) /\ Value(r, w) = r.const + r.coef[x] * w[x]
      BY <1>2, <1>4, <3>1, SingleIs
    <3>3. Value(r, w) = r.coef[x]
      BY <2>2, <3>1, <3>2
    <3>4. QED
      BY <3>2, <3>3
  <2>3. CASE ~IsNum(r) /\ \E m \in LinearCons(c) : PinsNonZero(Subst(m, SinglePins(c)), r)
    <3>1. PICK m \in LinearCons(c) : PinsNonZero(Subst(m, SinglePins(c)), r)
      BY <2>3
    <3>2. Columns(Subst(m, SinglePins(c))) # {}
      BY <2>3, <3>1 DEF PinsNonZero, IsNum
    <3>3. Subst(m, SinglePins(c)) \in Forms(Cols(c)) /\ Same(Value(Subst(m, SinglePins(c)), w), 0)
      BY <1>2, <3>2, RemainderHolds
    <3>4. QED
      BY <1>2, <1>4, <3>1, <3>3, PinsNonZeroMeans
  <2>4. QED
    BY <1>5, <2>1, <2>2, <2>3
<1>7. Same(Value(r, w), Eval(k.mult, w))
  BY <1>3, <1>4, SameTrans
<1>8. QED
  BY <1>6, <1>7

-----------------------------------------------------------------------------
\* Folding pins and aliases in.
LEMMA FoldIs ==
  ASSUME PrimeField, NEW C, NEW e \in Exprs(C), NEW pins, NEW al, NEW w, OnColumns(C, w),
         PinsAgree(pins, w), AliasesAgree(al, C, w)
  PROVE  /\ Fold(e, pins, al) \in Exprs(C) /\ Len(Fold(e, pins, al)) = Len(e)
         /\ \A i \in 1..Len(e) : /\ Len(Fold(e, pins, al)[i]) = Len(e[i])
                                 /\ \A j \in 1..Len(e[i]) : /\ IsCanonical(Fold(e, pins, al)[i][j])
                                                            /\ Same(Value(e[i][j], w), Value(Fold(e, pins, al)[i][j], w))
         /\ \A f \in Factors(Fold(e, pins, al)) : f \in Forms(C) /\ IsCanonical(f)
         /\ Eval(Fold(e, pins, al), w) = Eval(e, w)
<1> DEFINE h(l) == Aliased(Subst(l, pins), al)
           d == Fold(e, pins, al)
<1>1. ASSUME NEW l \in Forms(C) PROVE h(l) \in Forms(C) /\ IsCanonical(h(l)) /\ Same(Value(l, w), Value(h(l), w))
  <2>1. Subst(l, pins) \in Forms(C) /\ Same(Value(Subst(l, pins), w), Value(l, w))
    BY SubstValue
  <2>2. h(l) \in Forms(C) /\ IsCanonical(h(l)) /\ Same(Value(h(l), w), Value(Subst(l, pins), w))
    BY <2>1, AliasedValue
  <2>3. QED
    BY <2>1, <2>2, SameSym, SameTrans
<1>2. Len(e) \in Nat /\ DOMAIN e = 1..Len(e) /\ \A i \in 1..Len(e) : e[i] \in Seq(Forms(C)) /\ Len(e[i]) \in Nat
                                                                    /\ DOMAIN e[i] = 1..Len(e[i])
  BY ExprIs
<1>3. d = [i \in 1..Len(e) |-> [j \in 1..Len(e[i]) |-> h(e[i][j])]]
  BY <1>2 DEF Fold
<1>4. \A i \in 1..Len(e) : \A j \in 1..Len(e[i]) : e[i][j] \in Forms(C)
  BY <1>2
<1> HIDE DEF d, h
<1>5. ASSUME NEW i \in 1..Len(e) PROVE d[i] \in Seq(Forms(C)) /\ Len(d[i]) = Len(e[i]) /\ \A j \in 1..Len(e[i]) : d[i][j] = h(e[i][j])
  <2>1. d[i] = [j \in 1..Len(e[i]) |-> h(e[i][j])]
    BY <1>3
  <2>2. \A j \in 1..Len(e[i]) : h(e[i][j]) \in Forms(C)
    BY <1>1, <1>4
  <2>3. QED
    BY <1>2, <2>1, <2>2
<1>6. d \in Exprs(C) /\ Len(d) = Len(e)
  <2>1. d = [i \in 1..Len(e) |-> d[i]]
    BY <1>3
  <2>2. QED
    BY <1>2, <1>5, <2>1 DEF Exprs
<1>7. \A i \in 1..Len(e) : \A j \in 1..Len(e[i]) : IsCanonical(d[i][j]) /\ Same(Value(e[i][j], w), Value(d[i][j], w))
  BY <1>1, <1>4, <1>5
<1>8. Eval(d, w) = Eval(e, w)
  <2>1. d \in Exprs(C) /\ e \in Exprs(C) /\ Len(d) = Len(e)
    BY <1>6
  <2>2. \A i \in 1..Len(e) : /\ Len(d[i]) = Len(e[i])
                              /\ \A j \in 1..Len(e[i]) : Same(Value(e[i][j], w), Value(d[i][j], w))
    BY <1>5, <1>7
  <2>3. QED
    BY <2>1, <2>2, EvalSame
<1>9. \A f \in Factors(d) : f \in Forms(C) /\ IsCanonical(f)
  <2>1. SUFFICES ASSUME NEW i \in DOMAIN d, NEW f \in ToSet(d[i]) PROVE f \in Forms(C) /\ IsCanonical(f)
    BY DEF Factors
  <2>2. i \in 1..Len(e)
    BY <1>6
  <2>3. PICK j \in 1..Len(e[i]) : f = d[i][j]
    BY <1>2, <1>5, <2>2 DEF ToSet
  <2>4. QED
    BY <1>5, <1>7, <2>2, <2>3
<1>10. QED
  BY <1>5, <1>6, <1>7, <1>8, <1>9 DEF d

-----------------------------------------------------------------------------
\* Bounds that hold.
TrueBoxes(w) == {n \in [col : DOMAIN w, lo : Int, hi : Int] : n.lo <= w[n.col] /\ w[n.col] < n.hi}
TrueBounds(w) == {b \in UNION {[D -> TrueBoxes(w)] : D \in SUBSET DOMAIN w} : \A x \in DOMAIN b : b[x].col = x}
InField(w) == \A x \in DOMAIN w : w[x] \in 0..P - 1

\* What a bound that holds says.
LEMMA BoxIs ==
  ASSUME NEW w, NEW n \in TrueBoxes(w)
  PROVE  n.col \in DOMAIN w /\ n.lo \in Int /\ n.hi \in Int /\ n.lo <= w[n.col] /\ w[n.col] < n.hi
BY DEF TrueBoxes

LEMMA BoxIsTrue ==
  ASSUME NEW w, NEW x \in DOMAIN w, NEW lo \in Int, NEW hi \in Int, lo <= w[x], w[x] < hi
  PROVE  BoundOf(x, lo, hi) \in TrueBoxes(w)
BY DEF TrueBoxes, BoundOf

\* What bounds that hold say.
LEMMA BoundsAre ==
  ASSUME NEW w, NEW b \in TrueBounds(w)
  PROVE  /\ DOMAIN b \subseteq DOMAIN w
         /\ \A x \in DOMAIN b : b[x] \in TrueBoxes(w) /\ b[x].col = x /\ b[x].lo \in Int /\ b[x].hi \in Int
                                /\ b[x].lo <= w[x] /\ w[x] < b[x].hi
BY BoxIs DEF TrueBounds

\* No bounds hold.
LEMMA NoBounds == ASSUME NEW w PROVE <<>> \in TrueBounds(w)
<1>1. <<>> \in [{} -> TrueBoxes(w)] /\ DOMAIN <<>> = {}
  OBVIOUS
<1>2. QED
  BY <1>1 DEF TrueBounds

\* The tightest of the bounds found holds.
LEMMA PutTrue ==
  ASSUME NEW w, InField(w), NEW b \in TrueBounds(w), NEW new \in SUBSET TrueBoxes(w)
  PROVE  Put(b, new) \in TrueBounds(w) /\ DOMAIN Put(b, new) = DOMAIN b \cup {n.col : n \in new}
<1> DEFINE better(x) == {n \in new : n.col = x /\ (x \in DOMAIN b => n.hi < b[x].hi)}
           least(S) == CHOOSE n \in S : \A m \in S : n.hi <= m.hi
           D == DOMAIN b \cup {n.col : n \in new}
           p == [x \in D |-> IF better(x) = {} THEN b[x] ELSE least(better(x))]
<1>1. Put(b, new) = p
  BY TabulatedIs DEF Put
<1>2. D \subseteq DOMAIN w
  BY BoundsAre, BoxIs
<1>3. ASSUME NEW x \in D PROVE p[x] \in TrueBoxes(w) /\ p[x].col = x
  <2>1. CASE better(x) = {}
    <3>1. p[x] = b[x]
      BY <2>1
    <3>2. x \in DOMAIN b
      BY <2>1
    <3>3. b[x] \in TrueBoxes(w) /\ b[x].col = x
      BY <3>2, BoundsAre
    <3> HIDE DEF p
    <3>4. QED
      BY <3>1, <3>3
  <2>2. CASE better(x) # {}
    <3> DEFINE S == better(x)
               T == {n.hi : n \in S}
    <3>1. p[x] = least(S)
      BY <2>2
    <3>2. S \subseteq new /\ \A n \in S : n.col = x
      OBVIOUS
    <3> HIDE DEF S
    <3>3. \A n \in S : n.hi \in Nat
      <4>1. SUFFICES ASSUME NEW n \in S PROVE n.hi \in Nat
        OBVIOUS
      <4>2. n.hi \in Int /\ n.col \in DOMAIN w /\ w[n.col] < n.hi
        BY <3>2, BoxIs
      <4>3. w[n.col] \in Nat
        BY <4>2 DEF InField
      <4>4. QED
        BY <4>2, <4>3
    <3>4. T \subseteq Nat /\ T # {}
      BY <2>2, <3>3 DEF S
    <3>5. \E n \in S : \A m \in S : n.hi <= m.hi
      <4>1. PICK h \in T : \A k \in T : h <= k
        <5> HIDE DEF T
        <5>1. QED
          BY <3>4, SmallestNumber
      <4>2. QED
        BY <4>1
    <3>6. least(S) \in S
      BY <3>5
    <3>7. QED
      BY <3>1, <3>2, <3>6
  <2>3. QED
    BY <2>1, <2>2
<1>4. p = [x \in D |-> p[x]] /\ DOMAIN p = D
  OBVIOUS
<1> HIDE DEF p, D
<1>5. p \in TrueBounds(w)
  <2>1. p \in [D -> TrueBoxes(w)]
    BY <1>3, <1>4
  <2>2. QED
    BY <1>2, <1>3, <1>4, <2>1 DEF TrueBounds
<1>6. QED
  BY <1>1, <1>4, <1>5 DEF D

LEMMA PutAllTrue ==
  ASSUME NEW w, InField(w), NEW found, Len(found) \in Nat,
         \A n \in 1..Len(found) : found[n] \in SUBSET TrueBoxes(w)
  PROVE  PutAll(found) \in TrueBounds(w)
<1> DEFINE N == Len(found)
           X == TrueBounds(w)
           Computes(r) == r = [n \in 0..N |-> IF n = 0 THEN <<>> ELSE Put(r[n - 1], found[n])]
           z == CHOOSE r : Computes(r)
           G == [n \in 1..N |-> [b \in X |-> Put(b, found[n])]]
<1>1. N \in Nat
  OBVIOUS
<1>2. \A n \in 1..N : \A b \in X : Put(b, found[n]) \in X
  BY PutTrue
<1>3. <<>> \in X
  BY NoBounds
<1>4. PutAll(found) = z[N]
  BY DEF PutAll
<1> HIDE DEF X, N
<1>5. PICK r : IsRun(r, N, X, <<>>, G)
  <2>1. G \in [1..N -> [X -> X]]
    BY <1>2
  <2> HIDE DEF G
  <2>2. QED
    BY <1>1, <1>3, <2>1, RunsExist
<1>6. r \in [0..N -> X] /\ r[0] = <<>> /\ \A n \in 1..N : r[n] = G[n][r[n - 1]]
  BY <1>5 DEF IsRun
<1>7. ASSUME NEW n \in 1..N PROVE r[n] = Put(r[n - 1], found[n])
  <2>1. n - 1 \in 0..N
    BY <1>1
  <2>2. r[n - 1] \in X /\ G[n] = [b \in X |-> Put(b, found[n])]
    BY <1>6, <2>1
  <2> HIDE DEF G
  <2>3. QED
    BY <1>6, <2>2
<1>8. Computes(r)
  <2>1. \A n \in 0..N : n = 0 \/ n \in 1..N
    BY <1>1
  <2> HIDE DEF G
  <2>2. QED
    BY <1>6, <1>7, <2>1
<1>9. Computes(z)
  <2> HIDE DEF Computes
  <2>1. QED
    BY <1>8
<1> HIDE DEF z, G
<1>10. \A n \in 0..N : z[n] = IF n = 0 THEN <<>> ELSE Put(z[n - 1], found[n])
  BY <1>9
<1> DEFINE T == {n \in 0..N : z[n] \in X}
<1>11. 0 \in T
  <2>1. 0 \in 0..N
    BY <1>1
  <2>2. QED
    BY <1>3, <1>10, <2>1
<1>12. ASSUME NEW n \in 1..N, n - 1 \in T PROVE n \in T
  <2>1. n \in 0..N /\ n # 0
    BY <1>1
  <2>2. z[n] = Put(z[n - 1], found[n]) /\ z[n - 1] \in X
    BY <1>10, <1>12, <2>1
  <2>3. QED
    BY <1>2, <2>1, <2>2
<1>13. \A n \in 0..N : n \in T
  <2> HIDE DEF T
  <2>1. QED
    BY <1>1, <1>11, <1>12, RunsUpTo
<1>14. z[N] \in X
  <2>1. N \in 0..N
    BY <1>1
  <2>2. QED
    BY <1>13, <2>1
<1>15. QED
  BY <1>4, <1>14 DEF X

-----------------------------------------------------------------------------
\* Bounds from range checks and from constraints.
LEMMA AssignedInField == ASSUME NEW c, NEW w, Assigned(c, w) PROVE InField(w)
BY AssignedIs DEF InField

\* A range check of a multiple of a column bounds it.
LEMMA ScaledTrue ==
  ASSUME NEW c, NEW w, Assigned(c, w), NEW e \in Exprs(Cols(c)), IsLinear(e), NEW width \in Nat,
         Eval(e, w) < width, Single(Linear(e)), Linear(e).const = 0
  PROVE  Scaled(Linear(e), width) \in SUBSET TrueBoxes(w)
<1> DEFINE l == Linear(e)
           x == CHOOSE y \in Columns(l) : TRUE
           k == l.coef[x]
           s == InverseOf(k)
           v == Eval(e, w)
<1>1. x \in Columns(l) /\ Columns(l) = {x}
  BY DEF Single, IsSingleton
<1>2. Scaled(l, width) = IF s = 1 \/ s * width < P THEN {BoundOf(x, 0, s * width)} ELSE {}
  BY DEF Scaled
<1>3. l \in Forms(Cols(c)) /\ IsCanonical(l) /\ Same(Value(l, w), v) /\ v \in 0..P - 1
  BY LinearOn
<1>4. PrimeField /\ OnColumns(Cols(c), w) /\ DOMAIN w = Cols(c) /\ \A y \in Cols(c) : w[y] \in 0..P - 1
  BY AssignedIs
<1> HIDE DEF x
<1>5. x \in Cols(c) /\ k \in Int /\ ~Same(k, 0) /\ w[x] \in Int /\ Value(l, w) = l.const + k * w[x]
  BY <1>1, <1>3, <1>4, SingleIs
<1>6. s \in 1..P - 1
  BY <1>4, <1>5, InverseWorks
<1> HIDE DEF k, s, v
<1>7. Same(w[x], v * s)
  <2>1. Same(k * w[x], v)
    BY <1>3, <1>5
  <2>2. v \in Int
    BY <1>3
  <2>3. QED
    BY <1>4, <1>5, <2>1, <2>2, Divide DEF s
<1>8. SUFFICES ASSUME s = 1 \/ s * width < P PROVE BoundOf(x, 0, s * width) \in TrueBoxes(w)
  BY <1>2
<1>9. v < width /\ v \in Int /\ s \in Int /\ v >= 0 /\ s >= 1
  BY <1>3, <1>6, PrimeIsInt DEF v
<1>10. v * s >= 0 /\ v * s < s * width
  BY <1>9
<1>11. v * s < P
  <2>1. CASE s = 1
    BY <1>3, <2>1, PrimeIsInt
  <2>2. CASE s * width < P
    BY <1>9, <1>10, <2>2, PrimeIsInt
  <2>3. QED
    BY <1>8, <2>1, <2>2
<1>12. w[x] = v * s
  <2>1. v * s \in 0..P - 1 /\ w[x] \in 0..P - 1
    BY <1>4, <1>5, <1>9, <1>10, <1>11, PrimeIsInt
  <2>2. QED
    BY <1>7, <2>1, SameInField
<1>13. s * width \in Int /\ 0 <= w[x] /\ w[x] < s * width
  BY <1>9, <1>10, <1>12
<1>14. QED
  BY <1>4, <1>5, <1>13, BoxIsTrue

\* An argument that is a column.
LEMMA BareIs ==
  ASSUME NEW c, NEW w, Assigned(c, w), NEW e \in Exprs(Cols(c)), NEW x \in BareColumn(e)
  PROVE  x \in Names(e) /\ x \in Cols(c) /\ w[x] = Eval(e, w)
<1>1. x \in Names(e) /\ IsLinear(e) /\ Linear(e) = Col(x)
  BY DEF BareColumn
<1>2. x \in Cols(c) /\ Same(Value(Col(x), w), Eval(e, w)) /\ Eval(e, w) \in 0..P - 1
  BY <1>1, LinearOn
<1>3. OnColumns(Cols(c), w) /\ w[x] \in 0..P - 1
  BY <1>2, AssignedIs
<1>4. Same(w[x], Eval(e, w))
  BY <1>2, <1>3, ColValue, SameSym, SameTrans
<1>5. QED
  BY <1>1, <1>2, <1>3, <1>4, SameInField

\* What a circuit says of its checks.
LEMMA CheckIs ==
  ASSUME NEW c, NEW w, Assigned(c, w), NEW k \in ToSet(c.checks)
  PROVE  /\ k.mult \in Exprs(Cols(c)) /\ \A e \in ToSet(k.args) : e \in Exprs(Cols(c))
         /\ k.bus = "var" => k.width \in Nat /\ k.args[1] \in ToSet(k.args)
         /\ CheckNames(k) # {} /\ Eval(k.mult, w) # 0 => InRange(k, w)
<1>1. IsCircuit(c) /\ CheckNames(k) # {} /\ Eval(k.mult, w) # 0 => InRange(k, w)
  BY DEF Assigned, Satisfied
<1>2. k.mult \in Exprs(Cols(c)) /\ (\A e \in ToSet(k.args) : e \in Exprs(Cols(c)))
      /\ (k.bus = "var" => k.width \in Nat /\ k.args[1] \in ToSet(k.args))
  <2>1. IsCircuit(c)
    BY DEF Assigned
  <2> HIDE DEF IsCircuit
  <2>2. QED
    BY <2>1, CircuitIs DEF Cols
<1>3. CheckNames(k) # {} /\ Eval(k.mult, w) # 0 => InRange(k, w)
  BY <1>1 DEF Assigned
<1>4. QED
  BY <1>2, <1>3

\* Bounds from range checks hold.
LEMMA CheckBoundsTrue ==
  ASSUME NEW c, NEW w, Assigned(c, w), SelectorIsValid(c), NEW k \in ToSet(c.checks)
  PROVE  CheckBounds(c, k) \in SUBSET TrueBoxes(w)
<1>1. CASE ~Sent(c, k)
  BY <1>1 DEF CheckBounds
<1>2. CASE Sent(c, k) /\ k.bus = "var"
  <2>1. CheckBounds(c, k) = UNION {Scaled(l, k.width) : l \in {m \in Linears({k.args[1]}) : Single(m) /\ m.const = 0}}
    BY <1>2 DEF CheckBounds
  <2>2. SUFFICES ASSUME IsLinear(k.args[1]), Single(Linear(k.args[1])), Linear(k.args[1]).const = 0
                 PROVE  Scaled(Linear(k.args[1]), k.width) \in SUBSET TrueBoxes(w)
    BY <2>1 DEF Linears
  <2>3. k.args[1] \in Exprs(Cols(c)) /\ k.width \in Nat /\ k.args[1] \in ToSet(k.args)
    BY <1>2, CheckIs
  <2>4. Names(k.args[1]) # {}
    <3>1. Columns(Linear(k.args[1])) # {}
      BY <2>2 DEF Single, IsSingleton
    <3>2. QED
      BY <2>3, <3>1, LinearOn
  <2>5. CheckNames(k) # {}
    BY <2>3, <2>4 DEF CheckNames
  <2>6. Eval(k.mult, w) # 0
    BY <1>2, SentTrue
  <2>7. Eval(k.args[1], w) < k.width
    BY <1>2, <2>5, <2>6, CheckIs DEF InRange
  <2>8. QED
    BY <2>2, <2>3, <2>7, ScaledTrue
<1>3. CASE Sent(c, k) /\ k.bus = "bitwise"
  <2>1. CheckBounds(c, k) = {BoundOf(x, 0, Byte) : x \in UNION {BareColumn(a) : a \in ToSet(k.args)}}
    BY <1>3 DEF CheckBounds
  <2>2. SUFFICES ASSUME NEW a \in ToSet(k.args), NEW x \in BareColumn(a) PROVE BoundOf(x, 0, Byte) \in TrueBoxes(w)
    BY <2>1
  <2>3. a \in Exprs(Cols(c))
    BY CheckIs
  <2>4. x \in Names(a) /\ x \in Cols(c) /\ w[x] = Eval(a, w)
    BY <2>3, BareIs
  <2>5. CheckNames(k) # {}
    BY <2>4 DEF CheckNames
  <2>6. Eval(k.mult, w) # 0
    BY <1>3, SentTrue
  <2>7. Eval(a, w) < Byte
    BY <1>3, <2>5, <2>6, CheckIs DEF InRange
  <2>8. w[x] \in 0..P - 1 /\ x \in DOMAIN w
    BY <2>4, AssignedIs
  <2>9. 0 <= w[x] /\ w[x] < Byte
    BY <2>4, <2>7, <2>8
  <2>10. QED
    BY <2>8, <2>9, BoxIsTrue, PrimeIsInt
<1>4. CASE Sent(c, k) /\ k.bus # "var" /\ k.bus # "bitwise"
  BY <1>4 DEF CheckBounds
<1>5. QED
  BY <1>1, <1>2, <1>3, <1>4

\* A product of all x - d bounds x.
LEMMA DomainTrue ==
  ASSUME NEW c, NEW w, Assigned(c, w), NEW e \in Constraints(c), NEW x \in Names(e), IsDomain(e, x)
  PROVE  BoundOf(x, 0, Len(e[1])) \in TrueBoxes(w)
<1>1. /\ e \in Exprs(Cols(c)) /\ Names(e) \subseteq Cols(c) /\ AllValued(e, w) /\ Eval(e, w) = 0
  BY ConstraintHolds
<1>2. PrimeField /\ OnColumns(Cols(c), w) /\ x \in Cols(c) /\ x \in DOMAIN w /\ w[x] \in 0..P - 1
  BY <1>1, AssignedIs
<1>3. Len(e) = 1 /\ ToSet(e[1]) = {Plus(Col(x), Num(-d)) : d \in 0..Len(e[1]) - 1}
  BY DEF IsDomain
<1>4. e[1] \in Seq(Forms(Cols(c))) /\ Len(e[1]) \in Nat /\ DOMAIN e[1] = 1..Len(e[1])
  BY <1>1, <1>3, ExprIs
<1>5. PICK j \in 1..Len(e[1]) : Same(Value(e[1][j], w), 0)
  BY <1>1, <1>2, <1>3, EvalOfProduct
<1>6. e[1][j] \in ToSet(e[1])
  BY <1>4 DEF ToSet
<1>7. PICK d \in 0..Len(e[1]) - 1 : e[1][j] = Plus(Col(x), Num(-d))
  BY <1>3, <1>6
<1>8. d \in Int /\ d >= 0 /\ d < Len(e[1]) /\ -d \in Int
  BY <1>4
<1>9. Same(Value(Plus(Col(x), Num(-d)), w), w[x] + (-d))
  <2>1. Col(x) \in Forms(Cols(c)) /\ Same(Value(Col(x), w), w[x])
    BY <1>2, ColValue
  <2>2. Num(-d) \in Forms(Cols(c)) /\ Same(Value(Num(-d), w), -d)
    BY <1>2, <1>8, NumValue
  <2>3. Same(Value(Plus(Col(x), Num(-d)), w), Value(Col(x), w) + Value(Num(-d), w))
    BY <1>2, <2>1, <2>2, PlusValue
  <2>4. Same(Value(Col(x), w) + Value(Num(-d), w), w[x] + (-d))
    BY <2>1, <2>2, SameAdd
  <2>5. QED
    BY <2>3, <2>4, SameTrans
<1>10. Same(w[x], d)
  <2>1. Same(w[x] + (-d), 0)
    BY <1>5, <1>7, <1>9, SameSym, SameTrans
  <2>2. Same(d, d)
    BY <1>8, SameRefl
  <2>3. Same((w[x] + (-d)) + d, 0 + d)
    BY <2>1, <2>2, SameAdd
  <2>4. (w[x] + (-d)) + d = w[x] /\ 0 + d = d
    BY <1>2, <1>8
  <2>5. QED
    BY <2>3, <2>4
<1>11. w[x] <= d
  <2>1. SUFFICES ASSUME w[x] > d PROVE FALSE
    BY <1>2, <1>8
  <2>2. w[x] - d < P /\ d - w[x] < P
    BY <1>2, <1>8, <2>1, PrimeIsInt
  <2>3. w[x] = d
    BY <1>10, <2>2, SameClose
  <2>4. QED
    BY <1>2, <1>8, <2>1, <2>3
<1>12. 0 <= w[x] /\ w[x] < Len(e[1]) /\ Len(e[1]) \in Int
  BY <1>2, <1>4, <1>8, <1>11
<1>13. QED
  BY <1>2, <1>12, BoxIsTrue

\* Bounds from constraints hold.
LEMMA ConBoundsTrue ==
  ASSUME NEW c, NEW w, Assigned(c, w), NEW e \in Constraints(c)
  PROVE  ConBounds(e) \in SUBSET TrueBoxes(w)
<1>1. CASE IsLinear(e)
  <2>1. ConBounds(e) = {BoundOf(r.col, r.at, r.at + 1) : r \in Residues({Linear(e)})}
    BY <1>1 DEF ConBounds
  <2> DEFINE l == Linear(e)
             r == Residue(l)
  <2>2. SUFFICES ASSUME Single(l) PROVE BoundOf(r.col, r.at, r.at + 1) \in TrueBoxes(w)
    BY <2>1 DEF Residues
  <2>3. l \in LinearCons(c)
    BY <1>1 DEF LinearCons, Linears
  <2> HIDE DEF l
  <2>4. Columns(l) # {}
    BY <2>2 DEF Single, IsSingleton
  <2>5. l \in Forms(Cols(c)) /\ IsCanonical(l) /\ Same(Value(l, w), 0)
    BY <2>3, <2>4, LinearConsHold
  <2>6. PrimeField /\ OnColumns(Cols(c), w) /\ DOMAIN w = Cols(c) /\ \A y \in Cols(c) : w[y] \in 0..P - 1
    BY AssignedIs
  <2>7. r.col \in Cols(c) /\ r.at \in 0..P - 1 /\ Same(r.at, w[r.col])
    BY <2>2, <2>5, <2>6, ResidueTrue
  <2> HIDE DEF r
  <2>8. r.at = w[r.col]
    BY <2>6, <2>7, SameInField
  <2>9. r.at \in Int /\ r.at + 1 \in Int /\ r.at <= w[r.col] /\ w[r.col] < r.at + 1
    BY <2>6, <2>7, <2>8
  <2>10. QED
    BY <2>6, <2>7, <2>9, BoxIsTrue
<1>2. CASE ~IsLinear(e)
  <2>1. ConBounds(e) = {BoundOf(x, 0, Len(e[1])) : x \in {y \in Names(e) : IsDomain(e, y)}}
    BY <1>2 DEF ConBounds
  <2>2. QED
    BY <2>1, DomainTrue
<1>3. QED
  BY <1>1, <1>2

-----------------------------------------------------------------------------
\* Differences between columns, and the bounds that follow along them.
TrueStep(d, w) ==
  d.from \in DOMAIN w /\ d.to \in DOMAIN w /\ d.by \in Int /\ Same(w[d.to], w[d.from] + d.by)

\* The image of a finite set is finite.
LEMMA ImageFinite == ASSUME NEW S, IsFiniteSet(S), NEW f PROVE IsFiniteSet({f[x] : x \in S})
<1> DEFINE g == [x \in S |-> f[x]]
           T == {f[x] : x \in S}
<1>1. g \in Surjection(S, T)
  BY DEF Surjection
<1>2. QED
  BY <1>1, FS_Surjection

\* There are finitely many linear constraints and differences.
LEMMA LinearsFinite == ASSUME NEW S, IsFiniteSet(S) PROVE IsFiniteSet(Linears(S))
<1>1. {d \in S : IsLinear(d)} \in SUBSET S
  OBVIOUS
<1>2. IsFiniteSet({d \in S : IsLinear(d)})
  BY <1>1, FS_Subset
<1> DEFINE T == {d \in S : IsLinear(d)}
           f == [e \in T |-> Linear(e)]
<1>3. IsFiniteSet({f[e] : e \in T})
  BY <1>2, ImageFinite
<1>4. QED
  BY <1>3 DEF Linears

LEMMA DifferencesFinite == ASSUME NEW c, NEW w, Assigned(c, w) PROVE IsFiniteSet(Differences(c))
<1> DEFINE both(l) == {Step(SignedBy(l, -1), SignedBy(l, 1), -l.const),
                       Step(SignedBy(l, 1), SignedBy(l, -1), l.const)}
           S == {both(l) : l \in TwoColumn(c)}
<1>1. IsFiniteSet(LinearCons(c))
  <2>1. IsFiniteSet(Constraints(c))
    BY AssignedIs, CircuitIs
  <2>2. QED
    BY <2>1, LinearsFinite DEF LinearCons
<1>2. IsFiniteSet(TwoColumn(c))
  <2>1. TwoColumn(c) \in SUBSET LinearCons(c)
    BY DEF TwoColumn
  <2>2. QED
    BY <1>1, <2>1, FS_Subset
<1>3. \A l \in TwoColumn(c) : IsFiniteSet(both(l))
  <2>1. SUFFICES ASSUME NEW l \in TwoColumn(c), NEW a, NEW b, both(l) = {a, b} PROVE IsFiniteSet(both(l))
    OBVIOUS
  <2>2. IsFiniteSet({a}) /\ {a} \cup {b} = {a, b}
    BY FS_Singleton
  <2>3. IsFiniteSet({a} \cup {b})
    BY <2>2, FS_AddElement
  <2>4. QED
    BY <2>1, <2>2, <2>3
<1> HIDE DEF both
<1>4. IsFiniteSet(S) /\ \A T \in S : IsFiniteSet(T)
  <2> DEFINE f == [l \in TwoColumn(c) |-> both(l)]
  <2>1. IsFiniteSet({f[l] : l \in TwoColumn(c)})
    BY <1>2, ImageFinite
  <2>2. QED
    BY <1>3, <2>1
<1>5. IsFiniteSet(UNION S)
  <2> HIDE DEF S
  <2>1. QED
    BY <1>4, FS_UNION
<1>6. QED
  BY <1>5 DEF Differences, both

\* A constraint of two columns.
LEMMA TwoIs ==
  ASSUME NEW C, NEW l \in Forms(C), NEW w, OnColumns(C, w), NEW x \in Columns(l), NEW y \in Columns(l), x # y, Columns(l) = {x, y}
  PROVE  Value(l, w) = l.const + (l.coef[x] * w[x] + l.coef[y] * w[y]) /\ w[x] \in Int /\ w[y] \in Int
<1> DEFINE f == TermsOf(l, w)
<1>1. /\ f[x] = l.coef[x] * w[x] /\ f[x] \in Int /\ f[y] = l.coef[y] * w[y] /\ f[y] \in Int /\ w[x] \in Int /\ w[y] \in Int
      /\ IsFiniteSet(Columns(l)) /\ Value(l, w) = l.const + SumOver(f, Columns(l)) /\ \A z \in Columns(l) : f[z] \in Int
  BY ValueIs
<1>2. Columns(l) \ {x} = {y}
  OBVIOUS
<1> HIDE DEF f
<1>3. SumOver(f, Columns(l)) = f[x] + SumOver(f, Columns(l) \ {x})
  BY <1>1, SumRemove
<1>4. SumOver(f, {y}) = f[y]
  BY <1>1, SumSingle
<1>5. QED
  BY <1>1, <1>2, <1>3, <1>4

\* Differences hold in the field.
LEMMA DifferencesTrue ==
  ASSUME NEW c, NEW w, Assigned(c, w), NEW d \in Differences(c) PROVE TrueStep(d, w)
<1>1. PICK l \in TwoColumn(c) : \/ d = Step(SignedBy(l, -1), SignedBy(l, 1), -l.const)
                                \/ d = Step(SignedBy(l, 1), SignedBy(l, -1), l.const)
  BY DEF Differences
<1>2. PICK x \in Columns(l), y \in Columns(l) : x # y /\ Columns(l) = {x, y} /\ l.coef[x] = 1 /\ l.coef[y] = -1
  BY DEF TwoColumn
<1>3. l \in LinearCons(c)
  BY DEF TwoColumn
<1>4. l \in Forms(Cols(c)) /\ Same(Value(l, w), 0)
  BY <1>2, <1>3, LinearConsHold
<1>5. SignedBy(l, 1) = x /\ SignedBy(l, -1) = y
  BY <1>2 DEF SignedBy
<1>6. OnColumns(Cols(c), w) /\ DOMAIN w = Cols(c)
  BY AssignedIs
<1>7. x \in DOMAIN w /\ y \in DOMAIN w /\ l.const \in Int
  BY <1>4, <1>6, FormIs
<1>8. Value(l, w) = l.const + (l.coef[x] * w[x] + l.coef[y] * w[y]) /\ w[x] \in Int /\ w[y] \in Int
  BY <1>2, <1>4, <1>6, TwoIs
<1>9. Value(l, w) = l.const + (w[x] - w[y])
  BY <1>2, <1>7, <1>8
<1>10. Same(w[x], w[y] + (-l.const))
  <2>1. w[y] + (-l.const) \in Int
    BY <1>7, <1>8
  <2>2. Same(Value(l, w) + (w[y] + (-l.const)), 0 + (w[y] + (-l.const)))
    BY <1>4, <2>1, SameRefl, SameAdd
  <2>3. Value(l, w) + (w[y] + (-l.const)) = w[x] /\ 0 + (w[y] + (-l.const)) = w[y] + (-l.const)
    BY <1>7, <1>8, <1>9
  <2>4. QED
    BY <2>2, <2>3
<1>11. Same(w[y], w[x] + l.const)
  <2>1. Same(w[x] + l.const, (w[y] + (-l.const)) + l.const)
    BY <1>7, <1>10, SameRefl, SameAdd
  <2>2. (w[y] + (-l.const)) + l.const = w[y]
    BY <1>7, <1>8
  <2>3. QED
    BY <2>1, <2>2, SameSym
<1>12. CASE d = Step(SignedBy(l, -1), SignedBy(l, 1), -l.const)
  <2>1. d.from = y /\ d.to = x /\ d.by = -l.const
    BY <1>5, <1>12 DEF Step
  <2>2. QED
    BY <1>7, <1>10, <2>1 DEF TrueStep
<1>13. CASE d = Step(SignedBy(l, 1), SignedBy(l, -1), l.const)
  <2>1. d.from = x /\ d.to = y /\ d.by = l.const
    BY <1>5, <1>13 DEF Step
  <2>2. QED
    BY <1>7, <1>11, <2>1 DEF TrueStep
<1>14. QED
  BY <1>1, <1>12, <1>13

\* A bound that is shifted within the field holds.
LEMMA ShiftedAllTrue ==
  ASSUME NEW w, InField(w), NEW D, \A d \in D : TrueStep(d, w), NEW b \in TrueBounds(w)
  PROVE  ShiftedAll(D, b) \in SUBSET TrueBoxes(w)
<1>1. SUFFICES ASSUME NEW d \in D, d.from \in DOMAIN b, Shifted(b, d).lo >= 0, Shifted(b, d).hi <= P
               PROVE  Shifted(b, d) \in TrueBoxes(w)
  BY DEF ShiftedAll
<1> DEFINE lo == b[d.from].lo
           hi == b[d.from].hi
<1>2. Shifted(b, d) = BoundOf(d.to, lo + d.by, hi + d.by) /\ Shifted(b, d).lo = lo + d.by /\ Shifted(b, d).hi = hi + d.by
  BY DEF Shifted, BoundOf
<1>3. lo \in Int /\ hi \in Int /\ lo <= w[d.from] /\ w[d.from] < hi
  BY <1>1, BoundsAre
<1>4. d.from \in DOMAIN w /\ d.to \in DOMAIN w /\ d.by \in Int /\ Same(w[d.to], w[d.from] + d.by)
  BY DEF TrueStep
<1>5. w[d.from] \in 0..P - 1 /\ w[d.to] \in 0..P - 1
  BY <1>4 DEF InField
<1> HIDE DEF lo, hi
<1>6. w[d.from] \in Int /\ w[d.to] \in Int /\ P \in Int
  BY <1>5, PrimeIsInt
<1>7. lo + d.by >= 0 /\ hi + d.by <= P
  BY <1>1, <1>2
<1>8. w[d.from] + d.by \in 0..P - 1
  BY <1>3, <1>4, <1>6, <1>7
<1>9. w[d.to] = w[d.from] + d.by
  BY <1>4, <1>5, <1>8, SameInField
<1>10. lo + d.by \in Int /\ hi + d.by \in Int /\ lo + d.by <= w[d.to] /\ w[d.to] < hi + d.by
  BY <1>3, <1>4, <1>6, <1>9
<1>11. QED
  BY <1>2, <1>4, <1>10, BoxIsTrue

\* So do bounds that are shifted again and again.
LEMMA SpreadTrue ==
  ASSUME NEW w, InField(w), NEW D, IsFiniteSet(D), \A d \in D : TrueStep(d, w), NEW start \in TrueBounds(w)
  PROVE  Spread(D, start) \in TrueBounds(w)
<1> DEFINE N == Cardinality(D)
           X == TrueBounds(w)
           Computes(r) == r = [n \in 0..N |-> IF n = 0 THEN start ELSE Put(r[n - 1], ShiftedAll(D, r[n - 1]))]
           z == CHOOSE r : Computes(r)
           G == [n \in 1..N |-> [b \in X |-> Put(b, ShiftedAll(D, b))]]
<1>1. N \in Nat
  BY FS_CardinalityType
<1>2. \A n \in 1..N : \A b \in X : Put(b, ShiftedAll(D, b)) \in X
  BY PutTrue, ShiftedAllTrue
<1>3. start \in X
  OBVIOUS
<1>4. Spread(D, start) = z[N]
  BY DEF Spread
<1> HIDE DEF X, N
<1>5. PICK r : IsRun(r, N, X, start, G)
  <2>1. G \in [1..N -> [X -> X]]
    BY <1>2
  <2> HIDE DEF G
  <2>2. QED
    BY <1>1, <1>3, <2>1, RunsExist
<1>6. r \in [0..N -> X] /\ r[0] = start /\ \A n \in 1..N : r[n] = G[n][r[n - 1]]
  BY <1>5 DEF IsRun
<1>7. ASSUME NEW n \in 1..N PROVE r[n] = Put(r[n - 1], ShiftedAll(D, r[n - 1]))
  <2>1. n - 1 \in 0..N
    BY <1>1
  <2>2. r[n - 1] \in X /\ G[n] = [b \in X |-> Put(b, ShiftedAll(D, b))]
    BY <1>6, <2>1
  <2> HIDE DEF G
  <2>3. QED
    BY <1>6, <2>2
<1>8. Computes(r)
  <2>1. \A n \in 0..N : n = 0 \/ n \in 1..N
    BY <1>1
  <2> HIDE DEF G
  <2>2. QED
    BY <1>6, <1>7, <2>1
<1>9. Computes(z)
  <2> HIDE DEF Computes
  <2>1. QED
    BY <1>8
<1> HIDE DEF z, G
<1>10. \A n \in 0..N : z[n] = IF n = 0 THEN start ELSE Put(z[n - 1], ShiftedAll(D, z[n - 1]))
  BY <1>9
<1> DEFINE T == {n \in 0..N : z[n] \in X}
<1>11. 0 \in T
  <2>1. 0 \in 0..N
    BY <1>1
  <2>2. QED
    BY <1>3, <1>10, <2>1
<1>12. ASSUME NEW n \in 1..N, n - 1 \in T PROVE n \in T
  <2>1. n \in 0..N /\ n # 0
    BY <1>1
  <2>2. z[n] = Put(z[n - 1], ShiftedAll(D, z[n - 1])) /\ z[n - 1] \in X
    BY <1>10, <1>12, <2>1
  <2>3. QED
    BY <1>2, <2>1, <2>2
<1>13. \A n \in 0..N : n \in T
  <2> HIDE DEF T
  <2>1. QED
    BY <1>1, <1>11, <1>12, RunsUpTo
<1>14. z[N] \in X
  <2>1. N \in 0..N
    BY <1>1
  <2>2. QED
    BY <1>13, <2>1
<1>15. QED
  BY <1>4, <1>14 DEF X

\* All bounds that are found hold when those given do.
LEMMA SeededTrue ==
  ASSUME NEW c, NEW w, Assigned(c, w), SelectorIsValid(c), NEW mid \in Seq(SUBSET TrueBoxes(w))
  PROVE  Seeded(c, mid) \in TrueBounds(w)
<1> DEFINE S == SUBSET TrueBoxes(w)
           first == [k \in DOMAIN c.checks |-> CheckBounds(c, c.checks[k])]
           last == [k \in DOMAIN c.cons |-> ConBounds(c.cons[k])]
           found == first \o mid \o last
<1>1. /\ Len(c.checks) \in Nat /\ DOMAIN c.checks = 1..Len(c.checks)
      /\ Len(c.cons) \in Nat /\ DOMAIN c.cons = 1..Len(c.cons)
      /\ \A k \in DOMAIN c.checks : c.checks[k] \in ToSet(c.checks)
      /\ \A k \in DOMAIN c.cons : c.cons[k] \in Constraints(c)
  BY AssignedIs, CircuitIs
<1>2. first \in Seq(S)
  <2>1. \A k \in 1..Len(c.checks) : CheckBounds(c, c.checks[k]) \in S
    BY <1>1, CheckBoundsTrue
  <2> HIDE DEF S
  <2>2. QED
    BY <1>1, <2>1
<1>3. last \in Seq(S)
  <2>1. \A k \in 1..Len(c.cons) : ConBounds(c.cons[k]) \in S
    BY <1>1, ConBoundsTrue
  <2> HIDE DEF S
  <2>2. QED
    BY <1>1, <2>1
<1> HIDE DEF first, last
<1>4. found \in Seq(S)
  <2> HIDE DEF S
  <2>1. mid \in Seq(S)
    BY DEF S
  <2>2. QED
    BY <1>2, <1>3, <2>1
<1>5. Len(found) \in Nat /\ \A n \in 1..Len(found) : found[n] \in S
  BY <1>4
<1>6. InField(w)
  BY AssignedInField
<1>7. PutAll(found) \in TrueBounds(w)
  <2> HIDE DEF found
  <2>1. QED
    BY <1>5, <1>6, PutAllTrue
<1>8. IsFiniteSet(Differences(c)) /\ \A d \in Differences(c) : TrueStep(d, w)
  BY DifferencesFinite, DifferencesTrue
<1>9. Seeded(c, mid) = Spread(Differences(c), PutAll(found))
  BY DEF Seeded, first, last
<1>10. QED
  <2> HIDE DEF found
  <2>1. QED
    BY <1>6, <1>7, <1>8, <1>9, SpreadTrue

\* The bounds that are found without propagation hold in every assignment that
\* satisfies the circuit.
THEOREM StaticBoundsTrue ==
  ASSUME NEW c, NEW w, Assigned(c, w), SelectorIsValid(c) PROVE StaticBounds(c) \in TrueBounds(w)
<1>1. <<>> \in Seq(SUBSET TrueBoxes(w))
  OBVIOUS
<1>2. QED
  BY <1>1, SeededTrue DEF StaticBounds

-----------------------------------------------------------------------------
\* The integers a form may take.
LEMMA WithZero ==
  ASSUME NEW k \in Int
  PROVE  /\ Min({0, k}) \in Int /\ Min({0, k}) <= 0 /\ Min({0, k}) <= k
         /\ Max({0, k}) \in Int /\ Max({0, k}) >= 0 /\ Max({0, k}) >= k
<1>1. \E x \in {0, k} : \A y \in {0, k} : x <= y
  <2>1. CASE k <= 0
    BY <2>1
  <2>2. CASE k > 0
    BY <2>2
  <2>3. QED
    BY <2>1, <2>2
<1>2. \E x \in {0, k} : \A y \in {0, k} : x >= y
  <2>1. CASE k <= 0
    BY <2>1
  <2>2. CASE k > 0
    BY <2>2
  <2>3. QED
    BY <2>1, <2>2
<1>3. Min({0, k}) \in {0, k} /\ \A y \in {0, k} : Min({0, k}) <= y
  BY <1>1 DEF Min
<1>4. Max({0, k}) \in {0, k} /\ \A y \in {0, k} : Max({0, k}) >= y
  BY <1>2 DEF Max
<1>5. QED
  BY <1>3, <1>4

\* Products keep or turn the order.
LEMMA ScaledLe ==
  ASSUME NEW k \in Int, NEW a \in Int, NEW b \in Int, a <= b
  PROVE  (k >= 0 => k * a <= k * b) /\ (k <= 0 => k * a >= k * b)
<1>1. k >= 0 => k * (b - a) >= 0
  OBVIOUS
<1>2. k <= 0 => k * (b - a) <= 0
  OBVIOUS
<1>3. k * (b - a) = k * b - k * a /\ k * a \in Int /\ k * b \in Int
  OBVIOUS
<1>4. QED
  BY <1>1, <1>2, <1>3

\* A form is within the range computed from bounds.
LEMMA RangeHolds ==
  ASSUME NEW C, NEW l \in Forms(C), NEW w, OnColumns(C, w), InField(w), NEW b \in TrueBounds(w), Bounded(l, b)
  PROVE  Low(l, b) \in Int /\ High(l, b) \in Int /\ Low(l, b) <= Value(l, w) /\ Value(l, w) <= High(l, b)
<1> DEFINE S == Columns(l)
           f == TermsOf(l, w)
           lo == [x \in S |-> Min({0, l.coef[x] * (b[x].hi - 1)})]
           hi == [x \in S |-> Max({0, l.coef[x] * (b[x].hi - 1)})]
<1>1. ASSUME NEW x \in S
      PROVE  lo[x] \in Int /\ hi[x] \in Int /\ f[x] \in Int /\ lo[x] <= f[x] /\ f[x] <= hi[x]
  <2> DEFINE k == l.coef[x]
             m == b[x].hi - 1
  <2>1. k \in Int /\ w[x] \in Int /\ f[x] = k * w[x] /\ f[x] \in Int
    BY FormIs, ValueIs
  <2>2. x \in DOMAIN b /\ x \in DOMAIN w
    BY BoundsAre DEF Bounded
  <2>3. b[x].hi \in Int /\ w[x] < b[x].hi
    BY <2>2, BoundsAre
  <2>4. w[x] \in 0..P - 1
    BY <2>2 DEF InField
  <2>5. m \in Int /\ 0 <= w[x] /\ w[x] <= m
    BY <2>1, <2>3, <2>4
  <2>6. lo[x] = Min({0, k * m}) /\ hi[x] = Max({0, k * m})
    OBVIOUS
  <2> HIDE DEF k, m, lo, hi, f
  <2>7. k * m \in Int /\ k * w[x] \in Int
    BY <2>1, <2>5
  <2>8. (k >= 0 => k * 0 <= k * w[x] /\ k * w[x] <= k * m) /\ (k <= 0 => k * 0 >= k * w[x] /\ k * w[x] >= k * m) /\ k * 0 = 0
    BY <2>1, <2>5, ScaledLe
  <2>9. /\ Min({0, k * m}) \in Int /\ Min({0, k * m}) <= 0 /\ Min({0, k * m}) <= k * m
        /\ Max({0, k * m}) \in Int /\ Max({0, k * m}) >= 0 /\ Max({0, k * m}) >= k * m
    BY <2>7, WithZero
  <2>10. k >= 0 \/ k <= 0
    BY <2>1
  <2>11. QED
    BY <2>1, <2>6, <2>7, <2>8, <2>9, <2>10
<1>2. IsFiniteSet(S) /\ Value(l, w) = l.const + SumOver(f, S) /\ SumOver(f, S) \in Int /\ l.const \in Int
  BY ValueIs, FormIs
<1>3. Low(l, b) = l.const + SumOver(lo, S) /\ High(l, b) = l.const + SumOver(hi, S)
  <2>1. [x \in S |-> lo[x]] = lo /\ [x \in S |-> hi[x]] = hi
    OBVIOUS
  <2>2. QED
    BY <2>1 DEF Low, High, SumOver
<1> HIDE DEF S, f, lo, hi
<1>4. SumOver(lo, S) \in Int /\ SumOver(hi, S) \in Int
  BY <1>1, <1>2, SumIsInt
<1>5. SumOver(lo, S) <= SumOver(f, S)
  BY <1>1, <1>2, SumLe
<1>6. SumOver(f, S) <= SumOver(hi, S)
  BY <1>1, <1>2, SumLe
<1>7. QED
  BY <1>2, <1>3, <1>4, <1>5, <1>6

\* A form that cannot wrap and is zero in the field is zero.
LEMMA ExactZero ==
  ASSUME NEW C, NEW l \in Forms(C), NEW w, OnColumns(C, w), InField(w), NEW b \in TrueBounds(w), NoWrap(l, b),
         Same(Value(l, w), 0)
  PROVE  Value(l, w) = 0
<1>1. Bounded(l, b) /\ Low(l, b) > -P /\ High(l, b) < P
  BY DEF NoWrap
<1>2. Low(l, b) \in Int /\ High(l, b) \in Int /\ Low(l, b) <= Value(l, w) /\ Value(l, w) <= High(l, b)
  BY <1>1, RangeHolds
<1>3. Value(l, w) \in Int
  BY DEF Same
<1>4. Value(l, w) - 0 < P /\ 0 - Value(l, w) < P
  BY <1>1, <1>2, <1>3, PrimeIsInt
<1>5. QED
  BY <1>4, SameClose

-----------------------------------------------------------------------------
\* Pins that hold: signed representatives of the values.
Pinnings(w) ==
  {p \in UNION {[D -> Int] : D \in SUBSET DOMAIN w} : \A x \in DOMAIN p : Same(p[x], w[x]) /\ -P < p[x] /\ p[x] < P}

\* What pins that hold say.
LEMMA PinningIs ==
  ASSUME NEW w, NEW p \in Pinnings(w)
  PROVE  /\ PinsAgree(p, w) /\ DOMAIN p \subseteq DOMAIN w
         /\ \A x \in DOMAIN p : p[x] \in Int /\ Same(p[x], w[x]) /\ -P < p[x] /\ p[x] < P
BY DEF Pinnings, PinsAgree

\* Pins that hold, made and joined.
LEMMA IsPinning ==
  ASSUME NEW w, NEW p, NEW D \in SUBSET DOMAIN w, p = [x \in D |-> p[x]],
         \A x \in D : Same(p[x], w[x]) /\ -P < p[x] /\ p[x] < P
  PROVE  p \in Pinnings(w)
<1>1. \A x \in D : p[x] \in Int
  BY DEF Same
<1>2. p \in [D -> Int]
  BY <1>1
<1>3. QED
  BY <1>2 DEF Pinnings

LEMMA NoPins == ASSUME NEW w PROVE <<>> \in Pinnings(w)
<1>1. <<>> \in [{} -> Int] /\ DOMAIN <<>> = {}
  OBVIOUS
<1>2. QED
  BY <1>1 DEF Pinnings

LEMMA JustPinned ==
  ASSUME NEW w, NEW x \in DOMAIN w, NEW v, Same(v, w[x]), -P < v, v < P PROVE Just(x, v) \in Pinnings(w)
<1>1. Just(x, v) = [y \in {x} |-> Just(x, v)[y]] /\ Just(x, v)[x] = v
  BY DEF Just
<1>2. QED
  BY <1>1, IsPinning

LEMMA JoinedPinned ==
  ASSUME NEW w, NEW p \in Pinnings(w), NEW q \in Pinnings(w) PROVE Joined(p, q) \in Pinnings(w)
<1> DEFINE D == DOMAIN p \cup DOMAIN q
           j == Joined(p, q)
<1>1. j = [x \in D |-> IF x \in DOMAIN p THEN p[x] ELSE q[x]]
  BY JoinedFunction
<1>2. D \in SUBSET DOMAIN w
  BY PinningIs
<1>3. j = [x \in D |-> j[x]] /\ \A x \in D : j[x] = IF x \in DOMAIN p THEN p[x] ELSE q[x]
  BY <1>1
<1> HIDE DEF j
<1>4. \A x \in D : Same(j[x], w[x]) /\ -P < j[x] /\ j[x] < P
  BY <1>3, PinningIs
<1>5. QED
  BY <1>2, <1>3, <1>4, IsPinning DEF j

\* Pins from residues that are small enough.
LEMMA AtOfPinned ==
  ASSUME NEW w, NEW R, \A r \in R : r.col \in DOMAIN w /\ Same(r.at, w[r.col]) /\ -P < r.at /\ r.at < P
  PROVE  AtOf(R) \in Pinnings(w)
<1> DEFINE D == {r.col : r \in R}
           p == AtOf(R)
<1>1. TruePins(R, w)
  BY DEF TruePins, Same
<1>2. \A x \in DOMAIN p : \E r \in R : r.col = x /\ p[x] = r.at
  BY <1>1, AtOfTrue
<1>3. p = [x \in D |-> (CHOOSE r \in R : r.col = x).at]
  BY TabulatedIs DEF AtOf
<1>4. p = [x \in D |-> p[x]] /\ DOMAIN p = D
  BY <1>3
<1> HIDE DEF p
<1>5. D \in SUBSET DOMAIN w
  OBVIOUS
<1>6. QED
  BY <1>2, <1>4, <1>5, IsPinning DEF p

\* A linear constraint of one column, read as a statement about integers.
LEMMA TryPinTrue ==
  ASSUME NEW c, NEW w, Assigned(c, w), NEW b \in TrueBounds(w), NEW pins \in Pinnings(w), NEW l \in LinearCons(c),
         NEW r \in TryPin(Subst(l, pins), b)
  PROVE  r.col \in DOMAIN w /\ Same(r.at, w[r.col]) /\ -P < r.at /\ r.at < P
<1> DEFINE s == Subst(l, pins)
<1>1. Single(s) /\ Signs(s) \subseteq {1, -1} /\ NoWrap(s, b)
  BY DEF TryPin
<1>2. PICK x \in Columns(s) : r = [col |-> x, at |-> Signed(-s.const * s.coef[x])]
  BY <1>1 DEF TryPin
<1>3. Columns(s) = {x}
  BY <1>1 DEF Single, IsSingleton
<1>4. PinsAgree(pins, w) /\ PrimeField /\ OnColumns(Cols(c), w) /\ DOMAIN w = Cols(c) /\ InField(w)
  BY PinningIs, AssignedIs, AssignedInField
<1>5. s \in Forms(Cols(c)) /\ IsCanonical(s) /\ Same(Value(s, w), 0)
  BY <1>3, <1>4, RemainderHolds
<1>6. s.coef[x] \in {1, -1}
  BY <1>1 DEF Signs
<1> HIDE DEF s
<1>7. x \in Cols(c) /\ w[x] \in Int /\ s.const \in Int /\ s.coef[x] \in Int /\ Value(s, w) = s.const + s.coef[x] * w[x]
  BY <1>3, <1>4, <1>5, SingleIs
<1>8. Value(s, w) = 0
  BY <1>1, <1>4, <1>5, ExactZero
<1>9. -s.const * s.coef[x] = w[x]
  BY <1>6, <1>7, <1>8
<1>10. Same(Signed(w[x]), w[x]) /\ -P < Signed(w[x]) /\ Signed(w[x]) < P
  BY <1>7, SignedSame
<1>11. r.col = x /\ r.at = Signed(w[x])
  BY <1>2, <1>9
<1>12. QED
  BY <1>4, <1>7, <1>10, <1>11

\* Propagation of pins by linear constraints.
LEMMA FurtherPinsTrue ==
  ASSUME NEW c, NEW w, Assigned(c, w), NEW b \in TrueBounds(w), NEW pins \in Pinnings(w)
  PROVE  FurtherPins(c, b, pins) \in Pinnings(w)
<1> DEFINE R == UNION {TryPin(Subst(l, pins), b) : l \in LinearCons(c)}
<1>1. \A r \in R : r.col \in DOMAIN w /\ Same(r.at, w[r.col]) /\ -P < r.at /\ r.at < P
  BY TryPinTrue
<1>2. FurtherPins(c, b, pins) = Joined(pins, AtOf(R))
  BY DEF FurtherPins
<1> HIDE DEF R
<1>3. QED
  BY <1>1, <1>2, AtOfPinned, JoinedPinned

LEMMA PropagatedTrue ==
  ASSUME NEW c, NEW w, Assigned(c, w), NEW bs \in TrueBounds(w)
  PROVE  Propagated(c, bs) \in Pinnings(w)
<1> DEFINE N == Len(c.cols)
           X == Pinnings(w)
           Computes(r) == r = [n \in 0..N |-> IF n = 0 THEN <<>> ELSE FurtherPins(c, bs, r[n - 1])]
           z == CHOOSE r : Computes(r)
           G == [n \in 1..N |-> [b \in X |-> FurtherPins(c, bs, b)]]
<1>1. N \in Nat
  BY AssignedIs, CircuitIs
<1>2. \A n \in 1..N : \A b \in X : FurtherPins(c, bs, b) \in X
  BY FurtherPinsTrue
<1>3. <<>> \in X
  BY NoPins
<1>4. Propagated(c, bs) = z[N]
  BY DEF Propagated
<1> HIDE DEF X, N
<1>5. PICK r : IsRun(r, N, X, <<>>, G)
  <2>1. G \in [1..N -> [X -> X]]
    BY <1>2
  <2> HIDE DEF G
  <2>2. QED
    BY <1>1, <1>3, <2>1, RunsExist
<1>6. r \in [0..N -> X] /\ r[0] = <<>> /\ \A n \in 1..N : r[n] = G[n][r[n - 1]]
  BY <1>5 DEF IsRun
<1>7. ASSUME NEW n \in 1..N PROVE r[n] = FurtherPins(c, bs, r[n - 1])
  <2>1. n - 1 \in 0..N
    BY <1>1
  <2>2. r[n - 1] \in X /\ G[n] = [b \in X |-> FurtherPins(c, bs, b)]
    BY <1>6, <2>1
  <2> HIDE DEF G
  <2>3. QED
    BY <1>6, <2>2
<1>8. Computes(r)
  <2>1. \A n \in 0..N : n = 0 \/ n \in 1..N
    BY <1>1
  <2> HIDE DEF G
  <2>2. QED
    BY <1>6, <1>7, <2>1
<1>9. Computes(z)
  <2> HIDE DEF Computes
  <2>1. QED
    BY <1>8
<1> HIDE DEF z, G
<1>10. \A n \in 0..N : z[n] = IF n = 0 THEN <<>> ELSE FurtherPins(c, bs, z[n - 1])
  BY <1>9
<1> DEFINE T == {n \in 0..N : z[n] \in X}
<1>11. 0 \in T
  <2>1. 0 \in 0..N
    BY <1>1
  <2>2. QED
    BY <1>3, <1>10, <2>1
<1>12. ASSUME NEW n \in 1..N, n - 1 \in T PROVE n \in T
  <2>1. n \in 0..N /\ n # 0
    BY <1>1
  <2>2. z[n] = FurtherPins(c, bs, z[n - 1]) /\ z[n - 1] \in X
    BY <1>10, <1>12, <2>1
  <2>3. QED
    BY <1>2, <2>1, <2>2
<1>13. \A n \in 0..N : n \in T
  <2> HIDE DEF T
  <2>1. QED
    BY <1>1, <1>11, <1>12, RunsUpTo
<1>14. z[N] \in X
  <2>1. N \in 0..N
    BY <1>1
  <2>2. QED
    BY <1>13, <2>1
<1>15. QED
  BY <1>4, <1>14 DEF X

-----------------------------------------------------------------------------
\* Evaluation under congruent assignments.
LEMMA ValueCongruent ==
  ASSUME NEW C, IsFiniteSet(C), NEW l \in Forms(C), NEW u, NEW w,
         \A x \in Columns(l) : x \in DOMAIN u /\ x \in DOMAIN w /\ Same(u[x], w[x])
  PROVE  Same(Value(l, u), Value(l, w))
<1> DEFINE S == Columns(l)
           f == TermsOf(l, u)
           g == TermsOf(l, w)
<1>1. l.const \in Int /\ S \in SUBSET C /\ \A x \in S : l.coef[x] \in Int
  BY FormIs
<1>2. l \in Forms(S)
  BY FormIsIn
<1>3. IsFiniteSet(S)
  BY <1>1, FS_Subset
<1>4. \A x \in S : u[x] \in Int /\ w[x] \in Int
  BY DEF Same
<1>5. OnColumns(S, u) /\ OnColumns(S, w)
  BY <1>3, <1>4 DEF OnColumns
<1>6. /\ Value(l, u) = l.const + SumOver(f, S) /\ Value(l, w) = l.const + SumOver(g, S)
      /\ \A x \in S : f[x] = l.coef[x] * u[x] /\ g[x] = l.coef[x] * w[x]
  BY <1>2, <1>5, ValueIs
<1> HIDE DEF S, f, g
<1>7. \A x \in S : Same(f[x], g[x])
  <2>1. SUFFICES ASSUME NEW x \in S PROVE Same(f[x], g[x])
    OBVIOUS
  <2>2. Same(l.coef[x], l.coef[x]) /\ Same(u[x], w[x])
    BY <1>1, SameRefl DEF S
  <2>3. QED
    BY <1>6, <2>2, SameMul
<1>8. Same(SumOver(f, S), SumOver(g, S))
  BY <1>3, <1>7, SumSame
<1>9. QED
  BY <1>1, <1>6, <1>8, SameRefl, SameAdd

\* Assignments that are the same modulo P give the same value.
LEMMA EvalCongruent ==
  ASSUME PrimeField, NEW C, IsFiniteSet(C), NEW e \in Exprs(C), NEW u, NEW w,
         \A x \in Names(e) : x \in DOMAIN u /\ x \in DOMAIN w /\ Same(u[x], w[x])
  PROVE  Eval(e, u) = Eval(e, w)
<1>1. ASSUME NEW i \in 1..Len(e) PROVE Len(e[i]) = Len(e[i]) /\ \A j \in 1..Len(e[i]) : Same(Value(e[i][j], u), Value(e[i][j], w))
  <2>1. SUFFICES ASSUME NEW j \in 1..Len(e[i]) PROVE Same(Value(e[i][j], u), Value(e[i][j], w))
    OBVIOUS
  <2>2. e[i][j] \in Forms(C) /\ Columns(e[i][j]) \subseteq Names(e)
    BY ExprIs
  <2>3. QED
    BY <2>2, ValueCongruent
<1>2. QED
  BY <1>1, EvalSame

-----------------------------------------------------------------------------
\* Values that depend on one unknown linearly: from those at zero and one
\* follows the one at T.
Along(a0, a1, at, T) == a0 \in Int /\ a1 \in Int /\ T \in Int /\ Same(at, a0 + T * (a1 - a0))

\* Values that vary linearly: congruent ones, multiples, constants, products, sums.
LEMMA AlongSame ==
  ASSUME NEW T, NEW a0, NEW a1, NEW at, Along(a0, a1, at, T), NEW b0, NEW b1, NEW bt, Same(b0, a0), Same(b1, a1), Same(bt, at)
  PROVE  Along(b0, b1, bt, T)
<1>1. T \in Int /\ Same(T, T) /\ Same(at, a0 + T * (a1 - a0)) /\ b0 \in Int /\ b1 \in Int
  BY SameRefl DEF Along, Same
<1>2. Same(b1 - b0, a1 - a0)
  BY SameSub
<1>3. Same(T * (b1 - b0), T * (a1 - a0))
  BY <1>1, <1>2, SameMul
<1>4. Same(b0 + T * (b1 - b0), a0 + T * (a1 - a0))
  BY <1>3, SameAdd
<1>5. Same(bt, b0 + T * (b1 - b0))
  BY <1>1, <1>4, SameSym, SameTrans
<1>6. QED
  BY <1>1, <1>5 DEF Along

LEMMA AlongScale ==
  ASSUME NEW T, NEW a0, NEW a1, NEW at, Along(a0, a1, at, T), NEW k \in Int
  PROVE  Along(a0 * k, a1 * k, at * k, T)
<1>1. T \in Int /\ a0 \in Int /\ a1 \in Int /\ Same(at, a0 + T * (a1 - a0)) /\ Same(k, k)
  BY SameRefl DEF Along
<1>2. Same(at * k, (a0 + T * (a1 - a0)) * k)
  BY <1>1, SameMul
<1>3. (a0 + T * (a1 - a0)) * k = a0 * k + T * (a1 * k - a0 * k)
  <2>1. a1 - a0 \in Int /\ T * (a1 - a0) \in Int
    BY <1>1
  <2>2. (a0 + T * (a1 - a0)) * k = a0 * k + (T * (a1 - a0)) * k
    BY <1>1, <2>1
  <2>3. (T * (a1 - a0)) * k = T * ((a1 - a0) * k)
    BY <1>1, <2>1
  <2>4. (a1 - a0) * k = a1 * k - a0 * k
    BY <1>1
  <2>5. QED
    BY <2>2, <2>3, <2>4
<1>4. a0 * k \in Int /\ a1 * k \in Int
  BY <1>1
<1>5. QED
  BY <1>1, <1>2, <1>3, <1>4 DEF Along

LEMMA AlongConstant == ASSUME NEW T \in Int, NEW a \in Int PROVE Along(a, a, a, T)
<1>1. a + T * (a - a) = a
  OBVIOUS
<1>2. QED
  BY <1>1, SameRefl DEF Along

VariesIn(J, v0, v1, vt, T) ==
  /\ v0 \in Seq(Int) /\ v1 \in Seq(Int) /\ vt \in Seq(Int) /\ Len(v1) = Len(v0) /\ Len(vt) = Len(v0)
  /\ \A i, j \in J : i = j
  /\ \A n \in 1..Len(v0) : Along(v0[n], v1[n], vt[n], T) /\ (n \notin J => v1[n] = v0[n] /\ vt[n] = v0[n])

LEMMA ProductAlong ==
  ASSUME NEW T \in Int, NEW J, NEW v0, NEW v1, NEW vt, VariesIn(J, v0, v1, vt, T)
  PROVE  Along(Multiply(v0), Multiply(v1), Multiply(vt), T)
<1> DEFINE N == Len(v0)
<1>17. v0 \in Seq(Int) /\ v1 \in Seq(Int) /\ vt \in Seq(Int) /\ Len(v1) = Len(v0) /\ Len(vt) = Len(v0)
  BY DEF VariesIn
<1>18. \A i, j \in J : i = j
  BY DEF VariesIn
<1>1. PICK r0 : IsProductRun(r0, v0) /\ Multiply(v0) = r0[N]
  BY <1>17, MultiplyIs
<1>2. PICK r1 : IsProductRun(r1, v1) /\ Multiply(v1) = r1[N]
  BY <1>17, MultiplyIs
<1>3. PICK rt : IsProductRun(rt, vt) /\ Multiply(vt) = rt[N]
  BY <1>17, MultiplyIs
<1>12. N \in Nat /\ N = Len(v0) /\ N = Len(v1) /\ N = Len(vt)
  BY <1>17
<1>13. (\A n \in 0..N : r0[n] \in Int) /\ r0[0] = 1 /\ (\A n \in 1..N : r0[n] = (r0[n - 1] * v0[n]) % P)
  BY <1>1, <1>12 DEF IsProductRun
<1>14. (\A n \in 0..N : r1[n] \in Int) /\ r1[0] = 1 /\ (\A n \in 1..N : r1[n] = (r1[n - 1] * v1[n]) % P)
  BY <1>2, <1>12 DEF IsProductRun
<1>15. (\A n \in 0..N : rt[n] \in Int) /\ rt[0] = 1 /\ (\A n \in 1..N : rt[n] = (rt[n - 1] * vt[n]) % P)
  BY <1>3, <1>12 DEF IsProductRun
<1>16. \A n \in 1..N : Along(v0[n], v1[n], vt[n], T) /\ (n \notin J => v1[n] = v0[n] /\ vt[n] = v0[n])
  BY DEF VariesIn
<1>5. \A n \in 1..N : v0[n] \in Int /\ v1[n] \in Int /\ vt[n] \in Int
  BY <1>17
<1> HIDE DEF N
<1> DEFINE Tn == {n \in 0..N : /\ Along(r0[n], r1[n], rt[n], T)
                              /\ (J \cap (1..n) = {} => r1[n] = r0[n] /\ rt[n] = r0[n])}
<1>6. 0 \in Tn
  <2>1. Along(1, 1, 1, T) /\ 0 \in 0..N
    BY <1>12, AlongConstant
  <2>2. QED
    BY <1>13, <1>14, <1>15, <2>1
<1>7. ASSUME NEW n \in 1..N, n - 1 \in Tn PROVE n \in Tn
  <2>1. n - 1 \in 0..N /\ n \in 0..N /\ n \in Int /\ n \in 1..n /\ 1..n - 1 \subseteq 1..n /\ \A i \in 1..n : i = n \/ i \in 1..n - 1
    BY <1>12
  <2>2. Along(r0[n - 1], r1[n - 1], rt[n - 1], T) /\ r0[n - 1] \in Int /\ r1[n - 1] \in Int /\ rt[n - 1] \in Int
    BY <1>7, <1>13, <1>14, <1>15, <2>1
  <2>8. J \cap (1..n - 1) = {} => r1[n - 1] = r0[n - 1] /\ rt[n - 1] = r0[n - 1]
    BY <1>7
  <2>9. r0[n] = (r0[n - 1] * v0[n]) % P /\ r1[n] = (r1[n - 1] * v1[n]) % P /\ rt[n] = (rt[n - 1] * vt[n]) % P
    BY <1>13, <1>14, <1>15
  <2>3. v0[n] \in Int /\ v1[n] \in Int /\ vt[n] \in Int
    BY <1>5
  <2>4. /\ Same(r0[n], r0[n - 1] * v0[n]) /\ Same(r1[n], r1[n - 1] * v1[n]) /\ Same(rt[n], rt[n - 1] * vt[n])
    <3>1. r0[n - 1] * v0[n] \in Int /\ r1[n - 1] * v1[n] \in Int /\ rt[n - 1] * vt[n] \in Int
      <4>1. \A a, b \in Int : a * b \in Int
        OBVIOUS
      <4>2. QED
        BY <2>2, <2>3, <4>1
    <3>2. QED
      BY <2>9, <3>1, SameMod
  <2>5. CASE n \in J
    <3>1. J \cap (1..n - 1) = {}
      <4>1. n \notin 1..n - 1
        BY <2>1
      <4>2. QED
        BY <1>18, <2>5, <4>1
    <3>2. r1[n - 1] = r0[n - 1] /\ rt[n - 1] = r0[n - 1]
      BY <2>8, <3>1
    <3>3. Along(v0[n] * r0[n - 1], v1[n] * r0[n - 1], vt[n] * r0[n - 1], T)
      BY <1>16, <2>2, AlongScale
    <3>4. v0[n] * r0[n - 1] = r0[n - 1] * v0[n] /\ v1[n] * r0[n - 1] = r0[n - 1] * v1[n] /\ vt[n] * r0[n - 1] = r0[n - 1] * vt[n]
      BY <2>2, <2>3
    <3>5. Along(r0[n], r1[n], rt[n], T)
      BY <2>4, <3>2, <3>3, <3>4, AlongSame
    <3>6. n \in J \cap (1..n)
      BY <2>1, <2>5
    <3>7. QED
      BY <2>1, <3>5, <3>6
  <2>6. CASE n \notin J
    <3>1. v1[n] = v0[n] /\ vt[n] = v0[n]
      BY <1>16, <2>6
    <3>2. Along(r0[n - 1] * v0[n], r1[n - 1] * v0[n], rt[n - 1] * v0[n], T)
      BY <2>2, <2>3, AlongScale
    <3>3. Along(r0[n], r1[n], rt[n], T)
      BY <2>4, <3>1, <3>2, AlongSame
    <3>4. J \cap (1..n) = {} => r1[n] = r0[n] /\ rt[n] = r0[n]
      <4>1. J \cap (1..n) = {} => J \cap (1..n - 1) = {}
        BY <2>1
      <4>2. J \cap (1..n) = {} => r1[n - 1] = r0[n - 1] /\ rt[n - 1] = r0[n - 1]
        BY <2>8, <4>1
      <4>3. QED
        BY <2>9, <3>1, <4>2
    <3>5. QED
      BY <2>1, <3>3, <3>4
  <2>7. QED
    BY <2>5, <2>6
<1>8. \A n \in 0..N : n \in Tn
  <2> HIDE DEF Tn
  <2>1. QED
    BY <1>12, <1>6, <1>7, RunsUpTo
<1>9. N \in 0..N
  BY <1>12
<1>10. Along(r0[N], r1[N], rt[N], T)
  BY <1>8, <1>9
<1>11. QED
  BY <1>1, <1>2, <1>3, <1>10

LEMMA SumAlong ==
  ASSUME NEW T \in Int, NEW S, IsFiniteSet(S), NEW f0, NEW f1, NEW ft, \A x \in S : Along(f0[x], f1[x], ft[x], T)
  PROVE  Along(SumOver(f0, S), SumOver(f1, S), SumOver(ft, S), T)
<1> DEFINE n  == [x \in S |-> (-1) * f0[x]]
           d  == [x \in S |-> f1[x] + n[x]]
           td == [x \in S |-> T * d[x]]
           h  == [x \in S |-> f0[x] + td[x]]
<1>1. \A x \in S : f0[x] \in Int /\ f1[x] \in Int /\ Same(ft[x], f0[x] + T * (f1[x] - f0[x]))
  BY DEF Along
<1>2. \A x \in S : n[x] = (-1) * f0[x] /\ n[x] \in Int
  BY <1>1
<1>3. \A x \in S : d[x] = f1[x] + n[x] /\ d[x] \in Int
  BY <1>1, <1>2
<1>4. \A x \in S : td[x] = T * d[x] /\ td[x] \in Int
  BY <1>3
<1>5. \A x \in S : h[x] = f0[x] + td[x]
  OBVIOUS
<1>6. \A x \in S : d[x] = f1[x] - f0[x]
  BY <1>1, <1>2, <1>3
<1>7. \A x \in S : Same(ft[x], h[x])
  BY <1>1, <1>4, <1>5, <1>6
<1> HIDE DEF n, d, td, h
<1>8. SumOver(f0, S) \in Int /\ SumOver(f1, S) \in Int
  BY <1>1, SumIsInt
<1>9. SumOver(n, S) = (-1) * SumOver(f0, S)
  <2>1. -1 \in Int
    OBVIOUS
  <2>2. QED
    BY <1>1, <1>2, <2>1, SumScale
<1>10. SumOver(d, S) = SumOver(f1, S) + SumOver(n, S)
  BY <1>1, <1>2, <1>3, SumAdd
<1>11. SumOver(td, S) = T * SumOver(d, S)
  BY <1>3, <1>4, SumScale
<1>12. SumOver(h, S) = SumOver(f0, S) + SumOver(td, S)
  BY <1>1, <1>4, <1>5, SumAdd
<1>13. Same(SumOver(ft, S), SumOver(h, S))
  BY <1>7, SumSame
<1>14. SumOver(d, S) = SumOver(f1, S) - SumOver(f0, S)
  BY <1>8, <1>9, <1>10
<1>15. QED
  BY <1>8, <1>11, <1>12, <1>13, <1>14 DEF Along

\* A form in which only the column x varies, and an expression in which every
\* product has at most one factor with x.
OnlyAt(x, u0, u1, ut, T, C) ==
  /\ x \in DOMAIN u0 /\ DOMAIN u1 = DOMAIN u0 /\ DOMAIN ut = DOMAIN u0
  /\ u0[x] = 0 /\ u1[x] = 1 /\ ut[x] = T /\ T \in Int
  /\ \A y \in DOMAIN u0 \ {x} : u1[y] = u0[y] /\ ut[y] = u0[y]
  /\ \A y \in DOMAIN u0 \cap C : u0[y] \in Int

\* A form varies linearly in one column.
LEMMA ValueAlong ==
  ASSUME NEW C, IsFiniteSet(C), NEW l \in Forms(C), NEW x, NEW T, NEW u0, NEW u1, NEW ut, OnlyAt(x, u0, u1, ut, T, C)
  PROVE  /\ Along(Value(l, u0), Value(l, u1), Value(l, ut), T)
         /\ x \notin Columns(l) => Value(l, u1) = Value(l, u0) /\ Value(l, ut) = Value(l, u0)
<1> DEFINE S == Columns(l) \cap DOMAIN u0
           f0 == [y \in S |-> l.coef[y] * u0[y]]
           f1 == [y \in S |-> l.coef[y] * u1[y]]
           ft == [y \in S |-> l.coef[y] * ut[y]]
<1>1. /\ x \in DOMAIN u0 /\ DOMAIN u1 = DOMAIN u0 /\ DOMAIN ut = DOMAIN u0
      /\ u0[x] = 0 /\ u1[x] = 1 /\ ut[x] = T /\ T \in Int
      /\ \A y \in DOMAIN u0 \ {x} : u1[y] = u0[y] /\ ut[y] = u0[y]
      /\ \A y \in DOMAIN u0 \cap C : u0[y] \in Int
  BY DEF OnlyAt
<1>2. l.const \in Int /\ Columns(l) \subseteq C /\ S \in SUBSET C /\ \A y \in S : l.coef[y] \in Int /\ u0[y] \in Int
  BY <1>1, FormIs
<1>3. IsFiniteSet(S)
  BY <1>2, FS_Subset
<1>4. Value(l, u0) = l.const + SumOver(f0, S) /\ Value(l, u1) = l.const + SumOver(f1, S) /\ Value(l, ut) = l.const + SumOver(ft, S)
  <2>1. [y \in S |-> f0[y]] = f0 /\ [y \in S |-> f1[y]] = f1 /\ [y \in S |-> ft[y]] = ft
    OBVIOUS
  <2>2. QED
    BY <1>1, <2>1 DEF Value, SumOver
<1>5. \A y \in S : f0[y] = l.coef[y] * u0[y] /\ f1[y] = l.coef[y] * u1[y] /\ ft[y] = l.coef[y] * ut[y]
  OBVIOUS
<1>6. \A y \in S : y \in Columns(l) /\ y \in DOMAIN u0
  OBVIOUS
<1> HIDE DEF S, f0, f1, ft
<1>7. ASSUME NEW y \in S PROVE Along(f0[y], f1[y], ft[y], T)
  <2>1. l.coef[y] \in Int /\ u0[y] \in Int
    BY <1>2
  <2>2. CASE y = x
    <3>1. f0[y] = 0 /\ f1[y] = l.coef[y] /\ ft[y] = l.coef[y] * T
      BY <1>1, <1>5, <2>1, <2>2
    <3>2. 0 + T * (l.coef[y] - 0) = l.coef[y] * T /\ l.coef[y] * T \in Int
      BY <1>1, <2>1
    <3>3. Same(l.coef[y] * T, 0 + T * (l.coef[y] - 0))
      BY <3>2, SameRefl
    <3>4. QED
      BY <1>1, <2>1, <3>1, <3>3 DEF Along
  <2>3. CASE y # x
    <3>1. u1[y] = u0[y] /\ ut[y] = u0[y] /\ l.coef[y] * u0[y] \in Int
      BY <1>1, <1>6, <2>1, <2>3
    <3>2. f0[y] = l.coef[y] * u0[y] /\ f1[y] = f0[y] /\ ft[y] = f0[y] /\ f0[y] \in Int
      BY <1>5, <3>1
    <3>3. Along(f0[y], f0[y], f0[y], T)
      BY <1>1, <3>2, AlongConstant
    <3>4. QED
      BY <3>2, <3>3
  <2>4. QED
    BY <2>2, <2>3
<1>8. Along(SumOver(f0, S), SumOver(f1, S), SumOver(ft, S), T)
  BY <1>1, <1>3, <1>7, SumAlong
<1>9. Along(Value(l, u0), Value(l, u1), Value(l, ut), T)
  <2> DEFINE s0 == SumOver(f0, S)
             s1 == SumOver(f1, S)
             st == SumOver(ft, S)
  <2>1. s0 \in Int /\ s1 \in Int /\ T \in Int /\ Same(st, s0 + T * (s1 - s0))
    BY <1>8 DEF Along
  <2> HIDE DEF s0, s1, st
  <2>2. Same(l.const + st, l.const + (s0 + T * (s1 - s0)))
    BY <1>2, <2>1, SameRefl, SameAdd
  <2>3. (l.const + s1) - (l.const + s0) = s1 - s0
    BY <1>2, <2>1
  <2>4. l.const + (s0 + T * (s1 - s0)) = (l.const + s0) + T * ((l.const + s1) - (l.const + s0))
    <3>1. T * (s1 - s0) \in Int
      BY <2>1
    <3>2. QED
      BY <1>2, <2>1, <2>3, <3>1
  <2>5. QED
    BY <1>2, <1>4, <2>1, <2>2, <2>4 DEF Along, s0, s1, st
<1>10. ASSUME x \notin Columns(l) PROVE Value(l, u1) = Value(l, u0) /\ Value(l, ut) = Value(l, u0)
  <2>1. \A y \in S : f1[y] = f0[y] /\ ft[y] = f0[y]
    BY <1>1, <1>5, <1>6, <1>10
  <2>2. SumOver(f1, S) = SumOver(f0, S) /\ SumOver(ft, S) = SumOver(f0, S)
    BY <2>1, SumEqual
  <2>3. QED
    BY <1>4, <2>2
<1>11. QED
  BY <1>9, <1>10

\* So does an expression that has it in at most one factor of each product.
LEMMA EvalAlong ==
  ASSUME PrimeField, NEW C, IsFiniteSet(C), NEW e \in Exprs(C), NEW x, NEW T, NEW u0, NEW u1, NEW ut, OnlyAt(x, u0, u1, ut, T, C),
         \A i \in DOMAIN e : OneFactorWith(x, e[i])
  PROVE  Along(Eval(e, u0), Eval(e, u1), Eval(e, ut), T)
<1>1. \A y \in DOMAIN u0 \cap C : u0[y] \in Int /\ u1[y] \in Int /\ ut[y] \in Int
  BY DEF OnlyAt
<1>2. AllValued(e, u0) /\ AllValued(e, u1) /\ AllValued(e, ut)
  <2>1. DOMAIN u1 = DOMAIN u0 /\ DOMAIN ut = DOMAIN u0
    BY DEF OnlyAt
  <2>2. (\A y \in C \cap DOMAIN u0 : u0[y] \in Int) /\ (\A y \in C \cap DOMAIN u1 : u1[y] \in Int) /\ (\A y \in C \cap DOMAIN ut : ut[y] \in Int)
    BY <1>1, <2>1
  <2>3. QED
    BY <2>2, ExprValued
<1>3. T \in Int
  BY DEF OnlyAt
<1>4. ASSUME NEW i \in DOMAIN e PROVE Along(EvalProduct(e[i], u0), EvalProduct(e[i], u1), EvalProduct(e[i], ut), T)
  <2> DEFINE p == e[i]
             J == {j \in DOMAIN p : x \in Columns(p[j])}
             v0 == ValuesOn(p, u0)
             v1 == ValuesOn(p, u1)
             vt == ValuesOn(p, ut)
  <2>1. p \in Seq(Forms(C)) /\ DOMAIN p = 1..Len(p) /\ \A j \in DOMAIN p : p[j] \in Forms(C)
    BY ExprIs
  <2>2. Valued(p, u0) /\ Valued(p, u1) /\ Valued(p, ut)
    BY <1>2 DEF AllValued
  <2>3. \A j, k \in J : j = k
    BY DEF OneFactorWith
  <2> HIDE DEF p
  <2>4. v0 \in Seq(Int) /\ Len(v0) = Len(p) /\ (\A n \in DOMAIN p : v0[n] = Value(p[n], u0)) /\ EvalProduct(p, u0) = Multiply(v0)
    BY <2>1, <2>2, ProductIs
  <2>5. v1 \in Seq(Int) /\ Len(v1) = Len(p) /\ (\A n \in DOMAIN p : v1[n] = Value(p[n], u1)) /\ EvalProduct(p, u1) = Multiply(v1)
    BY <2>1, <2>2, ProductIs
  <2>6. vt \in Seq(Int) /\ Len(vt) = Len(p) /\ (\A n \in DOMAIN p : vt[n] = Value(p[n], ut)) /\ EvalProduct(p, ut) = Multiply(vt)
    BY <2>1, <2>2, ProductIs
  <2> HIDE DEF v0, v1, vt
  <2>7. ASSUME NEW n \in 1..Len(v0) PROVE Along(v0[n], v1[n], vt[n], T) /\ (n \notin J => v1[n] = v0[n] /\ vt[n] = v0[n])
    <3>1. n \in DOMAIN p /\ p[n] \in Forms(C)
      BY <2>1, <2>4
    <3>2. v0[n] = Value(p[n], u0) /\ v1[n] = Value(p[n], u1) /\ vt[n] = Value(p[n], ut)
      BY <2>4, <2>5, <2>6, <3>1
    <3>3. Along(Value(p[n], u0), Value(p[n], u1), Value(p[n], ut), T)
          /\ (x \notin Columns(p[n]) => Value(p[n], u1) = Value(p[n], u0) /\ Value(p[n], ut) = Value(p[n], u0))
      BY <3>1, ValueAlong
    <3>4. n \notin J => x \notin Columns(p[n])
      BY <3>1
    <3>5. QED
      BY <3>2, <3>3, <3>4
  <2> HIDE DEF J
  <2>10. (\A n \in 1..Len(v0) : n \notin J => v1[n] = v0[n] /\ vt[n] = v0[n]) /\ Len(v1) = Len(v0) /\ Len(vt) = Len(v0)
    BY <2>4, <2>5, <2>6, <2>7
  <2>11. \A n \in 1..Len(v0) : Along(v0[n], v1[n], vt[n], T)
    BY <2>7
  <2>12. v0 \in Seq(Int) /\ v1 \in Seq(Int) /\ vt \in Seq(Int)
    BY <2>4, <2>5, <2>6
  <2>8. Along(Multiply(v0), Multiply(v1), Multiply(vt), T)
    <3>1. VariesIn(J, v0, v1, vt, T)
      BY <2>3, <2>10, <2>11, <2>12 DEF VariesIn
    <3>2. QED
      BY <1>3, <3>1, ProductAlong
  <2>9. QED
    BY <2>4, <2>5, <2>6, <2>8 DEF p
<1> DEFINE S == DOMAIN e
           f0 == ProductsOn(e, u0)
           f1 == ProductsOn(e, u1)
           ft == ProductsOn(e, ut)
<1>5. (\A i \in S : f0[i] = EvalProduct(e[i], u0)) /\ Same(Eval(e, u0), SumOver(f0, S))
  BY <1>2, EvalIs
<1>6. (\A i \in S : f1[i] = EvalProduct(e[i], u1)) /\ Same(Eval(e, u1), SumOver(f1, S))
  BY <1>2, EvalIs
<1>7. (\A i \in S : ft[i] = EvalProduct(e[i], ut)) /\ Same(Eval(e, ut), SumOver(ft, S))
  BY <1>2, EvalIs
<1>8. IsFiniteSet(S)
  BY ExprIs
<1> HIDE DEF f0, f1, ft, S
<1>9. Along(SumOver(f0, S), SumOver(f1, S), SumOver(ft, S), T)
  <2>1. \A i \in S : Along(f0[i], f1[i], ft[i], T)
    BY <1>4, <1>5, <1>6, <1>7 DEF S
  <2>2. QED
    BY <1>3, <1>8, <2>1, SumAlong
<1>10. QED
  BY <1>5, <1>6, <1>7, <1>9, AlongSame

-----------------------------------------------------------------------------
VisitsWithin(r, U, X) == \A A \in SUBSET U : r[A] \in X

\* Recursion over subsets stays within a set that its steps stay in.
LEMMA VisitsStay ==
  ASSUME NEW U, IsFiniteSet(U), NEW X, NEW start \in X, NEW G \in [U -> [X -> X]]
  PROVE  \E r : IsVisit(r, U, start, G) /\ VisitsWithin(r, U, X)
<1>1. PICK r : IsVisit(r, U, start, G) /\ r[U] \in X
  BY VisitsExist
<1>2. r = [A \in SUBSET U |-> IF A = {} THEN start ELSE LET a == CHOOSE x \in A : TRUE IN G[a][r[A \ {a}]]]
  BY <1>1 DEF IsVisit
<1> DEFINE Bad == {A \in SUBSET U : r[A] \notin X}
<1>3. SUFFICES ASSUME Bad # {} PROVE FALSE
  <2>1. Bad = {} => VisitsWithin(r, U, X)
    BY DEF VisitsWithin
  <2>2. QED
    BY <1>1, <2>1
<1>4. PICK A \in Bad : \A x \in A : A \ {x} \notin Bad
  <2>1. Bad \subseteq SUBSET U
    OBVIOUS
  <2> HIDE DEF Bad
  <2>2. QED
    BY <1>3, <2>1, SmallestSet
<1>5. A # {}
  BY <1>2
<1> DEFINE a == CHOOSE x \in A : TRUE
<1>6. a \in A
  BY <1>5
<1>7. r[A] = G[a][r[A \ {a}]]
  BY <1>2, <1>5
<1> HIDE DEF a
<1>8. r[A \ {a}] \in X /\ a \in U
  BY <1>4, <1>6
<1>9. G[a][r[A \ {a}]] \in X
  BY <1>8
<1>10. QED
  BY <1>7, <1>9

-----------------------------------------------------------------------------
\* The values of the flags of an access and its load column: in every product
OwnFlags(flags, w) == [y \in flags |-> w[y]]
Like(u, w) == \A y \in DOMAIN u : y \in DOMAIN w /\ Same(u[y], w[y])

\* The true values of the flags are among those enumerated.
LEMMA OwnFlagsIn ==
  ASSUME NEW w, InField(w), NEW b \in TrueBounds(w), NEW flags, flags \subseteq DOMAIN w, HasDomain(b, flags)
  PROVE  OwnFlags(flags, w) \in FlagValues(b, flags)
<1> DEFINE f == OwnFlags(flags, w)
           V == UNION {0..b[x].hi - 1 : x \in flags}
<1>1. f = [y \in flags |-> w[y]]
  BY DEF OwnFlags
<1>2. \A y \in flags : f[y] < b[y].hi /\ f[y] \in 0..b[y].hi - 1
  <2>1. SUFFICES ASSUME NEW y \in flags PROVE w[y] < b[y].hi /\ w[y] \in 0..b[y].hi - 1
    BY <1>1
  <2>2. y \in DOMAIN b
    BY DEF HasDomain
  <2>3. b[y].hi \in Int /\ w[y] < b[y].hi /\ w[y] \in 0..P - 1
    BY <2>2, BoundsAre DEF InField
  <2>4. QED
    BY <2>3, PrimeIsInt
<1> HIDE DEF f
<1>3. f \in [flags -> V]
  BY <1>1, <1>2
<1>4. QED
  BY <1>2, <1>3 DEF FlagValues, f

\* Assignments that are like the true one, joined.
LEMMA JoinedLike ==
  ASSUME NEW w, NEW f, NEW g, Like(f, w), Like(g, w) PROVE Like(Joined(f, g), w) /\ DOMAIN Joined(f, g) = DOMAIN f \cup DOMAIN g
<1> DEFINE j == Joined(f, g)
<1>1. /\ DOMAIN j = DOMAIN f \cup DOMAIN g
      /\ \A x \in DOMAIN f : j[x] = f[x]
      /\ \A x \in DOMAIN g \ DOMAIN f : j[x] = g[x]
  BY JoinedIs
<1>2. (\A y \in DOMAIN f : y \in DOMAIN w /\ Same(f[y], w[y])) /\ (\A y \in DOMAIN g : y \in DOMAIN w /\ Same(g[y], w[y]))
  BY DEF Like
<1> HIDE DEF j
<1>3. \A y \in DOMAIN j : y \in DOMAIN w /\ Same(j[y], w[y])
  BY <1>1, <1>2
<1>4. QED
  BY <1>1, <1>3 DEF Like, j

LEMMA JustLike ==
  ASSUME NEW w, NEW x \in DOMAIN w, w[x] \in Int PROVE Like(Just(x, w[x]), w) /\ DOMAIN Just(x, w[x]) = {x}
<1> DEFINE j == Just(x, w[x])
<1>1. DOMAIN j = {x} /\ j[x] = w[x]
  BY JustIs
<1>2. Same(w[x], w[x])
  BY SameRefl
<1> HIDE DEF j
<1>3. \A y \in DOMAIN j : y \in DOMAIN w /\ Same(j[y], w[y])
  BY <1>1, <1>2
<1>4. QED
  BY <1>1, <1>3 DEF Like, j

\* The true flags and the pins, as one assignment.
LEMMA EnvLike ==
  ASSUME NEW w, InField(w), NEW pins \in Pinnings(w), NEW flags, flags \subseteq DOMAIN w
  PROVE  /\ Like(Joined(OwnFlags(flags, w), pins), w)
         /\ DOMAIN Joined(OwnFlags(flags, w), pins) = flags \cup DOMAIN pins
<1>1. DOMAIN OwnFlags(flags, w) = flags /\ \A y \in flags : OwnFlags(flags, w)[y] = w[y] /\ y \in DOMAIN w
  BY DEF OwnFlags
<1>2. \A y \in flags : w[y] \in Int
  BY DEF InField
<1>3. Like(OwnFlags(flags, w), w)
  BY <1>1, <1>2, SameRefl DEF Like
<1>4. Like(pins, w)
  BY PinningIs DEF Like
<1> DEFINE f == OwnFlags(flags, w)
<1>5. DOMAIN f = flags /\ Like(f, w)
  BY <1>1, <1>3
<1> HIDE DEF f
<1>6. Like(Joined(f, pins), w) /\ DOMAIN Joined(f, pins) = DOMAIN f \cup DOMAIN pins
  BY <1>4, <1>5, JoinedLike
<1>7. QED
  BY <1>5, <1>6 DEF f

\* It evaluates what reads only its columns.
LEMMA EvalLike ==
  ASSUME NEW c, NEW w, Assigned(c, w), NEW e \in Exprs(Cols(c)), NEW u, Like(u, w), Names(e) \subseteq DOMAIN u
  PROVE  Eval(e, u) = Eval(e, w)
<1>1. PrimeField /\ IsFiniteSet(Cols(c))
  BY AssignedIs
<1>2. \A x \in Names(e) : x \in DOMAIN u /\ x \in DOMAIN w /\ Same(u[x], w[x])
  BY DEF Like
<1>3. QED
  BY <1>1, <1>2, EvalCongruent

\* The constraint that gives a load.
LEMMA LinearPartIs ==
  ASSUME PrimeField, NEW C, NEW e \in Exprs(C), NEW x, Coef(LinearPart(e), x) # 0 PROVE x \in Names(e)
<1> DEFINE d == [n \in DOMAIN e |-> IF IsLinear(<<e[n]>>) THEN e[n] ELSE <<Num(0)>>]
<1>1. Len(e) \in Nat /\ DOMAIN e = 1..Len(e) /\ \A n \in DOMAIN e : e[n] \in Seq(Forms(C)) /\ DOMAIN e[n] = 1..Len(e[n])
  BY ExprIs
<1>2. Num(0) \in Forms(C) /\ Columns(Num(0)) = {}
  BY NumValue
<1>3. <<Num(0)>> \in Seq(Forms(C))
  BY <1>2
<1>4. DOMAIN d = 1..Len(e) /\ \A n \in 1..Len(e) : (d[n] = e[n] \/ d[n] = <<Num(0)>>) /\ d[n] \in Seq(Forms(C))
  BY <1>1, <1>3
<1>5. d = [n \in 1..Len(e) |-> d[n]]
  BY <1>1
<1>6. LinearPart(e) = Linear(d)
  BY DEF LinearPart
<1> HIDE DEF d
<1>7. d \in Exprs(C)
  BY <1>1, <1>4, <1>5 DEF Exprs
<1>8. x \in Columns(Linear(d))
  BY <1>6 DEF Coef
<1>9. x \in Names(d)
  BY <1>7, <1>8, LinearIs
<1>9a. PICK f \in Factors(d) : x \in Columns(f)
  BY <1>9 DEF Names
<1>10. PICK n \in DOMAIN d : f \in ToSet(d[n])
  BY DEF Factors
<1>11. CASE d[n] = e[n]
  <2>1. f \in Factors(e)
    BY <1>1, <1>4, <1>10, <1>11 DEF Factors
  <2>2. QED
    BY <1>9a, <2>1 DEF Names
<1>12. CASE d[n] = <<Num(0)>>
  <2>1. ToSet(<<Num(0)>>) = {Num(0)}
    BY DEF ToSet
  <2>2. QED
    BY <1>2, <1>9a, <1>10, <1>12, <2>1
<1>13. QED
  BY <1>4, <1>10, <1>11, <1>12

LEMMA EarliestIn == ASSUME NEW N, N \subseteq Nat PROVE Earliest(N) \subseteq N
<1>1. CASE N = {}
  BY <1>1 DEF Earliest
<1>2. CASE N # {}
  <2>1. \E n \in N : \A m \in N : n <= m
    BY <1>2, SmallestNumber
  <2>2. Min(N) \in N
    BY <2>1 DEF Min
  <2>3. QED
    BY <1>2, <2>2 DEF Earliest
<1>3. QED
  BY <1>1, <1>2

LEMMA MuxIs ==
  ASSUME NEW c, NEW w, Assigned(c, w), NEW x, NEW e \in Mux(c, x) PROVE e \in Constraints(c) /\ x \in Names(e)
<1> DEFINE N == FirstOf(Decodes(c, x, 1), Decodes(c, x, -1))
<1>1. Len(c.cons) \in Nat /\ DOMAIN c.cons = 1..Len(c.cons) /\ \A n \in DOMAIN c.cons : c.cons[n] \in Constraints(c)
  BY AssignedIs, CircuitIs
<1>2. \A n \in N : n \in DOMAIN c.cons /\ Coef(LinearPart(c.cons[n]), x) # 0
  <2>1. N = Decodes(c, x, 1) \/ N = Decodes(c, x, -1)
    BY DEF FirstOf
  <2> HIDE DEF N
  <2>2. QED
    BY <2>1 DEF Decodes
<1>3. PICK n \in Earliest(N) : e = c.cons[n]
  BY DEF Mux
<1> HIDE DEF N
<1>4. N \subseteq Nat
  BY <1>1, <1>2
<1>5. n \in N
  BY <1>3, <1>4, EarliestIn
<1>6. e \in Constraints(c) /\ Coef(LinearPart(e), x) # 0
  BY <1>1, <1>2, <1>3, <1>5
<1>7. e \in Exprs(Cols(c)) /\ PrimeField
  BY <1>6, ConstraintHolds, AssignedIs
<1>8. QED
  BY <1>6, <1>7, LinearPartIs

\* The constraints that decide an access hold.
LEMMA DecidingHolds ==
  ASSUME NEW c, NEW w, Assigned(c, w), NEW x, NEW flags, flags # {}, NEW e \in Deciding(c, x, flags)
  PROVE  e \in Constraints(c) /\ e \in Exprs(Cols(c)) /\ Eval(e, w) = 0
<1>1. e \in Constraints(c) /\ Names(e) # {}
  <2>1. CASE e \in Mux(c, x)
    BY <2>1, MuxIs
  <2>2. CASE e \notin Mux(c, x)
    BY <2>2 DEF Deciding
  <2>3. QED
    BY <2>1, <2>2
<1>2. QED
  BY <1>1, ConstraintHolds

\* What the constraint gives is the value of the load.
LEMMA SolvedTrue ==
  ASSUME NEW c, NEW w, Assigned(c, w), NEW e \in Exprs(Cols(c)), Eval(e, w) = 0, NEW f, Like(f, w), NEW x \in Cols(c),
         Names(e) \subseteq DOMAIN f \cup {x}, \A i \in DOMAIN e : OneFactorWith(x, e[i]), SolvedFor(e, f, x) # {}
  PROVE  w[x] \in SolvedFor(e, f, x)
<1> DEFINE u0 == Joined(f, Just(x, 0))
           u1 == Joined(f, Just(x, 1))
           ut == Joined(f, Just(x, w[x]))
           m0 == Eval(e, u0)
           k  == (Eval(e, u1) - m0) % P
<1>1. SolvedFor(e, f, x) = IF k = 0 THEN {} ELSE {(-m0 * InverseOf(k)) % P}
  BY DEF SolvedFor
<1>2. k # 0
  BY <1>1
<1>3. PrimeField /\ IsFiniteSet(Cols(c)) /\ w[x] \in 0..P - 1 /\ w[x] \in Int /\ x \in DOMAIN w
  BY AssignedIs
<1>4. \A v : /\ DOMAIN Joined(f, Just(x, v)) = DOMAIN f \cup {x}
             /\ \A y \in DOMAIN f : Joined(f, Just(x, v))[y] = f[y]
             /\ x \notin DOMAIN f => Joined(f, Just(x, v))[x] = v
  <2>1. SUFFICES ASSUME NEW v
                 PROVE  /\ DOMAIN Joined(f, Just(x, v)) = DOMAIN f \cup {x}
                        /\ \A y \in DOMAIN f : Joined(f, Just(x, v))[y] = f[y]
                        /\ x \notin DOMAIN f => Joined(f, Just(x, v))[x] = v
    OBVIOUS
  <2> DEFINE g == Just(x, v)
  <2>2. DOMAIN g = {x} /\ g[x] = v
    BY JustIs
  <2> HIDE DEF g
  <2>3. /\ DOMAIN Joined(f, g) = DOMAIN f \cup DOMAIN g
        /\ \A y \in DOMAIN f : Joined(f, g)[y] = f[y]
        /\ \A y \in DOMAIN g \ DOMAIN f : Joined(f, g)[y] = g[y]
    BY JoinedIs
  <2>4. QED
    BY <2>2, <2>3 DEF g
<1>5. \A y \in DOMAIN f : f[y] \in Int
  BY DEF Like, Same
<1>6. AllValued(e, u0) /\ AllValued(e, u1)
  <2>1. \A v \in {0, 1} : \A y \in Cols(c) \cap DOMAIN Joined(f, Just(x, v)) : Joined(f, Just(x, v))[y] \in Int
    <3>1. SUFFICES ASSUME NEW v \in {0, 1}, NEW y \in DOMAIN f \cup {x} PROVE Joined(f, Just(x, v))[y] \in Int
      BY <1>4
    <3>2. QED
      BY <1>4, <1>5
  <2>2. QED
    BY <1>3, <2>1, ExprValued
<1>7. m0 \in 0..P - 1 /\ Eval(e, u1) \in 0..P - 1
  BY <1>3, <1>6, EvalIs
<1>8. x \notin DOMAIN f
  <2>1. SUFFICES ASSUME x \in DOMAIN f PROVE FALSE
    OBVIOUS
  <2>2. u0 = u1
    <3>1. DOMAIN f \cup {x} = DOMAIN f
      BY <2>1
    <3>2. \A v : Joined(f, Just(x, v)) = [y \in DOMAIN f |-> f[y]]
      <4>1. SUFFICES ASSUME NEW v PROVE Joined(f, Just(x, v)) = [y \in DOMAIN f |-> f[y]]
        OBVIOUS
      <4>2. Joined(f, Just(x, v)) = [y \in DOMAIN f \cup DOMAIN Just(x, v) |-> IF y \in DOMAIN f THEN f[y] ELSE Just(x, v)[y]]
        BY JoinedFunction
      <4>3. DOMAIN Just(x, v) = {x}
        BY JustIs
      <4>4. QED
        BY <3>1, <4>2, <4>3
    <3>3. QED
      BY <3>2
  <2>3. k = 0 % P
    <3>1. Eval(e, u1) - m0 = 0
      BY <1>7, <2>2
    <3>2. QED
      BY <3>1
  <2>4. QED
    BY <1>2, <2>3, PrimeIsInt
<1>9. OnlyAt(x, u0, u1, ut, w[x], Cols(c))
  <2>1. DOMAIN u0 = DOMAIN f \cup {x} /\ DOMAIN u1 = DOMAIN f \cup {x} /\ DOMAIN ut = DOMAIN f \cup {x}
    BY <1>4
  <2>2. u0[x] = 0 /\ u1[x] = 1 /\ ut[x] = w[x]
    BY <1>4, <1>8
  <2>3. \A y \in DOMAIN f : u0[y] = f[y] /\ u1[y] = f[y] /\ ut[y] = f[y]
    BY <1>4
  <2> HIDE DEF u0, u1, ut
  <2>4. \A y \in DOMAIN f \cup {x} : u0[y] \in Int
    BY <1>5, <2>2, <2>3
  <2>5. QED
    BY <1>3, <2>1, <2>2, <2>3, <2>4 DEF OnlyAt
<1>10. Along(m0, Eval(e, u1), Eval(e, ut), w[x])
  BY <1>3, <1>9, EvalAlong
<1>11. Eval(e, ut) = 0
  <2>1. Like(Just(x, w[x]), w)
    BY <1>3, JustLike
  <2>2. Like(ut, w) /\ DOMAIN ut = DOMAIN f \cup {x}
    BY <1>4, <2>1, JoinedLike
  <2>3. Eval(e, ut) = Eval(e, w)
    BY <2>2, EvalLike
  <2>4. QED
    BY <2>3
<1> DEFINE e1 == Eval(e, u1)
           T == w[x]
<1> HIDE DEF u0, u1, ut, m0, e1, T
<1>12. Same(0, m0 + T * (e1 - m0)) /\ m0 \in Int /\ e1 \in Int /\ T \in Int /\ T \in 0..P - 1
  BY <1>3, <1>10, <1>11 DEF Along, e1, T
<1>13. k \in 0..P - 1 /\ k \in Int /\ Same(k, e1 - m0) /\ ~Same(k, 0)
  <2>1. e1 - m0 \in Int /\ k = (e1 - m0) % P
    BY <1>12 DEF e1
  <2>2. k \in 0..P - 1 /\ Same(k, e1 - m0)
    BY <2>1, Remainder, SameMod
  <2> HIDE DEF k
  <2>3. k \in Int
    BY <2>2
  <2>4. 0 \in 0..P - 1
    BY PrimeIsInt
  <2>5. ~Same(k, 0)
    BY <1>2, <2>2, <2>4, SameInField
  <2>6. QED
    BY <2>2, <2>3, <2>5
<1> HIDE DEF k
<1>14. Same(k * T, -m0)
  <2>1. Same(T * k, T * (e1 - m0))
    BY <1>12, <1>13, SameRefl, SameMul
  <2>2. Same((m0 + T * (e1 - m0)) + (-m0), 0 + (-m0))
    <3>1. -m0 \in Int
      BY <1>12
    <3>2. QED
      BY <1>12, <3>1, SameRefl, SameSym, SameAdd
  <2>3. T * (e1 - m0) \in Int
    BY <1>12
  <2>4. (m0 + T * (e1 - m0)) + (-m0) = T * (e1 - m0) /\ 0 + (-m0) = -m0
    BY <1>12, <2>3
  <2>5. T * k = k * T
    BY <1>12, <1>13
  <2>6. QED
    BY <2>1, <2>2, <2>4, <2>5, SameTrans
<1>15. Same(T, (-m0) * InverseOf(k))
  <2>1. -m0 \in Int
    BY <1>12
  <2>2. QED
    BY <1>3, <1>12, <1>13, <1>14, <2>1, Divide
<1>16. -m0 * InverseOf(k) = (-m0) * InverseOf(k) /\ -m0 * InverseOf(k) \in Int
  <2>1. InverseOf(k) \in Int
    BY <1>3, <1>13, InverseWorks
  <2>2. QED
    BY <1>12, <2>1
<1>17. T = (-m0 * InverseOf(k)) % P
  <2>1. (-m0 * InverseOf(k)) % P \in 0..P - 1 /\ Same(-m0 * InverseOf(k), (-m0 * InverseOf(k)) % P)
    BY <1>16, Remainder, SameMod
  <2>2. Same(T, (-m0 * InverseOf(k)) % P)
    BY <1>15, <1>16, <2>1, SameTrans
  <2>3. QED
    BY <1>12, <2>1, <2>2, SameInField
<1>18. QED
  BY <1>1, <1>2, <1>17 DEF T

\* The true value of is_load is among those that some flags give it.
LEMMA LoadValuesTrue ==
  ASSUME NEW c, NEW w, Assigned(c, w), LoadIsLinear(c), NEW b \in TrueBounds(w), NEW pins \in Pinnings(w), NEW a \in DOMAIN c.load,
         HasDomain(b, c.flags[a]), LoadValues(c, b, pins, c.load[a], c.flags[a]) # {}
  PROVE  w[c.load[a]] \in LoadValues(c, b, pins, c.load[a], c.flags[a]) /\ c.load[a] \in Cols(c)
<1> DEFINE x == c.load[a]
           flags == c.flags[a]
           D == Deciding(c, x, flags)
           mux == Mux(c, x)
           envs == {Joined(f, pins) : f \in FlagValues(b, flags)}
           cols == flags \cup {x} \cup DOMAIN pins
           at(f) == UNION {SolvedFor(e, f, x) : e \in mux}
           f == Joined(OwnFlags(flags, w), pins)
           u == Joined(f, Just(x, w[x]))
<1>1. x \in Cols(c) /\ flags \subseteq Cols(c) /\ DOMAIN w = Cols(c) /\ InField(w) /\ PrimeField
  BY AssignedIs, AssignedInField DEF IsCircuit, Cols
<1>2. LoadValues(c, b, pins, x, flags) = LoadValuesIn(D, mux, envs, x, cols)
  BY DEF LoadValues
<1>3. /\ mux # {} /\ Covered(D, cols) /\ \A g \in envs : at(g) # {}
      /\ LoadValuesIn(D, mux, envs, x, cols) = UNION {{v \in at(g) : Satisfies(Joined(g, Just(x, v)), D)} : g \in envs}
  BY <1>2 DEF LoadValuesIn
<1>4. f \in envs
  BY <1>1, OwnFlagsIn
<1>5. Like(f, w) /\ DOMAIN f = flags \cup DOMAIN pins
  BY <1>1, EnvLike
<1>6. Like(u, w) /\ DOMAIN u = cols
  <2>1. Like(Just(x, w[x]), w) /\ DOMAIN Just(x, w[x]) = {x}
    <3>1. w[x] \in Int
      BY <1>1 DEF InField
    <3>2. QED
      BY <1>1, <3>1, JustLike
  <2> HIDE DEF f
  <2>2. QED
    BY <1>5, <2>1, JoinedLike
<1> HIDE DEF f, u
<1>7. flags # {}
  BY DEF HasDomain
<1>8. \A e \in D : e \in Exprs(Cols(c)) /\ Eval(e, w) = 0 /\ Names(e) \subseteq cols
  <2>1. \A e \in D : Names(e) \subseteq cols
    BY <1>3 DEF Covered
  <2>2. QED
    BY <1>7, <2>1, DecidingHolds
<1>9. PICK e \in mux : SolvedFor(e, f, x) # {}
  BY <1>3, <1>4
<1>10. e \in D
  BY DEF Deciding
<1>11. \A i \in DOMAIN e : OneFactorWith(x, e[i])
  BY DEF LoadIsLinear
<1>12. w[x] \in SolvedFor(e, f, x)
  <2>1. Names(e) \subseteq DOMAIN f \cup {x}
    BY <1>5, <1>8, <1>10
  <2>2. e \in Exprs(Cols(c)) /\ Eval(e, w) = 0
    BY <1>8, <1>10
  <2> HIDE DEF x
  <2>3. QED
    BY <1>1, <1>5, <1>9, <1>11, <2>1, <2>2, SolvedTrue
<1>13. w[x] \in at(f)
  BY <1>12
<1>14. Satisfies(u, D)
  <2>1. SUFFICES ASSUME NEW d \in D PROVE Eval(d, u) = 0
    BY DEF Satisfies
  <2>2. d \in Exprs(Cols(c)) /\ Eval(d, w) = 0 /\ Names(d) \subseteq DOMAIN u
    BY <1>6, <1>8
  <2>3. QED
    BY <1>6, <2>2, EvalLike
<1> HIDE DEF D, mux, envs, cols, at, x
<1>15. w[x] \in LoadValuesIn(D, mux, envs, x, cols)
  BY <1>3, <1>4, <1>13, <1>14 DEF u
<1>16. QED
  BY <1>1, <1>2, <1>15 DEF x

\* A load that is pinned is pinned right.
LEMMA LoadPinsTrue ==
  ASSUME NEW c, NEW w, Assigned(c, w), LoadIsLinear(c), NEW b \in TrueBounds(w), NEW pins \in Pinnings(w), NEW a \in DOMAIN c.load
  PROVE  LoadPins(c, b, pins, a) \in Pinnings(w)
<1> DEFINE x == c.load[a]
           V == LoadValues(c, b, pins, x, c.flags[a])
<1>1. CASE LoadPins(c, b, pins, a) = pins
  BY <1>1
<1>2. CASE LoadPins(c, b, pins, a) # pins
  <2>1. HasDomain(b, c.flags[a]) /\ LoadPins(c, b, pins, a) = PinnedTo(pins, x, V)
    BY <1>2 DEF LoadPins
  <2>2. IsSingleton(V) /\ PinnedTo(pins, x, V) = Joined(pins, Just(x, Signed(CHOOSE v \in V : TRUE)))
    BY <1>2, <2>1 DEF PinnedTo
  <2>3. w[x] \in V /\ x \in Cols(c)
    <3>1. V # {}
      BY <2>2 DEF IsSingleton
    <3>2. QED
      BY <2>1, <3>1, LoadValuesTrue
  <2> HIDE DEF V, x
  <2>4. (CHOOSE v \in V : TRUE) = w[x]
    BY <2>2, <2>3 DEF IsSingleton
  <2>5. x \in DOMAIN w /\ w[x] \in Int
    BY <2>3, AssignedIs
  <2>6. Just(x, Signed(w[x])) \in Pinnings(w)
    BY <2>5, SignedSame, JustPinned
  <2>7. QED
    BY <2>1, <2>2, <2>4, <2>6, JoinedPinned DEF x, V
<1>3. QED
  BY <1>1, <1>2

\* The true value of a flag survives.
LEMMA SurvivorTrue ==
  ASSUME NEW c, NEW w, Assigned(c, w), NEW b \in TrueBounds(w), NEW pins \in Pinnings(w), NEW flags, flags \subseteq Cols(c),
         HasDomain(b, flags), NEW D, \A e \in D : e \in Exprs(Cols(c)) /\ Eval(e, w) = 0, NEW x \in flags,
         Covered(D, flags \cup DOMAIN pins), FlagSurvivors(b, pins, D, flags, x) # {}
  PROVE  w[x] \in FlagSurvivors(b, pins, D, flags, x)
<1> DEFINE f == OwnFlags(flags, w)
           u == Joined(f, pins)
           ok(g) == (\A y \in flags \cap DOMAIN pins : g[y] = pins[y]) /\ Satisfies(Joined(g, pins), D)
<1>1. FlagSurvivors(b, pins, D, flags, x) = {g[x] : g \in {h \in FlagValues(b, flags) : ok(h)}}
  BY DEF FlagSurvivors
<1>2. DOMAIN w = Cols(c) /\ InField(w) /\ flags \subseteq DOMAIN w
  BY AssignedIs, AssignedInField
<1>3. f \in FlagValues(b, flags) /\ f[x] = w[x] /\ \A y \in flags : f[y] = w[y]
  BY <1>2, OwnFlagsIn DEF OwnFlags
<1>4. Like(u, w) /\ DOMAIN u = flags \cup DOMAIN pins
  BY <1>2, EnvLike
<1>5. Satisfies(u, D)
  <2>1. SUFFICES ASSUME NEW d \in D PROVE Eval(d, u) = 0
    BY DEF Satisfies
  <2>2. d \in Exprs(Cols(c)) /\ Eval(d, w) = 0 /\ Names(d) \subseteq DOMAIN u
    BY <1>4 DEF Covered
  <2> HIDE DEF u
  <2>3. QED
    BY <1>4, <2>2, EvalLike
<1>6. PICK g \in FlagValues(b, flags) : ok(g)
  BY <1>1
<1>7. ASSUME NEW y \in flags \cap DOMAIN pins PROVE f[y] = pins[y]
  <2>1. g[y] = pins[y]
    BY <1>6
  <2>2. g[y] >= 0
    <3>1. g \in [flags -> UNION {0..b[z].hi - 1 : z \in flags}]
      BY DEF FlagValues
    <3>2. PICK z \in flags : g[y] \in 0..b[z].hi - 1
      BY <1>7, <3>1
    <3>3. z \in DOMAIN b
      BY DEF HasDomain
    <3>4. b[z].hi \in Int
      BY <3>3, BoundsAre
    <3>5. QED
      BY <3>2, <3>4
  <2>3. pins[y] \in Int /\ Same(pins[y], w[y]) /\ pins[y] < P
    BY PinningIs
  <2>4. pins[y] \in 0..P - 1
    BY <2>1, <2>2, <2>3, PrimeIsInt
  <2>5. w[y] \in 0..P - 1
    BY <1>2, <1>7 DEF InField
  <2>6. pins[y] = w[y]
    BY <2>3, <2>4, <2>5, SameInField
  <2>7. QED
    BY <1>3, <2>6
<1>8. ok(f)
  BY <1>5, <1>7
<1> HIDE DEF f, ok
<1>9. QED
  BY <1>1, <1>3, <1>8

\* A flag that is pinned is pinned right.
LEMMA PinFlagTrue ==
  ASSUME NEW c, NEW w, Assigned(c, w), NEW b \in TrueBounds(w), NEW flags, flags \subseteq Cols(c),
         HasDomain(b, flags), NEW D, \A e \in D : e \in Exprs(Cols(c)) /\ Eval(e, w) = 0, NEW pins \in Pinnings(w)
  PROVE  PinFlag(b, pins, D, flags) \in Pinnings(w)
<1> DEFINE N == NewFlags(b, pins, D, flags)
           x == CHOOSE y \in N : TRUE
           V == FlagSurvivors(b, pins, D, flags, x)
<1>1. PinFlag(b, pins, D, flags) = IF N = {} THEN pins ELSE Joined(pins, Just(x, CHOOSE v \in V : TRUE))
  BY DEF PinFlag
<1>2. CASE N = {}
  BY <1>1, <1>2
<1>3. CASE N # {}
  <2>1. x \in N
    BY <1>3
  <2>2. x \in flags /\ Covered(D, flags \cup DOMAIN pins) /\ IsSingleton(V)
    BY <2>1 DEF NewFlags
  <2>3. PinFlag(b, pins, D, flags) = Joined(pins, Just(x, CHOOSE v \in V : TRUE))
    BY <1>1, <1>3
  <2> HIDE DEF x
  <2>4. V # {}
    BY <2>2 DEF IsSingleton
  <2>5. w[x] \in V
    BY <2>2, <2>4, SurvivorTrue
  <2> HIDE DEF V
  <2>6. (CHOOSE v \in V : TRUE) = w[x]
    BY <2>2, <2>5 DEF IsSingleton
  <2>7. x \in DOMAIN w /\ w[x] \in 0..P - 1 /\ w[x] \in Int
    BY <2>2, AssignedIs
  <2>8. Just(x, w[x]) \in Pinnings(w)
    <3>1. Same(w[x], w[x]) /\ -P < w[x] /\ w[x] < P
      BY <2>7, SameRefl, PrimeIsInt
    <3>2. QED
      BY <2>7, <3>1, JustPinned
  <2>9. QED
    BY <2>3, <2>6, <2>8, JoinedPinned
<1>4. QED
  BY <1>2, <1>3

\* Flag after flag, load after load, access after access.
LEMMA FlagsFromTrue ==
  ASSUME NEW c, NEW w, Assigned(c, w), NEW bs \in TrueBounds(w), NEW flags, flags \subseteq Cols(c),
         HasDomain(bs, flags), NEW D, \A e \in D : e \in Exprs(Cols(c)) /\ Eval(e, w) = 0, NEW pins \in Pinnings(w)
  PROVE  FlagsFrom(bs, pins, D, flags) \in Pinnings(w)
<1> DEFINE N == Cardinality(flags)
           X == Pinnings(w)
           Computes(r) == r = [n \in 0..N |-> IF n = 0 THEN pins ELSE PinFlag(bs, r[n - 1], D, flags)]
           z == CHOOSE r : Computes(r)
           G == [n \in 1..N |-> [b \in X |-> PinFlag(bs, b, D, flags)]]
<1>1. N \in Nat
  <2>1. IsFiniteSet(flags)
    BY AssignedIs, FS_Subset
  <2>2. QED
    BY <2>1, FS_CardinalityType
<1>2. \A n \in 1..N : \A b \in X : PinFlag(bs, b, D, flags) \in X
  BY PinFlagTrue
<1>3. pins \in X
  OBVIOUS
<1>4. FlagsFrom(bs, pins, D, flags) = z[N]
  BY DEF FlagsFrom
<1> HIDE DEF X, N
<1>5. PICK r : IsRun(r, N, X, pins, G)
  <2>1. G \in [1..N -> [X -> X]]
    BY <1>2
  <2> HIDE DEF G
  <2>2. QED
    BY <1>1, <1>3, <2>1, RunsExist
<1>6. r \in [0..N -> X] /\ r[0] = pins /\ \A n \in 1..N : r[n] = G[n][r[n - 1]]
  BY <1>5 DEF IsRun
<1>7. ASSUME NEW n \in 1..N PROVE r[n] = PinFlag(bs, r[n - 1], D, flags)
  <2>1. n - 1 \in 0..N
    BY <1>1
  <2>2. r[n - 1] \in X /\ G[n] = [b \in X |-> PinFlag(bs, b, D, flags)]
    BY <1>6, <2>1
  <2> HIDE DEF G
  <2>3. QED
    BY <1>6, <2>2
<1>8. Computes(r)
  <2>1. \A n \in 0..N : n = 0 \/ n \in 1..N
    BY <1>1
  <2> HIDE DEF G
  <2>2. QED
    BY <1>6, <1>7, <2>1
<1>9. Computes(z)
  <2> HIDE DEF Computes
  <2>1. QED
    BY <1>8
<1> HIDE DEF z, G
<1>10. \A n \in 0..N : z[n] = IF n = 0 THEN pins ELSE PinFlag(bs, z[n - 1], D, flags)
  BY <1>9
<1> DEFINE T == {n \in 0..N : z[n] \in X}
<1>11. 0 \in T
  <2>1. 0 \in 0..N
    BY <1>1
  <2>2. QED
    BY <1>3, <1>10, <2>1
<1>12. ASSUME NEW n \in 1..N, n - 1 \in T PROVE n \in T
  <2>1. n \in 0..N /\ n # 0
    BY <1>1
  <2>2. z[n] = PinFlag(bs, z[n - 1], D, flags) /\ z[n - 1] \in X
    BY <1>10, <1>12, <2>1
  <2>3. QED
    BY <1>2, <2>1, <2>2
<1>13. \A n \in 0..N : n \in T
  <2> HIDE DEF T
  <2>1. QED
    BY <1>1, <1>11, <1>12, RunsUpTo
<1>14. z[N] \in X
  <2>1. N \in 0..N
    BY <1>1
  <2>2. QED
    BY <1>13, <2>1
<1>15. QED
  BY <1>4, <1>14 DEF X

LEMMA FlagPinsTrue ==
  ASSUME NEW c, NEW w, Assigned(c, w), NEW b \in TrueBounds(w), NEW pins \in Pinnings(w), NEW a \in DOMAIN c.load
  PROVE  FlagPins(c, b, pins, a) \in Pinnings(w)
<1> DEFINE flags == c.flags[a]
           D == Deciding(c, c.load[a], flags)
<1>1. CASE FlagPins(c, b, pins, a) = pins
  BY <1>1
<1>2. CASE FlagPins(c, b, pins, a) # pins
  <2>1. HasDomain(b, flags) /\ FlagPins(c, b, pins, a) = FlagsFrom(b, pins, D, flags)
    BY <1>2 DEF FlagPins
  <2>2. flags \subseteq Cols(c)
    BY AssignedIs DEF IsCircuit, Cols
  <2>3. flags # {}
    BY <2>1 DEF HasDomain
  <2>4. \A e \in D : e \in Exprs(Cols(c)) /\ Eval(e, w) = 0
    BY <2>3, DecidingHolds
  <2> HIDE DEF D, flags
  <2>5. QED
    BY <2>1, <2>2, <2>4, FlagsFromTrue
<1>3. QED
  BY <1>1, <1>2

LEMMA AllLoadsTrue ==
  ASSUME NEW c, NEW w, Assigned(c, w), LoadIsLinear(c), NEW bs \in TrueBounds(w), NEW pins \in Pinnings(w)
  PROVE  AllLoads(c, bs, pins) \in Pinnings(w)
<1> DEFINE U == DOMAIN c.load
           X == Pinnings(w)
           Computes(r) == r = [A \in SUBSET U |-> IF A = {} THEN pins ELSE LET a == CHOOSE x \in A : TRUE IN LoadPins(c, bs, r[A \ {a}], a)]
           z == CHOOSE r : Computes(r)
           G == [a \in U |-> [b \in X |-> LoadPins(c, bs, b, a)]]
<1>1. IsFiniteSet(U)
  BY AssignedIs DEF IsCircuit
<1>2. \A a \in U : \A b \in X : LoadPins(c, bs, b, a) \in X
  BY LoadPinsTrue
<1>3. pins \in X
  OBVIOUS
<1>4. AllLoads(c, bs, pins) = z[U]
  BY DEF AllLoads
<1> HIDE DEF X, U
<1>5. PICK r : IsVisit(r, U, pins, G) /\ VisitsWithin(r, U, X)
  <2>1. G \in [U -> [X -> X]]
    BY <1>2
  <2> HIDE DEF G
  <2>2. QED
    BY <1>1, <1>3, <2>1, VisitsStay
<1>6. r = [A \in SUBSET U |-> IF A = {} THEN pins ELSE LET a == CHOOSE x \in A : TRUE IN G[a][r[A \ {a}]]]
  BY <1>5 DEF IsVisit
<1>7. ASSUME NEW A \in SUBSET U, A # {}, NEW a, a = CHOOSE x \in A : TRUE PROVE G[a][r[A \ {a}]] = LoadPins(c, bs, r[A \ {a}], a)
  <2>1. a \in U /\ A \ {a} \in SUBSET U
    BY <1>7
  <2>2. r[A \ {a}] \in X
    BY <1>5, <2>1 DEF VisitsWithin
  <2>3. G[a] = [b \in X |-> LoadPins(c, bs, b, a)]
    BY <2>1
  <2> HIDE DEF G
  <2>4. QED
    BY <2>2, <2>3
<1>8. Computes(r)
  <2> HIDE DEF G
  <2>1. QED
    BY <1>6, <1>7
<1>9. Computes(z)
  <2> HIDE DEF Computes
  <2>1. QED
    BY <1>8
<1> HIDE DEF z, G
<1>10. \A A \in SUBSET U : z[A] = IF A = {} THEN pins ELSE LET a == CHOOSE x \in A : TRUE IN LoadPins(c, bs, z[A \ {a}], a)
  BY <1>9
<1>11. z[{}] \in X
  BY <1>3, <1>10
<1>12. ASSUME NEW A \in SUBSET U, A # {} PROVE LET a == CHOOSE x \in A : TRUE IN z[A \ {a}] \in X => z[A] \in X
  <2> DEFINE a == CHOOSE x \in A : TRUE
  <2>1. a \in U /\ z[A] = LoadPins(c, bs, z[A \ {a}], a)
    BY <1>10, <1>12
  <2> HIDE DEF a
  <2>2. z[A \ {a}] \in X => z[A] \in X
    BY <1>2, <2>1
  <2>3. QED
    BY <2>2 DEF a
<1>13. z[U] \in X
  BY <1>1, <1>11, <1>12, VisitIn
<1>14. QED
  BY <1>4, <1>13 DEF X

LEMMA AllFlagsTrue ==
  ASSUME NEW c, NEW w, Assigned(c, w), NEW bs \in TrueBounds(w), NEW pins \in Pinnings(w)
  PROVE  AllFlags(c, bs, pins) \in Pinnings(w)
<1> DEFINE U == DOMAIN c.load
           X == Pinnings(w)
           Computes(r) == r = [A \in SUBSET U |-> IF A = {} THEN pins ELSE LET a == CHOOSE x \in A : TRUE IN FlagPins(c, bs, r[A \ {a}], a)]
           z == CHOOSE r : Computes(r)
           G == [a \in U |-> [b \in X |-> FlagPins(c, bs, b, a)]]
<1>1. IsFiniteSet(U)
  BY AssignedIs DEF IsCircuit
<1>2. \A a \in U : \A b \in X : FlagPins(c, bs, b, a) \in X
  BY FlagPinsTrue
<1>3. pins \in X
  OBVIOUS
<1>4. AllFlags(c, bs, pins) = z[U]
  BY DEF AllFlags
<1> HIDE DEF X, U
<1>5. PICK r : IsVisit(r, U, pins, G) /\ VisitsWithin(r, U, X)
  <2>1. G \in [U -> [X -> X]]
    BY <1>2
  <2> HIDE DEF G
  <2>2. QED
    BY <1>1, <1>3, <2>1, VisitsStay
<1>6. r = [A \in SUBSET U |-> IF A = {} THEN pins ELSE LET a == CHOOSE x \in A : TRUE IN G[a][r[A \ {a}]]]
  BY <1>5 DEF IsVisit
<1>7. ASSUME NEW A \in SUBSET U, A # {}, NEW a, a = CHOOSE x \in A : TRUE PROVE G[a][r[A \ {a}]] = FlagPins(c, bs, r[A \ {a}], a)
  <2>1. a \in U /\ A \ {a} \in SUBSET U
    BY <1>7
  <2>2. r[A \ {a}] \in X
    BY <1>5, <2>1 DEF VisitsWithin
  <2>3. G[a] = [b \in X |-> FlagPins(c, bs, b, a)]
    BY <2>1
  <2> HIDE DEF G
  <2>4. QED
    BY <2>2, <2>3
<1>8. Computes(r)
  <2> HIDE DEF G
  <2>1. QED
    BY <1>6, <1>7
<1>9. Computes(z)
  <2> HIDE DEF Computes
  <2>1. QED
    BY <1>8
<1> HIDE DEF z, G
<1>10. \A A \in SUBSET U : z[A] = IF A = {} THEN pins ELSE LET a == CHOOSE x \in A : TRUE IN FlagPins(c, bs, z[A \ {a}], a)
  BY <1>9
<1>11. z[{}] \in X
  BY <1>3, <1>10
<1>12. ASSUME NEW A \in SUBSET U, A # {} PROVE LET a == CHOOSE x \in A : TRUE IN z[A \ {a}] \in X => z[A] \in X
  <2> DEFINE a == CHOOSE x \in A : TRUE
  <2>1. a \in U /\ z[A] = FlagPins(c, bs, z[A \ {a}], a)
    BY <1>10, <1>12
  <2> HIDE DEF a
  <2>2. z[A \ {a}] \in X => z[A] \in X
    BY <1>2, <2>1
  <2>3. QED
    BY <2>2 DEF a
<1>13. z[U] \in X
  BY <1>1, <1>11, <1>12, VisitIn
<1>14. QED
  BY <1>4, <1>13 DEF X

\* Every pin holds in every assignment that satisfies the circuit: by constraints
\* of one column, by propagation, and by refutation of loads and flags.
THEOREM PinsTrue ==
  ASSUME NEW c, NEW w, Assigned(c, w), SelectorIsValid(c), LoadIsLinear(c) PROVE Pins(c) \in Pinnings(w)
<1> DEFINE b == StaticBounds(c)
<1>1. b \in TrueBounds(w)
  BY StaticBoundsTrue
<1>2. Pins(c) = AllFlags(c, b, AllLoads(c, b, Propagated(c, b)))
  BY DEF Pins, PinsWithin
<1> HIDE DEF b
<1>3. Propagated(c, b) \in Pinnings(w)
  BY <1>1, PropagatedTrue
<1>4. AllLoads(c, b, Propagated(c, b)) \in Pinnings(w)
  BY <1>1, <1>3, AllLoadsTrue
<1>5. QED
  BY <1>1, <1>2, <1>4, AllFlagsTrue

-----------------------------------------------------------------------------
\* What is known of an assignment w of the columns C: pins and exact zeros.
KnownFacts(p, C, w) == p.pins \in Pinnings(w) /\ \A z \in p.zeros : z \in Forms(C) /\ Value(z, w) = 0

\* Identities between integers hold.
LEMMA ZerosTrue ==
  ASSUME NEW c, NEW w, Assigned(c, w), NEW pins \in Pinnings(w), NEW b \in TrueBounds(w), NEW z \in ZerosWithin(c, pins, b)
  PROVE  z \in Forms(Cols(c)) /\ Value(z, w) = 0
<1>1. PICK l \in LinearCons(c) : z = Subst(l, pins) /\ ~IsNum(z) /\ NoWrap(z, b)
  BY DEF ZerosWithin
<1>2. PinsAgree(pins, w)
  BY PinningIs
<1>3. z \in Forms(Cols(c)) /\ Same(Value(z, w), 0)
  BY <1>1, <1>2, RemainderHolds DEF IsNum
<1>4. OnColumns(Cols(c), w) /\ InField(w)
  BY AssignedIs, AssignedInField
<1>5. QED
  BY <1>1, <1>3, <1>4, ExactZero

\* Pins and identities hold.
LEMMA PropagationTrue ==
  ASSUME NEW c, NEW w, Assigned(c, w), SelectorIsValid(c), LoadIsLinear(c)
  PROVE  KnownFacts(Propagation(c, Pins(c)), Cols(c), w)
<1> DEFINE p == Propagation(c, Pins(c))
<1>1. p.pins = Pins(c) /\ p.zeros = ZerosWithin(c, Pins(c), StaticBounds(c))
  BY DEF Propagation, Zeros
<1>2. Pins(c) \in Pinnings(w) /\ StaticBounds(c) \in TrueBounds(w)
  BY PinsTrue, StaticBoundsTrue
<1> HIDE DEF p
<1>3. \A z \in p.zeros : z \in Forms(Cols(c)) /\ Value(z, w) = 0
  BY <1>1, <1>2, ZerosTrue
<1>4. QED
  BY <1>1, <1>2, <1>3 DEF KnownFacts, p

\* Forms with the same coefficients differ by their constants.
LEMMA SameCoefs ==
  ASSUME NEW C, NEW l \in Forms(C), NEW n \in Forms(C), l.coef = n.coef, NEW w, OnColumns(C, w)
  PROVE  Value(l, w) - l.const = Value(n, w) - n.const
<1>1. TermsOf(l, w) = TermsOf(n, w) /\ Columns(l) = Columns(n)
  BY DEF TermsOf, Columns
<1> DEFINE S == SumOver(TermsOf(l, w), Columns(l))
<1>2. Value(l, w) = l.const + S /\ S \in Int /\ l.const \in Int
  BY ValueIs, FormIs
<1>3. Value(n, w) = n.const + S /\ n.const \in Int
  BY <1>1, ValueIs, FormIs
<1> HIDE DEF S
<1>4. QED
  BY <1>2, <1>3

\* A value that is known is the value.
LEMMA KnownTrue ==
  ASSUME NEW c, NEW w, Assigned(c, w), NEW p, KnownFacts(p, Cols(c), w), NEW l \in Forms(Cols(c)), NEW v \in Known(p, l)
  PROVE  v = Value(l, w) % P /\ v \in 0..P - 1
<1> DEFINE C == Cols(c)
           s == Subst(l, p.pins)
<1>1. OnColumns(C, w) /\ PinsAgree(p.pins, w) /\ \A z \in p.zeros : z \in Forms(C) /\ Value(z, w) = 0
  BY AssignedIs, PinningIs DEF KnownFacts
<1>2. s \in Forms(C) /\ Same(Value(s, w), Value(l, w)) /\ s.const \in Int
  <2>1. s \in Forms(C) /\ Same(Value(s, w), Value(l, w))
    BY <1>1, SubstValue
  <2> HIDE DEF s
  <2>2. QED
    BY <2>1, FormIs
<1>3. \E k \in Int : v = k % P /\ Same(k, Value(s, w))
  <2>1. CASE IsNum(s)
    <3>1. v = s.const % P
      BY <2>1 DEF Known
    <3> HIDE DEF s
    <3>2. Value(s, w) = s.const
      BY <1>2, <2>1, NumForm
    <3>3. QED
      BY <1>2, <3>1, <3>2, SameRefl
  <2>2. CASE ~IsNum(s) /\ \E z \in p.zeros : z.coef = s.coef /\ v = (s.const - z.const) % P
    <3>1. PICK z \in p.zeros : z.coef = s.coef /\ v = (s.const - z.const) % P
      BY <2>2
    <3> HIDE DEF s, C
    <3>2. Value(z, w) - z.const = Value(s, w) - s.const
      BY <1>1, <1>2, <3>1, SameCoefs
    <3>3. Value(z, w) = 0 /\ z.const \in Int /\ Value(s, w) \in Int
      BY <1>1, <1>2, FormIs, ValueIs
    <3>4. s.const - z.const = Value(s, w) /\ s.const - z.const \in Int
      BY <1>2, <3>2, <3>3
    <3>5. QED
      BY <3>1, <3>4, SameRefl
  <2>3. CASE ~IsNum(s) /\ \E z \in p.zeros : z.coef = Times(-1, s).coef /\ v = (s.const + z.const) % P
    <3>1. PICK z \in p.zeros : z.coef = Times(-1, s).coef /\ v = (s.const + z.const) % P
      BY <2>3
    <3> DEFINE t == Times(-1, s)
    <3> HIDE DEF s, C
    <3>2. t \in Forms(C) /\ Same(Value(t, w), (-1) * Value(s, w))
      BY <1>1, <1>2, TimesValue
    <3>3. Same(t.const, -s.const)
      <4>1. t.const = Signed((-1) * s.const)
        BY TabulatedIs DEF Times, LinForm
      <4>2. (-1) * s.const \in Int /\ (-1) * s.const = -s.const
        BY <1>2
      <4> HIDE DEF t
      <4>3. QED
        BY <4>1, <4>2, SignedSame
    <3>4. z.coef = t.coef
      BY <3>1
    <3> HIDE DEF t
    <3>5. Value(z, w) - z.const = Value(t, w) - t.const
      BY <1>1, <3>2, <3>4, SameCoefs
    <3>6. Value(z, w) = 0 /\ z.const \in Int /\ t.const \in Int /\ Value(t, w) \in Int /\ Value(s, w) \in Int
      BY <1>1, <1>2, <3>2, FormIs, ValueIs
    <3>7. t.const - Value(t, w) = z.const
      BY <3>5, <3>6
    <3>8. Same(t.const - Value(t, w), -s.const - (-1) * Value(s, w))
      BY <3>2, <3>3, SameSub
    <3>9. Same(s.const + z.const, s.const + (-s.const - (-1) * Value(s, w)))
      BY <1>2, <3>7, <3>8, SameRefl, SameAdd
    <3>10. s.const + (-s.const - (-1) * Value(s, w)) = Value(s, w) /\ s.const + z.const \in Int
      BY <1>2, <3>6
    <3>11. QED
      BY <3>1, <3>9, <3>10
  <2>4. QED
    BY <2>1, <2>2, <2>3 DEF Known
<1>4. PICK k \in Int : v = k % P /\ Same(k, Value(s, w))
  BY <1>3
<1> HIDE DEF s, C
<1>5. Same(k, Value(l, w)) /\ Value(l, w) \in Int
  BY <1>2, <1>4, SameTrans DEF Same
<1>6. QED
  BY <1>4, <1>5, SameIsMod, Remainder

-----------------------------------------------------------------------------
\* A multiplicity that the selector gates.
LEMMA SelectorSign ==
  ASSUME NEW c, NEW w, Assigned(c, w), NEW i \in DOMAIN c.rows, IsLinear(Mult(c, i)), ~IsNum(Linear(Mult(c, i))),
         Columns(Linear(Mult(c, i))) = ActiveSelector(c)
  PROVE  /\ Linear(Mult(c, i)).const = 0
         /\ \A x \in Columns(Linear(Mult(c, i))) : Linear(Mult(c, i)).coef[x] \in {1, -1}
<1> DEFINE l == Linear(Mult(c, i))
           mults == {Mult(c, j) : j \in DOMAIN c.rows}
           gates == {n \in Linears(mults) : ~IsNum(n)}
<1>1. Mult(c, i) \in mults
  OBVIOUS
<1>2. l \in Linears(mults)
  <2> HIDE DEF mults
  <2>1. QED
    BY <1>1 DEF Linears
<1>3. l \in gates
  BY <1>2
<1>4. ActiveSelector(c) # {}
  BY DEF IsNum
<1>5. \A n \in gates : Single(n) /\ n.const = 0 /\ \A x \in Columns(n) : n.coef[x] \in {1, -1}
  BY <1>4 DEF ActiveSelector
<1> HIDE DEF gates
<1>6. QED
  BY <1>3, <1>5

\* Multiplicities are expressions.
LEMMA MultIs ==
  ASSUME NEW c, NEW w, Assigned(c, w), NEW i \in DOMAIN c.rows
  PROVE  /\ Mult(c, i) = c.rows[i].mult /\ Mult(c, i) \in Exprs(Cols(c)) /\ Linear(Mult(c, i)) \in Forms(Cols(c))
         /\ Eval(Mult(c, i), w) \in 0..P - 1
         /\ IsLinear(Mult(c, i)) => Eval(Mult(c, i), w) = Value(Linear(Mult(c, i)), w) % P
<1>1. Mult(c, i) \in Exprs(Cols(c))
  BY AssignedIs, CircuitIs DEF Mult, Cols
<1>2. QED
  BY <1>1, LinearOn DEF Mult

\* What a kind says.
LEMMA KindMeans ==
  ASSUME NEW v
  PROVE  /\ KindHolds({}, v)
         /\ v = 1 => KindHolds({"send"}, v)
         /\ v = P - 1 => KindHolds({"recv"}, v)
         /\ v = 0 => KindHolds({"disabled"}, v)
<1>1. {"send"} # {"recv"} /\ {"disabled"} # {"recv"} /\ {"send"} # {"disabled"}
  <2>1. "send" \notin {"recv"} /\ "disabled" \notin {"recv"} /\ "send" \notin {"disabled"}
    OBVIOUS
  <2>2. QED
    BY <2>1
<1>2. QED
  BY <1>1 DEF KindHolds

LEMMA KindOfHolds == ASSUME PrimeField, NEW v \in 0..P - 1 PROVE KindHolds(KindOf(v), v)
<1>1. P > 1 /\ P \in Int
  BY PrimeIsInt DEF PrimeField
<1>2. CASE v = 1 /\ P # 2
  <2>1. KindOf(v) = {"send"}
    BY <1>1, <1>2 DEF KindOf
  <2>2. QED
    BY <1>2, <2>1, KindMeans
<1>3. CASE v = P - 1 /\ P # 2
  <2>1. KindOf(v) = {"recv"}
    BY <1>1, <1>3 DEF KindOf
  <2>2. QED
    BY <1>3, <2>1, KindMeans
<1>4. CASE v = 1 /\ P = 2
  <2>1. v = 1 /\ v = P - 1 /\ v # 0
    BY <1>4
  <2>2. KindOf(v) = {"send"} \/ KindOf(v) = {"recv"}
    BY <2>1 DEF KindOf
  <2>3. QED
    BY <2>1, <2>2, KindMeans
<1>5. CASE v = 0
  <2>1. v # 1 /\ v # P - 1
    BY <1>1, <1>5
  <2>2. KindOf(v) = {"disabled"}
    BY <1>5, <2>1 DEF KindOf
  <2>3. QED
    BY <1>5, <2>2, KindMeans
<1>6. CASE v # 0 /\ v # 1 /\ v # P - 1
  <2>1. KindOf(v) = {}
    BY <1>6 DEF KindOf
  <2>2. QED
    BY <2>1, KindMeans
<1>7. QED
  BY <1>1, <1>2, <1>3, <1>4, <1>5, <1>6

\* The kind of every memory interaction is the one that its multiplicity has in
\* every assignment that satisfies the circuit.
THEOREM KindTrue ==
  ASSUME NEW c, NEW w, Assigned(c, w), SelectorIsValid(c), NEW p, KnownFacts(p, Cols(c), w), NEW i \in DOMAIN c.rows
  PROVE  KindHolds(Kind(c, p, i), Eval(c.rows[i].mult, w))
<1> DEFINE m == Mult(c, i)
           l == Linear(m)
           gated == c.assumed /\ ~IsNum(l) /\ Columns(l) = ActiveSelector(c)
           v == Eval(m, w)
<1>1. PrimeField /\ P > 1 /\ P \in Int
  BY AssignedIs, PrimeIsInt DEF PrimeField
<1>2. m = c.rows[i].mult /\ m \in Exprs(Cols(c)) /\ l \in Forms(Cols(c)) /\ v \in 0..P - 1 /\ (IsLinear(m) => v = Value(l, w) % P)
  BY MultIs
<1>3. CASE ~IsLinear(m)
  <2>1. Kind(c, p, i) = {}
    BY <1>3 DEF Kind
  <2>2. QED
    BY <2>1 DEF KindHolds
<1>4. CASE IsLinear(m) /\ gated
  <2>1. Kind(c, p, i) = {IF Signs(l) = {1} THEN "send" ELSE "recv"}
    BY <1>4 DEF Kind
  <2>2. ActiveSelector(c) # {}
    BY <1>4 DEF IsNum
  <2>3. PICK x \in Cols(c) : ActiveSelector(c) = {x} /\ w[x] = 1
    BY <1>4, <2>2, SelectorIsOne
  <2>4. l.const = 0 /\ Columns(l) = {x} /\ l.coef[x] \in {1, -1}
    BY <1>4, <2>3, SelectorSign
  <2>5. OnColumns(Cols(c), w)
    BY AssignedIs
  <2> HIDE DEF l
  <2>6. Value(l, w) = l.const + l.coef[x] * w[x] /\ l.coef[x] \in Int
    <3>1. IsCanonical(l)
      BY <1>2, LinearOn DEF l
    <3>2. x \in Columns(l)
      BY <2>4
    <3>3. QED
      BY <1>1, <1>2, <2>4, <2>5, <3>1, <3>2, SingleIs
  <2>7. Value(l, w) = l.coef[x]
    <3>1. l.coef[x] * 1 = l.coef[x] /\ 0 + l.coef[x] = l.coef[x]
      BY <2>6
    <3>2. QED
      BY <2>3, <2>4, <2>6, <3>1
  <2>8. CASE l.coef[x] = 1
    <3>1. Signs(l) = {1}
      BY <2>4, <2>8 DEF Signs
    <3>2. v = 1
      <4>1. 1 % P = 1
        BY <1>1
      <4>2. QED
        BY <1>2, <1>4, <2>7, <2>8, <4>1
    <3>3. QED
      BY <1>2, <2>1, <3>1, <3>2, KindMeans
  <2>9. CASE l.coef[x] = -1
    <3>1. Signs(l) # {1}
      BY <2>4, <2>9 DEF Signs
    <3>2. v = P - 1
      <4>1. (-1) % P = P - 1
        <5>1. (-1) % P \in 0..P - 1 /\ Same((-1) % P, -1)
          BY Remainder, SameMod
        <5>2. Same(-1, P - 1)
          <6>1. -1 = (P - 1) + (-1) * P
            BY <1>1
          <6>2. QED
            BY <1>1, <6>1 DEF Same
        <5>3. P - 1 \in 0..P - 1
          BY <1>1
        <5>4. QED
          BY <5>1, <5>2, <5>3, SameTrans, SameInField
      <4>2. QED
        BY <1>2, <1>4, <2>7, <2>9, <4>1
    <3>3. QED
      BY <1>2, <2>1, <3>1, <3>2, KindMeans
  <2>10. QED
    BY <2>4, <2>8, <2>9
<1>5. CASE IsLinear(m) /\ ~gated
  <2>1. Kind(c, p, i) = UNION {KindOf(k) : k \in Known(p, l)}
    BY <1>5 DEF Kind
  <2>2. \A k \in Known(p, l) : k = v
    BY <1>2, <1>5, KnownTrue
  <2> HIDE DEF l, m, v
  <2>3. Kind(c, p, i) = {} \/ Kind(c, p, i) = KindOf(v)
    BY <2>1, <2>2
  <2>4. KindHolds({}, v)
    BY DEF KindHolds
  <2>5. KindHolds(KindOf(v), v)
    BY <1>1, <1>2, KindOfHolds
  <2>6. QED
    <3>1. KindHolds(Kind(c, p, i), v)
      BY <2>3, <2>4, <2>5
    <3>2. QED
      BY <1>2, <3>1 DEF v, m
<1>6. QED
  BY <1>3, <1>4, <1>5

-----------------------------------------------------------------------------
\* A form and a number as expressions.
LEMMA FormEval ==
  ASSUME PrimeField, NEW C, NEW l \in Forms(C), NEW w, OnColumns(C, w)
  PROVE  Form(l) \in Exprs(C) /\ Eval(Form(l), w) = Value(l, w) % P
<1> DEFINE e == Form(l)
           p == <<l>>
           a == Value(l, w)
<1>1. p \in Seq(Forms(C)) /\ Len(p) = 1 /\ p[1] = l /\ DOMAIN p = {1}
  OBVIOUS
<1>2. e \in Exprs(C) /\ Len(e) = 1 /\ e[1] = p
  BY <1>1 DEF Form, Exprs
<1>3. a \in Int
  BY ValueIs
<1>4. AllValued(e, w)
  BY <1>2, ExprValued DEF OnColumns
<1> HIDE DEF e, p, a
<1>5. Eval(e, w) = EvalProduct(p, w)
  BY <1>2, <1>4, EvalOfProduct
<1> DEFINE v == ValuesOn(p, w)
<1>6. v \in Seq(Int) /\ Len(v) = 1 /\ v[1] = a /\ EvalProduct(p, w) = Multiply(v)
  <2>1. Valued(p, w)
    BY <1>1, <1>3 DEF Valued, a
  <2>2. QED
    BY <1>1, <2>1, ProductIs DEF a
<1> HIDE DEF v
<1>7. PICK r : IsProductRun(r, v) /\ Multiply(v) = r[1]
  BY <1>6, MultiplyIs
<1>8. r[0] = 1 /\ r[1] = (r[0] * v[1]) % P
  <2>1. 1 \in 1..Len(v)
    BY <1>6
  <2>2. r[1] = (r[1 - 1] * v[1]) % P
    BY <1>7, <2>1 DEF IsProductRun
  <2>3. QED
    BY <1>7, <2>2 DEF IsProductRun
<1>9. Multiply(v) = a % P
  <2>1. 1 * a = a
    BY <1>3
  <2>2. QED
    BY <1>6, <1>7, <1>8, <2>1
<1>10. QED
  BY <1>2, <1>5, <1>6, <1>9 DEF e, a

\* No aliases hold.
LEMMA NoAliases == ASSUME NEW C, NEW w PROVE AliasesAgree(<<>>, C, w)
BY DEF AliasesAgree

LEMMA NumberEval ==
  ASSUME PrimeField, NEW C, NEW w, OnColumns(C, w), NEW v \in 0..P - 1
  PROVE  Form(Num(v)) \in Exprs(C) /\ Eval(Form(Num(v)), w) = v
<1>1. v \in Int
  OBVIOUS
<1>2. Num(v) \in Forms(C) /\ Same(Value(Num(v), w), v)
  BY <1>1, NumValue
<1>3. Form(Num(v)) \in Exprs(C) /\ Eval(Form(Num(v)), w) = Value(Num(v), w) % P
  BY <1>2, FormEval
<1>4. Value(Num(v), w) % P = v % P
  BY <1>2, SameIsMod DEF Same
<1>5. v % P = v
  <2>1. \A n \in 0..P - 1 : n % P = n
    BY PrimeIsInt
  <2>2. QED
    BY <2>1
<1>6. QED
  BY <1>3, <1>4, <1>5

\* Replacing a known form by its value keeps the value.
LEMMA SimplifiedTrue ==
  ASSUME NEW c, NEW w, Assigned(c, w), NEW p, KnownFacts(p, Cols(c), w), NEW f \in Exprs(Cols(c))
  PROVE  Simplified(p, f) \in Exprs(Cols(c)) /\ Eval(Simplified(p, f), w) = Eval(f, w)
<1>1. PrimeField /\ OnColumns(Cols(c), w)
  BY AssignedIs
<1>2. CASE ~IsLinear(f)
  BY <1>2 DEF Simplified
<1>3. CASE IsLinear(f)
  <2> DEFINE l == Linear(f)
             V == Known(p, l)
  <2>1. l \in Forms(Cols(c)) /\ Eval(f, w) = Value(l, w) % P
    BY <1>3, LinearOn
  <2>2. Simplified(p, f) = Form(Replaced(l, V))
    BY <1>3 DEF Simplified, ReplacedIn
  <2> HIDE DEF l
  <2>3. \A v \in V : v = Eval(f, w) /\ v \in 0..P - 1
    BY <2>1, KnownTrue
  <2> HIDE DEF V
  <2>4. CASE V = {}
    BY <1>1, <2>1, <2>2, <2>4, FormEval DEF Replaced
  <2>5. CASE V # {}
    <3>1. Replaced(l, V) = Num(Eval(f, w)) /\ Eval(f, w) \in 0..P - 1
      <4>1. (CHOOSE v \in V : TRUE) \in V
        BY <2>5
      <4>2. QED
        BY <2>3, <2>5, <4>1 DEF Replaced
    <3>2. QED
      BY <1>1, <2>2, <3>1, NumberEval
  <2>6. QED
    BY <2>4, <2>5
<1>4. QED
  BY <1>2, <1>3

\* So does writing in the pins, and both together.
LEMMA PinFoldTrue ==
  ASSUME NEW c, NEW w, Assigned(c, w), NEW p, KnownFacts(p, Cols(c), w), NEW e \in Exprs(Cols(c))
  PROVE  Fold(e, p.pins, <<>>) \in Exprs(Cols(c)) /\ Eval(Fold(e, p.pins, <<>>), w) = Eval(e, w)
<1>1. PrimeField /\ OnColumns(Cols(c), w)
  BY AssignedIs
<1>2. PinsAgree(p.pins, w)
  BY PinningIs DEF KnownFacts
<1>3. AliasesAgree(<<>>, Cols(c), w)
  BY NoAliases
<1>4. QED
  BY <1>1, <1>2, <1>3, FoldIs

LEMMA SimplifyTrue ==
  ASSUME NEW c, NEW w, Assigned(c, w), NEW p, KnownFacts(p, Cols(c), w), NEW e \in Exprs(Cols(c))
  PROVE  Simplify(p, e) \in Exprs(Cols(c)) /\ Eval(Simplify(p, e), w) = Eval(e, w)
<1> DEFINE f == Fold(e, p.pins, <<>>)
<1>1. f \in Exprs(Cols(c)) /\ Eval(f, w) = Eval(e, w)
  BY PinFoldTrue
<1>2. Simplify(p, e) = Simplified(p, f)
  BY DEF Simplify
<1> HIDE DEF f
<1>3. QED
  BY <1>1, <1>2, SimplifiedTrue

-----------------------------------------------------------------------------
\* A product with a known zero, or all of whose factors are known.
LEMMA PartlyProduct ==
  ASSUME PrimeField, NEW C, IsFiniteSet(C), NEW p \in Seq(Forms(C)), NEW u, NEW w, Like(u, w), Valued(p, u), Valued(p, w),
         \/ \E f \in ToSet(p) : IsKnown(f, u) /\ Value(f, u) % P = 0
         \/ \A f \in ToSet(p) : IsKnown(f, u)
  PROVE  EvalProduct(p, u) = EvalProduct(p, w)
<1>1. /\ ValuesOn(p, u) \in Seq(Int) /\ Len(ValuesOn(p, u)) = Len(p) /\ Len(p) \in Nat /\ DOMAIN p = 1..Len(p)
      /\ \A n \in DOMAIN p : ValuesOn(p, u)[n] = Value(p[n], u) /\ Value(p[n], u) \in Int
      /\ EvalProduct(p, u) = Multiply(ValuesOn(p, u))
  BY ProductIs
<1>2. /\ ValuesOn(p, w) \in Seq(Int) /\ Len(ValuesOn(p, w)) = Len(p)
      /\ \A n \in DOMAIN p : ValuesOn(p, w)[n] = Value(p[n], w) /\ Value(p[n], w) \in Int
      /\ EvalProduct(p, w) = Multiply(ValuesOn(p, w))
  BY ProductIs
<1>3. \A n \in DOMAIN p : p[n] \in Forms(C) /\ p[n] \in ToSet(p)
  BY <1>1 DEF ToSet
<1>4. \A n \in DOMAIN p : IsKnown(p[n], u) => Same(Value(p[n], u), Value(p[n], w))
  <2>1. SUFFICES ASSUME NEW n \in DOMAIN p, IsKnown(p[n], u) PROVE Same(Value(p[n], u), Value(p[n], w))
    OBVIOUS
  <2>2. \A x \in Columns(p[n]) : x \in DOMAIN u /\ x \in DOMAIN w /\ Same(u[x], w[x])
    BY <2>1 DEF IsKnown, Like
  <2>3. QED
    BY <1>3, <2>2, ValueCongruent
<1>5. CASE \E f \in ToSet(p) : IsKnown(f, u) /\ Value(f, u) % P = 0
  <2>1. PICK n \in DOMAIN p : IsKnown(p[n], u) /\ Value(p[n], u) % P = 0
    BY <1>5 DEF ToSet
  <2>2. Same(Value(p[n], u), 0)
    BY <1>1, <2>1, SameZero
  <2>3. Same(Value(p[n], w), 0)
    BY <1>4, <2>1, <2>2, SameSym, SameTrans
  <2>4. Multiply(ValuesOn(p, u)) = 0
    BY <1>1, <2>2, MultiplyZero
  <2>5. Multiply(ValuesOn(p, w)) = 0
    BY <1>1, <1>2, <2>3, MultiplyZero
  <2>6. QED
    BY <1>1, <1>2, <2>4, <2>5
<1>6. CASE \A f \in ToSet(p) : IsKnown(f, u)
  <2>1. \A n \in 1..Len(p) : Same(Value(p[n], u), Value(p[n], w))
    BY <1>1, <1>3, <1>4, <1>6
  <2>2. QED
    BY <2>1, ProductSame
<1>7. QED
  BY <1>5, <1>6

\* An expression that evaluates although columns are missing has that value.
LEMMA PartlyEvaluated ==
  ASSUME PrimeField, NEW C, NEW e \in Exprs(C), NEW u, NEW w, OnColumns(C, w), Like(u, w), PartlyEvaluates(e, u)
  PROVE  Eval(e, u) = Eval(e, w)
<1>1. IsFiniteSet(C) /\ \A x \in C \cap DOMAIN w : w[x] \in Int
  BY DEF OnColumns
<1>2. \A x \in C \cap DOMAIN u : u[x] \in Int
  BY DEF Like, Same
<1>3. AllValued(e, u) /\ AllValued(e, w)
  BY <1>1, <1>2, ExprValued
<1>4. \A i \in DOMAIN e : EvalProduct(e[i], u) = EvalProduct(e[i], w)
  <2>1. SUFFICES ASSUME NEW i \in DOMAIN e PROVE EvalProduct(e[i], u) = EvalProduct(e[i], w)
    OBVIOUS
  <2>2. e[i] \in Seq(Forms(C))
    BY ExprIs
  <2>3. Valued(e[i], u) /\ Valued(e[i], w)
    BY <1>3 DEF AllValued
  <2>4. \/ \E f \in ToSet(e[i]) : IsKnown(f, u) /\ Value(f, u) % P = 0
        \/ \A f \in ToSet(e[i]) : IsKnown(f, u)
    BY DEF PartlyEvaluates
  <2>5. QED
    BY <1>1, <2>2, <2>3, <2>4, PartlyProduct
<1>5. [n \in DOMAIN e |-> EvalProduct(e[n], u)] = [n \in DOMAIN e |-> EvalProduct(e[n], w)]
  BY <1>4
<1>6. QED
  BY <1>5 DEF Eval

\* The true flags are among those that the deciding constraints admit.
LEMMA EnvTrue ==
  ASSUME NEW c, NEW w, Assigned(c, w), SelectorIsValid(c), FlagsDecide(c), NEW p, KnownFacts(p, Cols(c), w), p.pins = Pins(c),
         NEW a \in DOMAIN c.load, Envs(c, p, a) # {}
  PROVE  \E u \in Envs(c, p, a) : Like(u, w)
<1> DEFINE flags == c.flags[a]
           b == StaticBounds(c)
           D == Deciding(c, c.load[a], flags)
           u == Joined(OwnFlags(flags, w), p.pins)
<1>1. /\ c.load[a] \in DOMAIN p.pins /\ HasDomain(b, flags)
      /\ Envs(c, p, a) = {v \in {Joined(f, p.pins) : f \in FlagValues(b, flags)} : Satisfies(v, D)}
  BY DEF Envs, EnvsWithin
<1>2. Covered(D, flags \cup DOMAIN p.pins)
  BY <1>1 DEF FlagsDecide
<1>3. flags \subseteq DOMAIN w /\ InField(w) /\ DOMAIN w = Cols(c)
  BY AssignedIs, AssignedInField DEF IsCircuit, Cols
<1>4. b \in TrueBounds(w) /\ p.pins \in Pinnings(w)
  BY StaticBoundsTrue DEF KnownFacts
<1>5. OwnFlags(flags, w) \in FlagValues(b, flags)
  BY <1>1, <1>3, <1>4, OwnFlagsIn
<1>6. Like(u, w) /\ DOMAIN u = flags \cup DOMAIN p.pins
  BY <1>3, <1>4, EnvLike
<1>7. Satisfies(u, D)
  <2>1. SUFFICES ASSUME NEW d \in D PROVE Eval(d, u) = 0
    BY DEF Satisfies
  <2>2. flags # {}
    BY <1>1 DEF HasDomain
  <2>3. d \in Exprs(Cols(c)) /\ Eval(d, w) = 0
    BY <2>2, DecidingHolds
  <2>4. Names(d) \subseteq DOMAIN u
    BY <1>2, <1>6 DEF Covered
  <2> HIDE DEF u
  <2>5. QED
    BY <1>6, <2>3, <2>4, EvalLike
<1>8. u \in Envs(c, p, a)
  BY <1>1, <1>5, <1>7
<1> HIDE DEF u
<1>9. QED
  BY <1>6, <1>8

\* A value that an expression has under all flags that the deciding constraints
\* admit is its value, when those constraints read nothing but flags and pins.
THEOREM EvaluatedTrue ==
  ASSUME NEW c, NEW w, Assigned(c, w), SelectorIsValid(c), FlagsDecide(c), NEW p, KnownFacts(p, Cols(c), w), p.pins = Pins(c),
         NEW e \in Exprs(Cols(c)), NEW v \in Evaluated(c, p, e)
  PROVE  v = Eval(e, w) /\ v \in 0..P - 1
<1> DEFINE f == Fold(e, p.pins, <<>>)
           A == AccessesOf(c, e) \cap DOMAIN c.load
           E == UNION {Envs(c, p, a) : a \in A}
           vals == {Eval(f, u) : u \in E}
<1>1. v \in OneValue(f, E, vals)
  BY DEF Evaluated, ValueOver
<1>2. f \in Exprs(Cols(c)) /\ Eval(f, w) = Eval(e, w)
  BY PinFoldTrue
<1>3. E # {} /\ (\A u \in E : PartlyEvaluates(f, u)) /\ IsSingleton(vals) /\ v \in vals
  <2> HIDE DEF f, E, vals
  <2>1. QED
    BY <1>1 DEF OneValue
<1>4. PICK u \in E : Like(u, w)
  <2>1. PICK a \in A : Envs(c, p, a) # {}
    BY <1>3
  <2>2. a \in DOMAIN c.load
    OBVIOUS
  <2>3. PICK u \in Envs(c, p, a) : Like(u, w)
    BY <2>1, <2>2, EnvTrue
  <2>4. QED
    BY <2>3
<1>5. PrimeField /\ OnColumns(Cols(c), w)
  BY AssignedIs
<1>6. PartlyEvaluates(f, u)
  BY <1>3
<1>7. Eval(f, u) \in vals
  OBVIOUS
<1> HIDE DEF f, E, vals
<1>8. Eval(f, u) = Eval(f, w)
  BY <1>2, <1>4, <1>5, <1>6, PartlyEvaluated
<1>9. v = Eval(f, u)
  BY <1>3, <1>7 DEF IsSingleton
<1>10. Eval(e, w) \in 0..P - 1
  BY LinearOn
<1>11. QED
  BY <1>2, <1>8, <1>9, <1>10

-----------------------------------------------------------------------------
\* Offsets from one column, which hold modulo the prime.
Reached(w, x) ==
  {r \in UNION {[S -> Int] : S \in SUBSET DOMAIN w} : x \in DOMAIN r /\ \A y \in DOMAIN r : Same(w[y], w[x] + r[y])}

\* Offsets along differences are distances in the field.
LEMMA ReachedIs ==
  ASSUME NEW w, NEW x, NEW r \in Reached(w, x)
  PROVE  DOMAIN r \subseteq DOMAIN w /\ x \in DOMAIN r /\ \A y \in DOMAIN r : r[y] \in Int /\ Same(w[y], w[x] + r[y])
BY DEF Reached

LEMMA IsReached ==
  ASSUME NEW w, NEW x, NEW S \in SUBSET DOMAIN w, NEW r, r = [y \in S |-> r[y]], x \in S,
         \A y \in S : r[y] \in Int /\ Same(w[y], w[x] + r[y])
  PROVE  r \in Reached(w, x)
<1>1. r \in [S -> Int]
  OBVIOUS
<1>2. QED
  BY <1>1 DEF Reached

LEMMA ReachedFromSelf ==
  ASSUME NEW w, InField(w), NEW x \in DOMAIN w PROVE Just(x, 0) \in Reached(w, x)
<1> DEFINE r == Just(x, 0)
<1>1. r = [y \in {x} |-> r[y]] /\ r[x] = 0
  BY DEF Just
<1>2. w[x] \in Int
  BY PrimeIsInt DEF InField
<1>3. Same(w[x], w[x] + 0)
  <2>1. w[x] + 0 = w[x]
    BY <1>2
  <2>2. QED
    BY <1>2, <2>1, SameRefl
<1> HIDE DEF r
<1>4. QED
  BY <1>1, <1>3, IsReached DEF r

\* One more offset, and all of them.
LEMMA ExtendTrue ==
  ASSUME NEW w, NEW D, \A d \in D : TrueStep(d, w), NEW x \in DOMAIN w, NEW rel \in Reached(w, x), InField(w)
  PROVE  Extend(D, rel) \in Reached(w, x)
<1> DEFINE out == {d \in D : d.from \in DOMAIN rel /\ d.to \notin DOMAIN rel}
           d == CHOOSE e \in out : TRUE
           j == Joined(rel, Just(d.to, rel[d.from] + d.by))
<1>1. Extend(D, rel) = IF out = {} THEN rel ELSE j
  BY DEF Extend
<1>2. CASE out = {}
  BY <1>1, <1>2
<1>3. CASE out # {}
  <2>1. d \in out
    BY <1>3
  <2>2. d.from \in DOMAIN rel /\ d.to \notin DOMAIN rel /\ TrueStep(d, w)
    BY <2>1
  <2> DEFINE k == rel[d.from] + d.by
             y == d.to
             S == DOMAIN rel \cup {y}
  <2> HIDE DEF d
  <2>3. DOMAIN rel \subseteq DOMAIN w /\ x \in DOMAIN rel /\ \A z \in DOMAIN rel : rel[z] \in Int /\ Same(w[z], w[x] + rel[z])
    BY ReachedIs
  <2>4. w[x] \in Int
    BY PrimeIsInt DEF InField
  <2>5. d.by \in Int /\ y \in DOMAIN w /\ Same(w[y], w[d.from] + d.by)
    BY <2>2 DEF TrueStep
  <2>6. k \in Int /\ Same(w[y], w[x] + k)
    <3>1. rel[d.from] \in Int /\ Same(w[d.from], w[x] + rel[d.from])
      BY <2>2, <2>3
    <3>2. Same(w[d.from] + d.by, (w[x] + rel[d.from]) + d.by)
      BY <2>5, <3>1, SameRefl, SameAdd
    <3>3. (w[x] + rel[d.from]) + d.by = w[x] + k
      BY <2>4, <2>5, <3>1
    <3>4. Same(w[y], w[x] + k)
      BY <2>5, <3>2, <3>3, SameTrans
    <3>5. QED
      BY <2>5, <3>1, <3>4
  <2> DEFINE g == Just(y, k)
  <2>7. DOMAIN g = {y} /\ g[y] = k
    BY JustIs
  <2>8. j = Joined(rel, g)
    OBVIOUS
  <2> HIDE DEF g, k, j, y
  <2>9. /\ DOMAIN j = S
        /\ \A z \in DOMAIN rel : j[z] = rel[z]
        /\ j[y] = k
        /\ j = [z \in S |-> j[z]]
    <3>1. j = [z \in DOMAIN rel \cup DOMAIN g |-> IF z \in DOMAIN rel THEN rel[z] ELSE g[z]]
      BY <2>8, JoinedFunction
    <3>2. y \notin DOMAIN rel
      BY <2>2 DEF y
    <3>3. QED
      BY <2>7, <3>1, <3>2
  <2>10. \A z \in S : j[z] \in Int /\ Same(w[z], w[x] + j[z])
    BY <2>3, <2>6, <2>9
  <2>11. S \in SUBSET DOMAIN w /\ x \in S
    BY <2>3, <2>5
  <2> HIDE DEF S
  <2>12. j \in Reached(w, x)
    BY <2>9, <2>10, <2>11, IsReached
  <2>13. QED
    BY <1>1, <1>3, <2>12
<1>4. QED
  BY <1>2, <1>3

LEMMA ReachTrue ==
  ASSUME NEW w, InField(w), NEW D, IsFiniteSet(D), \A d \in D : TrueStep(d, w), NEW x \in DOMAIN w
  PROVE  Reach(D, x) \in Reached(w, x)
<1> DEFINE N == Cardinality(D)
           X == Reached(w, x)
           Computes(r) == r = [n \in 0..N |-> IF n = 0 THEN Just(x, 0) ELSE Extend(D, r[n - 1])]
           z == CHOOSE r : Computes(r)
           G == [n \in 1..N |-> [b \in X |-> Extend(D, b)]]
<1>1. N \in Nat
  BY FS_CardinalityType
<1>2. \A n \in 1..N : \A b \in X : Extend(D, b) \in X
  BY ExtendTrue
<1>3. Just(x, 0) \in X
  BY ReachedFromSelf
<1>4. Reach(D, x) = z[N]
  BY DEF Reach
<1> HIDE DEF X, N
<1>5. PICK r : IsRun(r, N, X, Just(x, 0), G)
  <2>1. G \in [1..N -> [X -> X]]
    BY <1>2
  <2> HIDE DEF G
  <2>2. QED
    BY <1>1, <1>3, <2>1, RunsExist
<1>6. r \in [0..N -> X] /\ r[0] = Just(x, 0) /\ \A n \in 1..N : r[n] = G[n][r[n - 1]]
  BY <1>5 DEF IsRun
<1>7. ASSUME NEW n \in 1..N PROVE r[n] = Extend(D, r[n - 1])
  <2>1. n - 1 \in 0..N
    BY <1>1
  <2>2. r[n - 1] \in X /\ G[n] = [b \in X |-> Extend(D, b)]
    BY <1>6, <2>1
  <2> HIDE DEF G
  <2>3. QED
    BY <1>6, <2>2
<1>8. Computes(r)
  <2>1. \A n \in 0..N : n = 0 \/ n \in 1..N
    BY <1>1
  <2> HIDE DEF G
  <2>2. QED
    BY <1>6, <1>7, <2>1
<1>9. Computes(z)
  <2> HIDE DEF Computes
  <2>1. QED
    BY <1>8
<1> HIDE DEF z, G
<1>10. \A n \in 0..N : z[n] = IF n = 0 THEN Just(x, 0) ELSE Extend(D, z[n - 1])
  BY <1>9
<1> DEFINE T == {n \in 0..N : z[n] \in X}
<1>11. 0 \in T
  <2>1. 0 \in 0..N
    BY <1>1
  <2>2. QED
    BY <1>3, <1>10, <2>1
<1>12. ASSUME NEW n \in 1..N, n - 1 \in T PROVE n \in T
  <2>1. n \in 0..N /\ n # 0
    BY <1>1
  <2>2. z[n] = Extend(D, z[n - 1]) /\ z[n - 1] \in X
    BY <1>10, <1>12, <2>1
  <2>3. QED
    BY <1>2, <2>1, <2>2
<1>13. \A n \in 0..N : n \in T
  <2> HIDE DEF T
  <2>1. QED
    BY <1>1, <1>11, <1>12, RunsUpTo
<1>14. z[N] \in X
  <2>1. N \in 0..N
    BY <1>1
  <2>2. QED
    BY <1>13, <2>1
<1>15. QED
  BY <1>4, <1>14 DEF X


\* A finite set of integers has a smallest one.
LEMMA SmallestInteger ==
  ASSUME NEW T, IsFiniteSet(T), T \subseteq Int, T # {} PROVE \E n \in T : \A m \in T : n <= m
<1> DEFINE HasLeast(S) == \E n \in S : \A m \in S : n <= m
           B == {S \in SUBSET T : S # {} /\ ~HasLeast(S)}
<1>1. SUFFICES ASSUME B # {} PROVE FALSE
  <2>1. B = {} => HasLeast(T)
    OBVIOUS
  <2>2. QED
    BY <2>1
<1>2. PICK S \in B : \A x \in S : S \ {x} \notin B
  <2>1. B \subseteq SUBSET T
    OBVIOUS
  <2> HIDE DEF B
  <2>2. QED
    BY <1>1, <2>1, SmallestSet
<1>3. S \in SUBSET T /\ S # {} /\ ~HasLeast(S)
  OBVIOUS
<1>4. PICK x \in S : TRUE
  BY <1>3
<1> DEFINE R == S \ {x}
<1>5. R = {} \/ HasLeast(R)
  <2>1. R \notin B /\ R \in SUBSET T
    BY <1>2, <1>3
  <2> HIDE DEF R, HasLeast
  <2>2. QED
    BY <2>1
<1>6. x \in Int /\ S = R \cup {x} /\ S \subseteq Int
  BY <1>3
<1>7. CASE R = {}
  <2>1. \A m \in S : x <= m
    <3> HIDE DEF R
    <3>1. QED
      BY <1>6, <1>7
  <2>2. QED
    BY <1>3, <2>1
<1>8. CASE HasLeast(R)
  <2>1. PICK n \in R : \A m \in R : n <= m
    BY <1>8
  <2> HIDE DEF R
  <2>2. n \in Int /\ n \in S
    BY <1>6
  <2>3. CASE n <= x
    <3>1. \A m \in S : n <= m
      BY <1>6, <2>1, <2>3
    <3>2. QED
      BY <1>3, <2>2, <3>1
  <2>4. CASE ~(n <= x)
    <3>1. \A m \in S : x <= m
      <4>1. SUFFICES ASSUME NEW m \in S PROVE x <= m
        OBVIOUS
      <4>2. m = x \/ n <= m
        BY <1>6, <2>1
      <4>3. m \in Int
        BY <1>6
      <4>4. QED
        BY <1>6, <2>2, <2>4, <4>2, <4>3
    <3>2. QED
      BY <1>3, <3>1
  <2>5. QED
    BY <2>3, <2>4
<1>9. QED
  BY <1>5, <1>7, <1>8

\* A column is the earliest one reached, plus its offset.
LEMMA AliasTrue ==
  ASSUME NEW w, InField(w), IsFiniteSet(DOMAIN w), NEW D, IsFiniteSet(D), \A d \in D : TrueStep(d, w), NEW x \in DOMAIN w
  PROVE  /\ AliasIn(Offsets(D, x), x).base \in DOMAIN w /\ AliasIn(Offsets(D, x), x).by \in Int
         /\ Same(w[x], w[AliasIn(Offsets(D, x), x).base] + AliasIn(Offsets(D, x), x).by)
<1> DEFINE rel == Reach(D, x)
           T == {rel[y] : y \in DOMAIN rel}
           low == Min(T)
           o == Offsets(D, x)
           base == CHOOSE y \in DOMAIN o : o[y] = 0
<1>1. rel \in Reached(w, x)
  BY ReachTrue
<1>2. o = [y \in DOMAIN rel |-> rel[y] - low]
  BY DEF Offsets
<1> HIDE DEF rel
<1>3. DOMAIN rel \subseteq DOMAIN w /\ x \in DOMAIN rel /\ \A y \in DOMAIN rel : rel[y] \in Int /\ Same(w[y], w[x] + rel[y])
  BY <1>1, ReachedIs
<1>4. IsFiniteSet(T)
  <2>1. DOMAIN rel \in SUBSET DOMAIN w
    BY <1>3
  <2>2. IsFiniteSet(DOMAIN rel)
    BY <2>1, FS_Subset
  <2>3. QED
    BY <2>2, ImageFinite
<1>5. T \subseteq Int /\ T # {}
  BY <1>3
<1>6. low \in T
  <2> HIDE DEF T
  <2>1. \E n \in T : \A m \in T : n <= m
    BY <1>4, <1>5, SmallestInteger
  <2>2. QED
    BY <2>1 DEF Min
<1>7. low \in Int
  BY <1>5, <1>6
<1>8. PICK y \in DOMAIN rel : rel[y] = low
  BY <1>6
<1> HIDE DEF T, low, o
<1>9. base \in DOMAIN o /\ o[base] = 0
  <2>1. y \in DOMAIN o /\ o[y] = 0
    BY <1>2, <1>7, <1>8
  <2>2. QED
    BY <2>1
<1> HIDE DEF base
<1>10. base \in DOMAIN rel /\ rel[base] = low /\ o[x] = rel[x] - low
  BY <1>2, <1>3, <1>7, <1>9
<1>11. AliasIn(o, x).base = base /\ AliasIn(o, x).by = o[x]
  BY DEF AliasIn, base
<1>12. w[x] \in Int /\ rel[x] \in Int /\ o[x] \in Int
  <2>1. w[x] \in Int
    BY PrimeIsInt DEF InField
  <2>2. QED
    BY <1>3, <1>7, <1>10, <2>1
<1>13. Same(w[x], w[base] + o[x])
  <2>1. Same(w[base], w[x] + low)
    BY <1>3, <1>10
  <2>2. Same(w[base] + o[x], (w[x] + low) + o[x])
    BY <1>12, <2>1, SameRefl, SameAdd
  <2>3. (w[x] + low) + o[x] = w[x] + rel[x]
    BY <1>7, <1>10, <1>12
  <2>4. Same(w[x], w[x] + rel[x])
    BY <1>3
  <2>5. QED
    BY <2>2, <2>3, <2>4, SameSym, SameTrans
<1>14. QED
  BY <1>3, <1>10, <1>11, <1>12, <1>13 DEF o

\* Substitutions are differences.
LEMMA SubsTrue == ASSUME NEW c, NEW w, Assigned(c, w), NEW d \in c.subs PROVE TrueStep(d, w)
<1>1. d.from \in Cols(c) /\ d.to \in Cols(c) /\ d.by \in Int
  BY AssignedIs DEF IsCircuit, IsStep, Cols
<1>2. (w[d.from] + d.by - w[d.to]) % P = 0
  BY DEF Assigned, Satisfied
<1>3. w[d.from] \in Int /\ w[d.to] \in Int /\ DOMAIN w = Cols(c)
  BY <1>1, AssignedIs
<1>4. Same(w[d.from] + d.by - w[d.to], 0)
  BY <1>1, <1>2, <1>3, SameZero
<1>5. Same(w[d.from] + d.by - w[d.to] + w[d.to], 0 + w[d.to])
  BY <1>3, <1>4, SameRefl, SameAdd
<1>6. w[d.from] + d.by - w[d.to] + w[d.to] = w[d.from] + d.by /\ 0 + w[d.to] = w[d.to]
  BY <1>1, <1>3
<1>7. Same(w[d.to], w[d.from] + d.by)
  BY <1>5, <1>6, SameSym
<1>8. QED
  BY <1>1, <1>3, <1>7 DEF TrueStep

\* Timestamps are columns of the circuit.
LEMMA SlotIn == ASSUME NEW c, NEW w, Assigned(c, w), NEW e \in Exprs(Cols(c)) PROVE Slot(e) \subseteq Cols(c)
<1>1. Columns(Linear(e)) \subseteq Cols(c)
  BY LinearOn
<1>2. QED
  BY <1>1 DEF Slot

LEMMA SlotsIn ==
  ASSUME NEW c, NEW w, Assigned(c, w), NEW rows, \A i \in DOMAIN rows : rows[i].ts \in Exprs(Cols(c)), NEW kinds, NEW k
  PROVE  Slots(rows, kinds, k) \subseteq Cols(c)
<1>1. \A i \in DOMAIN rows : Slot(rows[i].ts) \subseteq Cols(c)
  BY SlotIn
<1>2. QED
  BY <1>1 DEF Slots

\* Every alias holds: a timestamp is its base and the offset, in the field.
THEOREM AliasesTrue ==
  ASSUME NEW c, NEW w, Assigned(c, w), NEW kinds PROVE AliasesAgree(Aliases(c, kinds), Cols(c), w)
<1> DEFINE cols == Slots(c.rows, kinds, "send")
           D == {d \in Differences(c) \cup c.subs : {d.from, d.to} \subseteq cols}
           al == AliasesIn(cols, D)
<1>1. Aliases(c, kinds) = al
  BY DEF Aliases, AliasesOver
<1>2. \A d \in D : TrueStep(d, w)
  BY DifferencesTrue, SubsTrue
<1>3. IsFiniteSet(D)
  <2>1. IsFiniteSet(Differences(c))
    BY DifferencesFinite
  <2>2. IsFiniteSet(c.subs)
    BY AssignedIs DEF IsCircuit
  <2>3. IsFiniteSet(Differences(c) \cup c.subs)
    BY <2>1, <2>2, FS_Union
  <2>4. D \in SUBSET (Differences(c) \cup c.subs)
    OBVIOUS
  <2> HIDE DEF D
  <2>5. QED
    BY <2>3, <2>4, FS_Subset
<1>4. cols \subseteq Cols(c)
  <2>1. \A i \in DOMAIN c.rows : c.rows[i].ts \in Exprs(Cols(c))
    BY AssignedIs, CircuitIs DEF Cols
  <2>2. QED
    BY <2>1, SlotsIn
<1> HIDE DEF D, cols
<1>5. DOMAIN al \subseteq cols /\ \A x \in DOMAIN al : al[x] = AliasIn(Offsets(D, x), x)
  BY DEF AliasesIn
<1>6. InField(w) /\ DOMAIN w = Cols(c) /\ IsFiniteSet(DOMAIN w)
  BY AssignedIs, AssignedInField
<1>7. ASSUME NEW x \in DOMAIN al PROVE al[x].base \in Cols(c) /\ al[x].by \in Int /\ Same(w[x], w[al[x].base] + al[x].by)
  <2>1. x \in DOMAIN w /\ al[x] = AliasIn(Offsets(D, x), x)
    BY <1>4, <1>5, <1>6
  <2>2. QED
    BY <1>2, <1>3, <1>6, <2>1, AliasTrue
<1>8. QED
  BY <1>1, <1>7 DEF AliasesAgree

-----------------------------------------------------------------------------
\* A timestamp over its alias has the same value.
LEMMA RetimedTrue ==
  ASSUME NEW c, NEW w, Assigned(c, w), NEW al, AliasesAgree(al, Cols(c), w), NEW e \in Exprs(Cols(c))
  PROVE  Retimed(e, al) \in Exprs(Cols(c)) /\ Eval(Retimed(e, al), w) = Eval(e, w)
<1>1. PrimeField /\ OnColumns(Cols(c), w)
  BY AssignedIs
<1>2. PinsAgree(<<>>, w)
  BY DEF PinsAgree
<1>3. Fold(e, <<>>, al) \in Exprs(Cols(c)) /\ Eval(Fold(e, <<>>, al), w) = Eval(e, w)
  BY <1>1, <1>2, FoldIs
<1>4. QED
  BY <1>3 DEF Retimed

\* A simplified interaction has the values of the original one.
LEMMA RowTrue ==
  ASSUME NEW c, NEW w, Assigned(c, w), NEW p, KnownFacts(p, Cols(c), w), NEW al, AliasesAgree(al, Cols(c), w),
         NEW row \in ToSet(c.rows), NEW ev, \A v \in ev : v = Eval(row.ptr, w) /\ v \in 0..P - 1
  PROVE  /\ SameRowValues(row, RowAs(p, al, row, ev), w)
         /\ RowAs(p, al, row, ev).ts \in Exprs(Cols(c)) /\ RowAs(p, al, row, ev).data = row.data
<1> DEFINE C == Cols(c)
           space == Simplify(p, row.space)
           ptr == IF ev = {} THEN Simplify(p, row.ptr) ELSE Form(Num(CHOOSE v \in ev : TRUE))
           ts == Retimed(Simplify(p, row.ts), al)
           mult == IF IsLinear(row.mult) THEN Simplify(p, row.mult) ELSE row.mult
           new == RowAs(p, al, row, ev)
<1>1. /\ row \in [mult : {row.mult}, space : {row.space}, ptr : {row.ptr}, data : {row.data}, ts : {row.ts}]
      /\ row.mult \in Exprs(C) /\ row.space \in Exprs(C) /\ row.ptr \in Exprs(C) /\ row.ts \in Exprs(C)
  BY AssignedIs, CircuitIs DEF Cols
<1>2. new.space = space /\ new.ptr = ptr /\ new.ts = ts /\ new.mult = mult /\ new.data = row.data
  <2>1. new = [row EXCEPT !.space = space, !.ptr = ptr, !.ts = ts, !.mult = mult]
    BY DEF RowAs
  <2> HIDE DEF new, space, ptr, ts, mult
  <2>2. QED
    BY <1>1, <2>1
<1>3. Eval(space, w) = Eval(row.space, w)
  BY <1>1, SimplifyTrue
<1>4. Eval(ptr, w) = Eval(row.ptr, w)
  <2>1. CASE ev = {}
    BY <1>1, <2>1, SimplifyTrue
  <2>2. CASE ev # {}
    <3>1. (CHOOSE v \in ev : TRUE) = Eval(row.ptr, w) /\ Eval(row.ptr, w) \in 0..P - 1
      <4>1. (CHOOSE v \in ev : TRUE) \in ev
        BY <2>2
      <4>2. QED
        BY <4>1
    <3>2. PrimeField /\ OnColumns(C, w)
      BY AssignedIs
    <3>3. Eval(Form(Num(Eval(row.ptr, w))), w) = Eval(row.ptr, w)
      BY <3>1, <3>2, NumberEval
    <3>4. QED
      BY <2>2, <3>1, <3>3
  <2>3. QED
    BY <2>1, <2>2
<1>5. ts \in Exprs(C) /\ Eval(ts, w) = Eval(row.ts, w)
  <2> DEFINE s == Simplify(p, row.ts)
  <2>1. s \in Exprs(C) /\ Eval(s, w) = Eval(row.ts, w)
    BY <1>1, SimplifyTrue
  <2> HIDE DEF s
  <2>2. Retimed(s, al) \in Exprs(C) /\ Eval(Retimed(s, al), w) = Eval(s, w)
    BY <2>1, RetimedTrue
  <2>3. QED
    BY <2>1, <2>2 DEF s
<1>6. Eval(mult, w) = Eval(row.mult, w)
  BY <1>1, SimplifyTrue
<1> HIDE DEF new, space, ptr, ts, mult
<1>7. QED
  BY <1>2, <1>3, <1>4, <1>5, <1>6 DEF SameRowValues, new

\* A row with what is known folded in has the same values.
LEMMA SimplifiedRowTrue ==
  ASSUME NEW c, NEW w, Assigned(c, w), SelectorIsValid(c), FlagsDecide(c), NEW p, KnownFacts(p, Cols(c), w), p.pins = Pins(c),
         NEW al, AliasesAgree(al, Cols(c), w), NEW row \in ToSet(c.rows)
  PROVE  /\ SameRowValues(row, SimplifiedRow(c, p, al, row), w)
         /\ SimplifiedRow(c, p, al, row).ts \in Exprs(Cols(c)) /\ SimplifiedRow(c, p, al, row).data = row.data
<1> DEFINE ev == Evaluated(c, p, row.ptr)
<1>1. row.ptr \in Exprs(Cols(c))
  BY AssignedIs, CircuitIs DEF Cols
<1>2. \A v \in ev : v = Eval(row.ptr, w) /\ v \in 0..P - 1
  BY <1>1, EvaluatedTrue
<1>3. SimplifiedRow(c, p, al, row) = RowAs(p, al, row, ev)
  BY DEF SimplifiedRow
<1> HIDE DEF ev
<1>4. QED
  BY <1>2, <1>3, RowTrue

-----------------------------------------------------------------------------
\* Bounds that hold if the columns T they speak of are small.
SmallOn(T, w) == \A x \in T \cap DOMAIN w : w[x] < TsMax
Boxes(w) == [col : DOMAIN w, lo : Int, hi : Nat]
BoxMaps(w) == UNION {[S -> Boxes(w)] : S \in SUBSET DOMAIN w}
MaybeBounds(w, T) == {b \in BoxMaps(w) : DOMAIN b \subseteq T => b \in TrueBounds(w)}

\* Bounds that hold if clocks are where they are taken to be.
LEMMA BoxMapIs ==
  ASSUME NEW w, NEW b \in BoxMaps(w)
  PROVE  DOMAIN b \subseteq DOMAIN w /\ \A x \in DOMAIN b : b[x] \in Boxes(w) /\ b[x].hi \in Nat
BY DEF BoxMaps, Boxes

\* The same for a bound that is put, and for the links between clocks.
LEMMA PutTyped ==
  ASSUME NEW w, NEW b \in BoxMaps(w), NEW new \in SUBSET Boxes(w)
  PROVE  Put(b, new) \in BoxMaps(w) /\ DOMAIN Put(b, new) = DOMAIN b \cup {n.col : n \in new}
<1> DEFINE better(x) == {n \in new : n.col = x /\ (x \in DOMAIN b => n.hi < b[x].hi)}
           least(S) == CHOOSE n \in S : \A m \in S : n.hi <= m.hi
           D == DOMAIN b \cup {n.col : n \in new}
           p == [x \in D |-> IF better(x) = {} THEN b[x] ELSE least(better(x))]
<1>1. Put(b, new) = p
  BY TabulatedIs DEF Put
<1>2. D \subseteq DOMAIN w
  BY BoxMapIs DEF Boxes
<1>3. ASSUME NEW x \in D PROVE p[x] \in Boxes(w)
  <2>1. CASE better(x) = {}
    <3>1. p[x] = b[x] /\ x \in DOMAIN b
      BY <2>1
    <3>2. b[x] \in Boxes(w)
      BY <3>1, BoxMapIs
    <3> HIDE DEF p
    <3>3. QED
      BY <3>1, <3>2
  <2>2. CASE better(x) # {}
    <3> DEFINE S == better(x)
               T == {n.hi : n \in S}
    <3>1. p[x] = least(S)
      BY <2>2
    <3>2. S \subseteq new
      OBVIOUS
    <3> HIDE DEF S
    <3>3. T \subseteq Nat /\ T # {}
      BY <2>2, <3>2 DEF S, Boxes
    <3>4. \E n \in S : \A m \in S : n.hi <= m.hi
      <4>1. PICK h \in T : \A k \in T : h <= k
        <5> HIDE DEF T
        <5>1. QED
          BY <3>3, SmallestNumber
      <4>2. QED
        BY <4>1
    <3>5. least(S) \in S
      BY <3>4
    <3>6. QED
      BY <3>1, <3>2, <3>5
  <2>3. QED
    BY <2>1, <2>2
<1>4. p = [x \in D |-> p[x]] /\ DOMAIN p = D
  OBVIOUS
<1> HIDE DEF p, D
<1>5. p \in [D -> Boxes(w)]
  BY <1>3, <1>4
<1>6. p \in BoxMaps(w)
  BY <1>2, <1>5 DEF BoxMaps
<1>7. QED
  BY <1>1, <1>4, <1>6 DEF D

LEMMA LinksMaybe ==
  ASSUME NEW w, InField(w), NEW D, \A d \in D : TrueStep(d, w), NEW T, SmallOn(T, w), NEW seen, NEW b \in MaybeBounds(w, T)
  PROVE  Put(b, Links(D, seen, b)) \in MaybeBounds(w, T)
<1> DEFINE later == {d \in D : d.from \in DOMAIN b /\ d.to \notin seen /\ d.by >= 0 /\ b[d.from].hi + d.by < P}
           earlier == {d \in D : d.from \in DOMAIN b /\ d.to \notin seen \cup DOMAIN b /\ d.by < 0}
           new == Links(D, seen, b)
           q == Put(b, new)
<1>1. new = {BoundOf(d.to, 0, b[d.from].hi + d.by) : d \in later} \cup {BoundOf(d.to, 0, TsMax) : d \in earlier}
  BY DEF Links
<1>2. b \in BoxMaps(w) /\ (DOMAIN b \subseteq T => b \in TrueBounds(w))
  BY DEF MaybeBounds
<1>3. \A n \in new : \/ \E d \in later : n = BoundOf(d.to, 0, b[d.from].hi + d.by)
                     \/ \E d \in earlier : n = BoundOf(d.to, 0, TsMax)
  BY <1>1
<1>4. \A d \in later : d.to \in DOMAIN w /\ b[d.from].hi + d.by \in Nat
  <2>1. SUFFICES ASSUME NEW d \in later PROVE d.to \in DOMAIN w /\ b[d.from].hi + d.by \in Nat
    OBVIOUS
  <2>2. TrueStep(d, w) /\ d.from \in DOMAIN b /\ d.by >= 0
    OBVIOUS
  <2>3. d.to \in DOMAIN w /\ d.by \in Int
    BY <2>2 DEF TrueStep
  <2>4. b[d.from].hi \in Nat
    BY <1>2, <2>2, BoxMapIs
  <2>5. QED
    BY <2>2, <2>3, <2>4
<1>5. \A d \in earlier : d.to \in DOMAIN w
  BY DEF TrueStep
<1>6. new \in SUBSET Boxes(w)
  <2>1. SUFFICES ASSUME NEW n \in new PROVE n \in Boxes(w)
    OBVIOUS
  <2> HIDE DEF new, later, earlier
  <2>2. CASE \E d \in later : n = BoundOf(d.to, 0, b[d.from].hi + d.by)
    BY <1>4, <2>2 DEF BoundOf, Boxes
  <2>3. CASE \E d \in earlier : n = BoundOf(d.to, 0, TsMax)
    BY <1>5, <2>3, PrimeIsInt DEF BoundOf, Boxes
  <2>4. QED
    BY <1>3, <2>2, <2>3
<1>7. q \in BoxMaps(w) /\ DOMAIN q = DOMAIN b \cup {n.col : n \in new}
  <2> HIDE DEF new
  <2>1. QED
    BY <1>2, <1>6, PutTyped
<1>8. ASSUME DOMAIN q \subseteq T PROVE q \in TrueBounds(w)
  <2>1. b \in TrueBounds(w)
    <3>1. DOMAIN b \subseteq T
      <4> HIDE DEF q, new
      <4>1. QED
        BY <1>7, <1>8
    <3>2. QED
      BY <1>2, <3>1
  <2>2. \A n \in new : n.col \in T
    <3> HIDE DEF q, new
    <3>1. QED
      BY <1>7, <1>8
  <2>3. ASSUME NEW n \in new PROVE n \in TrueBoxes(w)
    <3>1. CASE \E d \in later : n = BoundOf(d.to, 0, b[d.from].hi + d.by)
      <4>1. PICK d \in later : n = BoundOf(d.to, 0, b[d.from].hi + d.by)
        BY <3>1
      <4>2. TrueStep(d, w) /\ d.from \in DOMAIN b /\ d.by >= 0 /\ b[d.from].hi + d.by < P
        OBVIOUS
      <4>3. d.to \in DOMAIN w /\ d.from \in DOMAIN w /\ d.by \in Int /\ Same(w[d.to], w[d.from] + d.by)
        BY <4>2 DEF TrueStep
      <4>4. b[d.from].hi \in Int /\ w[d.from] < b[d.from].hi
        BY <2>1, <4>2, BoundsAre
      <4>5. w[d.from] \in 0..P - 1 /\ w[d.to] \in 0..P - 1
        BY <4>3 DEF InField
      <4>6. w[d.from] + d.by \in 0..P - 1
        BY <4>2, <4>3, <4>4, <4>5, PrimeIsInt
      <4>7. w[d.to] = w[d.from] + d.by
        BY <4>3, <4>5, <4>6, SameInField
      <4>8. 0 <= w[d.to] /\ w[d.to] < b[d.from].hi + d.by /\ b[d.from].hi + d.by \in Int
        BY <4>3, <4>4, <4>5, <4>7, PrimeIsInt
      <4> HIDE DEF later, new
      <4>9. QED
        BY <4>1, <4>3, <4>8, BoxIsTrue
    <3>2. CASE \E d \in earlier : n = BoundOf(d.to, 0, TsMax)
      <4>1. PICK d \in earlier : n = BoundOf(d.to, 0, TsMax)
        BY <3>2
      <4>2. d.to \in DOMAIN w
        BY <1>5
      <4>3. d.to \in T
        <5>1. n.col = d.to
          BY <4>1 DEF BoundOf
        <5> HIDE DEF new
        <5>2. QED
          BY <2>2, <5>1
      <4>4. w[d.to] \in 0..P - 1 /\ w[d.to] < TsMax
        BY <4>2, <4>3 DEF InField, SmallOn
      <4>5. 0 <= w[d.to] /\ TsMax \in Int
        BY <4>4, PrimeIsInt
      <4> HIDE DEF earlier, new
      <4>6. QED
        BY <4>1, <4>2, <4>4, <4>5, BoxIsTrue
    <3> HIDE DEF later, earlier, new
    <3>3. QED
      BY <1>3, <3>1, <3>2
  <2>4. new \in SUBSET TrueBoxes(w)
    BY <2>3
  <2> HIDE DEF new
  <2>5. QED
    BY <2>1, <2>4, PutTrue
<1> HIDE DEF q
<1>9. QED
  BY <1>7, <1>8 DEF MaybeBounds, q

LEMMA LinkedMaybe ==
  ASSUME NEW w, InField(w), NEW D, IsFiniteSet(D), \A d \in D : TrueStep(d, w), NEW T, SmallOn(T, w), NEW seen, NEW start \in MaybeBounds(w, T)
  PROVE  Linked(D, seen, start) \in MaybeBounds(w, T)
<1> DEFINE N == Cardinality(D)
           X == MaybeBounds(w, T)
           Computes(r) == r = [n \in 0..N |-> IF n = 0 THEN start ELSE Put(r[n - 1], Links(D, seen, r[n - 1]))]
           z == CHOOSE r : Computes(r)
           G == [n \in 1..N |-> [b \in X |-> Put(b, Links(D, seen, b))]]
<1>1. N \in Nat
  BY FS_CardinalityType
<1>2. \A n \in 1..N : \A b \in X : Put(b, Links(D, seen, b)) \in X
  BY LinksMaybe
<1>3. start \in X
  OBVIOUS
<1>4. Linked(D, seen, start) = z[N]
  BY DEF Linked
<1> HIDE DEF X, N
<1>5. PICK r : IsRun(r, N, X, start, G)
  <2>1. G \in [1..N -> [X -> X]]
    BY <1>2
  <2> HIDE DEF G
  <2>2. QED
    BY <1>1, <1>3, <2>1, RunsExist
<1>6. r \in [0..N -> X] /\ r[0] = start /\ \A n \in 1..N : r[n] = G[n][r[n - 1]]
  BY <1>5 DEF IsRun
<1>7. ASSUME NEW n \in 1..N PROVE r[n] = Put(r[n - 1], Links(D, seen, r[n - 1]))
  <2>1. n - 1 \in 0..N
    BY <1>1
  <2>2. r[n - 1] \in X /\ G[n] = [b \in X |-> Put(b, Links(D, seen, b))]
    BY <1>6, <2>1
  <2> HIDE DEF G
  <2>3. QED
    BY <1>6, <2>2
<1>8. Computes(r)
  <2>1. \A n \in 0..N : n = 0 \/ n \in 1..N
    BY <1>1
  <2> HIDE DEF G
  <2>2. QED
    BY <1>6, <1>7, <2>1
<1>9. Computes(z)
  <2> HIDE DEF Computes
  <2>1. QED
    BY <1>8
<1> HIDE DEF z, G
<1>10. \A n \in 0..N : z[n] = IF n = 0 THEN start ELSE Put(z[n - 1], Links(D, seen, z[n - 1]))
  BY <1>9
<1> DEFINE Q == {n \in 0..N : z[n] \in X}
<1>11. 0 \in Q
  <2>1. 0 \in 0..N
    BY <1>1
  <2>2. QED
    BY <1>3, <1>10, <2>1
<1>12. ASSUME NEW n \in 1..N, n - 1 \in Q PROVE n \in Q
  <2>1. n \in 0..N /\ n # 0
    BY <1>1
  <2>2. z[n] = Put(z[n - 1], Links(D, seen, z[n - 1])) /\ z[n - 1] \in X
    BY <1>10, <1>12, <2>1
  <2>3. QED
    BY <1>2, <2>1, <2>2
<1>13. \A n \in 0..N : n \in Q
  <2> HIDE DEF Q
  <2>1. QED
    BY <1>1, <1>11, <1>12, RunsUpTo
<1>14. z[N] \in X
  <2>1. N \in 0..N
    BY <1>1
  <2>2. QED
    BY <1>13, <2>1
<1>15. QED
  BY <1>4, <1>14 DEF X

-----------------------------------------------------------------------------
\* The same for the clocks: bounds of sends, and what is linked to them.
LEMMA StartMaybe ==
  ASSUME NEW w, InField(w), NEW T, SmallOn(T, w), NEW S \in SUBSET DOMAIN w
  PROVE  [x \in S |-> BoundOf(x, 0, TsMax)] \in MaybeBounds(w, T)
<1> DEFINE b == [x \in S |-> BoundOf(x, 0, TsMax)]
<1>1. \A x \in S : BoundOf(x, 0, TsMax) \in Boxes(w)
  BY PrimeIsInt DEF BoundOf, Boxes
<1>2. b \in [S -> Boxes(w)] /\ DOMAIN b = S
  BY <1>1
<1>3. ASSUME S \subseteq T PROVE b \in TrueBounds(w)
  <2>1. \A x \in S : BoundOf(x, 0, TsMax) \in TrueBoxes(w) /\ BoundOf(x, 0, TsMax).col = x
    <3>1. SUFFICES ASSUME NEW x \in S PROVE BoundOf(x, 0, TsMax) \in TrueBoxes(w) /\ BoundOf(x, 0, TsMax).col = x
      OBVIOUS
    <3>2. x \in DOMAIN w /\ w[x] \in 0..P - 1 /\ w[x] < TsMax
      BY <1>3 DEF InField, SmallOn
    <3>3. 0 <= w[x] /\ TsMax \in Int
      BY <3>2, PrimeIsInt
    <3>4. BoundOf(x, 0, TsMax).col = x
      BY DEF BoundOf
    <3>5. QED
      BY <3>2, <3>3, <3>4, BoxIsTrue
  <2>2. b \in [S -> TrueBoxes(w)] /\ \A x \in DOMAIN b : b[x].col = x
    BY <2>1
  <2> HIDE DEF b
  <2>3. QED
    BY <1>2, <2>2 DEF TrueBounds
<1>4. b \in BoxMaps(w)
  <2> HIDE DEF b
  <2>1. QED
    BY <1>2 DEF BoxMaps
<1> HIDE DEF b
<1>5. QED
  BY <1>2, <1>3, <1>4 DEF MaybeBounds, b

LEMMA TimesSmall == ASSUME NEW c, NEW w, Assigned(c, w) PROVE SmallOn(c.times, w)
BY AssignedIs DEF SmallOn

LEMMA ClocksMaybe ==
  ASSUME NEW c, NEW w, Assigned(c, w), NEW rows, \A i \in DOMAIN rows : rows[i].ts \in Exprs(Cols(c)), NEW kinds
  PROVE  Clocks(c, rows, kinds) \in MaybeBounds(w, c.times)
<1> DEFINE sends == Slots(rows, kinds, "send")
           recvs == Slots(rows, kinds, "recv")
           start == [x \in sends \ recvs |-> BoundOf(x, 0, TsMax)]
<1>1. Clocks(c, rows, kinds) = Linked(Differences(c), recvs \ sends, start)
  BY DEF Clocks
<1>2. InField(w) /\ DOMAIN w = Cols(c) /\ SmallOn(c.times, w)
  BY AssignedIs, AssignedInField, TimesSmall
<1>3. sends \ recvs \in SUBSET DOMAIN w
  <2>1. sends \subseteq Cols(c)
    BY SlotsIn
  <2> HIDE DEF sends, recvs
  <2>2. QED
    BY <1>2, <2>1
<1>4. start \in MaybeBounds(w, c.times)
  <2> HIDE DEF sends, recvs
  <2>1. QED
    BY <1>2, <1>3, StartMaybe
<1>5. IsFiniteSet(Differences(c)) /\ \A d \in Differences(c) : TrueStep(d, w)
  BY DifferencesFinite, DifferencesTrue
<1> HIDE DEF start
<1>6. QED
  BY <1>1, <1>2, <1>4, <1>5, LinkedMaybe

\* Witnesses are columns of the circuit.
LEMMA WitnessesIn ==
  ASSUME NEW c, NEW w, Assigned(c, w), NEW rows, \A i \in DOMAIN rows : rows[i].ts \in Exprs(Cols(c)), NEW kinds
  PROVE  Witnesses(rows, kinds) \subseteq Cols(c)
<1>1. Slots(rows, kinds, "recv") \subseteq Cols(c)
  BY SlotsIn
<1>2. QED
  BY <1>1 DEF Witnesses

-----------------------------------------------------------------------------
\* What is extracted, field by field.
IsAnalysis(c, an) ==
  /\ an.p = KnownOf(c) /\ an.kinds = KindsOf(c) /\ an.aliases = AliasesOf(c) /\ an.rows = FoldedRows(c)
  /\ an.clocks = DOMAIN ClocksOf(c) /\ an.witnesses = WitnessesOf(c)

\* The fields of an extraction are what the steps of it computed.
LEMMA AnalysedIs ==
  ASSUME NEW c
  PROVE  /\ IsAnalysis(c, Analysed(c)) /\ IsAnalysis(c, Extracted(c))
         /\ \E an : /\ an.rows = FoldedRows(c) /\ an.kinds = KindsOf(c)
                    /\ an.clocks = ClocksOf(c) /\ an.witnesses = WitnessesOf(c)
                    /\ Analysed(c).bounds = Seeded(c, <<{BoundOf(x, 0, Byte) : x \in BytesRead(an)}, ClockBounds(an)>>)
         /\ Extracted(c).bounds = Analysed(c).bounds
         /\ Extracted(c).gaps = Gaps(c, Analysed(c)) /\ Extracted(c).uppers = RecvUppers(c, Analysed(c))
         /\ Extracted(c).defs = [x \in DOMAIN Analysed(c).bounds |-> Affine(c, Analysed(c), x)]
<1> DEFINE p == KnownOf(c)
           a0 == Decided(c, p)
           a1 == Renamed(c, a0)
           a2 == Rewritten(c, a1)
           a3 == Clocked(c, a2)
           a4 == Closed(c, a3)
           a5 == WithRules(c, a4)
<1>1. Analysed(c) = a4 /\ Extracted(c) = a5
  BY DEF Analysed, Extracted, KnownOf
<1>2. a0 = [p |-> p, kinds |-> KindsOf(c), aliases |-> <<>>, rows |-> <<>>, clocks |-> <<>>, witnesses |-> {},
            bounds |-> <<>>, gaps |-> {}, uppers |-> {}, defs |-> <<>>]
  BY DEF Decided, KindsOf
<1> HIDE DEF a0, p
<1>3. a1 = [p |-> p, kinds |-> KindsOf(c), aliases |-> AliasesOf(c), rows |-> <<>>, clocks |-> <<>>, witnesses |-> {},
            bounds |-> <<>>, gaps |-> {}, uppers |-> {}, defs |-> <<>>]
  <2>1. a0.kinds = KindsOf(c)
    BY <1>2
  <2>2. a1 = [a0 EXCEPT !.aliases = AliasesOf(c)]
    BY <2>1 DEF Renamed, AliasesOf
  <2> HIDE DEF a1
  <2>3. QED
    BY <1>2, <2>2
<1> HIDE DEF a1
<1>4. a2 = [p |-> p, kinds |-> KindsOf(c), aliases |-> AliasesOf(c), rows |-> FoldedRows(c), clocks |-> <<>>, witnesses |-> {},
            bounds |-> <<>>, gaps |-> {}, uppers |-> {}, defs |-> <<>>]
  <2>1. a1.p = KnownOf(c) /\ a1.aliases = AliasesOf(c)
    BY <1>3 DEF p
  <2>2. a2 = [a1 EXCEPT !.rows = Tabulated([i \in DOMAIN c.rows |-> SimplifiedRow(c, a1.p, a1.aliases, c.rows[i])])]
    BY DEF Rewritten
  <2>3. a2 = [a1 EXCEPT !.rows = FoldedRows(c)]
    BY <2>1, <2>2, TabulatedIs DEF FoldedRows
  <2> HIDE DEF a2
  <2>4. QED
    BY <1>3, <2>3
<1> HIDE DEF a2
<1>5. a3 = [p |-> p, kinds |-> KindsOf(c), aliases |-> AliasesOf(c), rows |-> FoldedRows(c), clocks |-> ClocksOf(c), witnesses |-> WitnessesOf(c),
            bounds |-> <<>>, gaps |-> {}, uppers |-> {}, defs |-> <<>>]
  <2>1. a2.rows = FoldedRows(c) /\ a2.kinds = KindsOf(c)
    BY <1>4
  <2>2. a3 = [a2 EXCEPT !.clocks = ClocksOf(c), !.witnesses = WitnessesOf(c)]
    BY <2>1 DEF Clocked, ClocksOf, WitnessesOf
  <2> HIDE DEF a3
  <2>3. QED
    BY <1>4, <2>2
<1> HIDE DEF a3
<1> DEFINE bs == Seeded(c, <<{BoundOf(x, 0, Byte) : x \in BytesRead(a3)}, ClockBounds(a3)>>)
<1>6. a4 = [p |-> p, kinds |-> KindsOf(c), aliases |-> AliasesOf(c), rows |-> FoldedRows(c), clocks |-> DOMAIN ClocksOf(c), witnesses |-> WitnessesOf(c),
            bounds |-> bs, gaps |-> {}, uppers |-> {}, defs |-> <<>>]
  <2>1. a4 = [a3 EXCEPT !.clocks = DOMAIN @, !.bounds = bs]
    BY DEF Closed
  <2> HIDE DEF a4, bs
  <2>2. QED
    BY <1>5, <2>1
<1> HIDE DEF a4
<1>7. a5 = [a4 EXCEPT !.gaps = Gaps(c, a4), !.uppers = RecvUppers(c, a4), !.defs = [x \in DOMAIN a4.bounds |-> Affine(c, a4, x)]]
  BY DEF WithRules
<1> HIDE DEF a5
<1>8. a5 = [p |-> p, kinds |-> KindsOf(c), aliases |-> AliasesOf(c), rows |-> FoldedRows(c), clocks |-> DOMAIN ClocksOf(c), witnesses |-> WitnessesOf(c),
            bounds |-> bs, gaps |-> Gaps(c, a4), uppers |-> RecvUppers(c, a4), defs |-> [x \in DOMAIN a4.bounds |-> Affine(c, a4, x)]]
  <2> HIDE DEF bs
  <2>1. QED
    BY <1>6, <1>7
<1>9. IsAnalysis(c, a4) /\ IsAnalysis(c, a5)
  <2> HIDE DEF bs
  <2>1. QED
    BY <1>6, <1>8 DEF IsAnalysis, p
<1>10. a3.rows = FoldedRows(c) /\ a3.kinds = KindsOf(c) /\ a3.clocks = ClocksOf(c) /\ a3.witnesses = WitnessesOf(c)
  BY <1>5
<1>11. a4.bounds = bs /\ a5.bounds = bs
  <2> HIDE DEF bs
  <2>1. QED
    BY <1>6, <1>8
<1>12. a5.gaps = Gaps(c, a4) /\ a5.uppers = RecvUppers(c, a4) /\ a5.defs = [x \in DOMAIN a4.bounds |-> Affine(c, a4, x)]
  <2> HIDE DEF bs
  <2>1. QED
    BY <1>8
<1>13. QED
  BY <1>1, <1>9, <1>10, <1>11, <1>12

-----------------------------------------------------------------------------
\* Pins and identities of an extraction hold.
LEMMA KnownOfTrue ==
  ASSUME NEW c, NEW w, Assigned(c, w), IsGranted(c)
  PROVE  KnownFacts(KnownOf(c), Cols(c), w) /\ KnownOf(c).pins = Pins(c)
<1>1. KnownFacts(KnownOf(c), Cols(c), w)
  BY PropagationTrue DEF KnownOf, IsGranted
<1>2. QED
  BY <1>1 DEF KnownOf, Propagation

\* So do its kinds.
LEMMA KindsOfTrue ==
  ASSUME NEW c, NEW w, Assigned(c, w), IsGranted(c), NEW i \in DOMAIN c.rows
  PROVE  KindHolds(KindsOf(c)[i], Eval(c.rows[i].mult, w))
<1>1. KindsOf(c)[i] = Kind(c, KnownOf(c), i)
  BY DEF KindsOf, Kinds
<1>2. QED
  BY <1>1, KnownOfTrue, KindTrue DEF IsGranted

\* In an extraction every row keeps its address space, pointer, timestamp and
\* multiplicity in every assignment that satisfies the circuit.
THEOREM RowsOfTrue ==
  ASSUME NEW c, NEW w, Assigned(c, w), IsGranted(c)
  PROVE  /\ DOMAIN FoldedRows(c) = DOMAIN c.rows
         /\ \A i \in DOMAIN c.rows : /\ SameRowValues(c.rows[i], FoldedRows(c)[i], w)
                                     /\ FoldedRows(c)[i].ts \in Exprs(Cols(c)) /\ FoldedRows(c)[i].data = c.rows[i].data
<1>1. KnownFacts(KnownOf(c), Cols(c), w) /\ KnownOf(c).pins = Pins(c)
  BY KnownOfTrue
<1>2. AliasesAgree(AliasesOf(c), Cols(c), w)
  BY AliasesTrue DEF AliasesOf
<1>3. \A i \in DOMAIN c.rows : c.rows[i] \in ToSet(c.rows)
  BY AssignedIs, CircuitIs DEF Cols
<1>4. DOMAIN FoldedRows(c) = DOMAIN c.rows /\ \A i \in DOMAIN c.rows : FoldedRows(c)[i] = SimplifiedRow(c, KnownOf(c), AliasesOf(c), c.rows[i])
  BY DEF FoldedRows
<1>5. QED
  BY <1>1, <1>2, <1>3, <1>4, SimplifiedRowTrue DEF IsGranted

\* The multiplicity of a receive.
LEMMA ReceivedMeans == ASSUME NEW v, KindHolds({"recv"}, v) PROVE v = P - 1
<1>1. {"send"} # {"recv"} /\ {} # {"recv"}
  <2>1. "send" \notin {"recv"} /\ "recv" \in {"recv"}
    OBVIOUS
  <2>2. QED
    BY <2>1
<1>2. QED
  BY <1>1 DEF KindHolds

\* What is received is a byte.
LEMMA BytesReadTrue ==
  ASSUME NEW c, NEW w, Assigned(c, w), IsGranted(c), NEW an, an.rows = FoldedRows(c), an.kinds = KindsOf(c), NEW x \in BytesRead(an)
  PROVE  BoundOf(x, 0, Byte) \in TrueBoxes(w)
<1>1. DOMAIN FoldedRows(c) = DOMAIN c.rows /\ \A i \in DOMAIN c.rows : FoldedRows(c)[i].data = c.rows[i].data
  BY RowsOfTrue
<1> DEFINE recvs == {i \in DOMAIN an.rows : an.kinds[i] = {"recv"}}
           E == UNION {ToSet(an.rows[i].data) : i \in recvs}
<1>2. PICK e \in E : x \in BareColumn(e)
  BY DEF BytesRead
<1>3. PICK i \in recvs : e \in ToSet(an.rows[i].data)
  BY <1>2
<1>4. i \in DOMAIN c.rows /\ KindsOf(c)[i] = {"recv"} /\ e \in ToSet(c.rows[i].data)
  BY <1>1, <1>3
<1> HIDE DEF recvs, E
<1> DEFINE r == c.rows[i]
<1>5. r \in ToSet(c.rows) /\ e \in Exprs(Cols(c))
  BY <1>4, AssignedIs, CircuitIs DEF Cols
<1>6. Eval(r.mult, w) = P - 1
  BY <1>4, KindsOfTrue, ReceivedMeans
<1>7. x \in Names(e) /\ x \in Cols(c) /\ w[x] = Eval(e, w)
  BY <1>2, <1>5, BareIs
<1>8. RowNames(r) # {}
  BY <1>4, <1>7 DEF RowNames
<1>9. Eval(e, w) < Byte
  BY <1>4, <1>5, <1>6, <1>8 DEF Assigned, Satisfied
<1>10. x \in DOMAIN w /\ w[x] \in Int /\ 0 <= w[x]
  BY <1>7, AssignedIs
<1>11. QED
  BY <1>7, <1>9, <1>10, PrimeIsInt, BoxIsTrue

\* The bounds of clocks hold.
LEMMA ClockBoundsTrue ==
  ASSUME NEW c, NEW w, Assigned(c, w), IsGranted(c), NEW an, an.clocks = ClocksOf(c), an.witnesses = WitnessesOf(c)
  PROVE  ClockBounds(an) \in SUBSET TrueBoxes(w)
<1>1. \A i \in DOMAIN FoldedRows(c) : FoldedRows(c)[i].ts \in Exprs(Cols(c))
  BY RowsOfTrue
<1>2. ClocksOf(c) \in MaybeBounds(w, c.times)
  BY <1>1, ClocksMaybe DEF ClocksOf
<1>3. ClocksOf(c) \in TrueBounds(w)
  BY <1>2 DEF MaybeBounds, IsGranted, ClocksAreTimes
<1>4. \A x \in DOMAIN ClocksOf(c) : ClocksOf(c)[x] \in TrueBoxes(w)
  BY <1>3, BoundsAre
<1>5. ASSUME NEW x \in WitnessesOf(c) PROVE BoundOf(x, 0, TsMax) \in TrueBoxes(w)
  <2>1. x \in Cols(c) /\ x \in c.times
    BY <1>1, WitnessesIn DEF WitnessesOf, IsGranted, ClocksAreTimes
  <2>2. x \in DOMAIN w /\ w[x] \in Int /\ 0 <= w[x] /\ w[x] < TsMax
    BY <2>1, AssignedIs
  <2>3. QED
    BY <2>2, PrimeIsInt, BoxIsTrue
<1>6. QED
  BY <1>4, <1>5 DEF ClockBounds

\* All bounds of an extraction hold.
THEOREM BoundsTrue ==
  ASSUME NEW c, NEW w, Assigned(c, w), IsGranted(c) PROVE Analysed(c).bounds \in TrueBounds(w)
<1>1. PICK an : /\ an.rows = FoldedRows(c) /\ an.kinds = KindsOf(c)
                /\ an.clocks = ClocksOf(c) /\ an.witnesses = WitnessesOf(c)
                /\ Analysed(c).bounds = Seeded(c, <<{BoundOf(x, 0, Byte) : x \in BytesRead(an)}, ClockBounds(an)>>)
  BY AnalysedIs
<1> DEFINE A == {BoundOf(x, 0, Byte) : x \in BytesRead(an)}
           B == ClockBounds(an)
           S == SUBSET TrueBoxes(w)
<1>2. A \in S
  BY <1>1, BytesReadTrue
<1>3. B \in S
  BY <1>1, ClockBoundsTrue
<1> HIDE DEF A, B, S
<1>4. <<A, B>> \in Seq(S)
  BY <1>2, <1>3
<1>5. Seeded(c, <<A, B>>) \in TrueBounds(w)
  BY <1>4, SeededTrue DEF IsGranted, S
<1>6. QED
  BY <1>1, <1>5 DEF A, B

-----------------------------------------------------------------------------
\* A gap between clocks is one between integers.
THEOREM GapsTrue ==
  ASSUME NEW c, NEW w, Assigned(c, w), NEW an, an.bounds \in TrueBounds(w), NEW d \in Gaps(c, an)
  PROVE  w[d.to] = w[d.from] + d.by
<1> DEFINE b == an.bounds
<1>1. TrueStep(d, w)
  BY DifferencesTrue DEF Gaps
<1>2. {d.from, d.to} \subseteq DOMAIN b /\ b[d.to].hi - d.by < P /\ -d.by - b[d.from].hi > -P
  BY DEF Gaps, IsGap
<1> HIDE DEF b
<1>3. d.from \in DOMAIN w /\ d.to \in DOMAIN w /\ d.by \in Int /\ Same(w[d.to], w[d.from] + d.by)
  BY <1>1 DEF TrueStep
<1>4. w[d.from] \in 0..P - 1 /\ w[d.to] \in 0..P - 1
  BY <1>3, AssignedInField DEF InField
<1>5. b[d.to].hi \in Int /\ w[d.to] < b[d.to].hi /\ b[d.from].hi \in Int /\ w[d.from] < b[d.from].hi
  BY <1>2, BoundsAre DEF b
<1>6. w[d.to] - (w[d.from] + d.by) < P
  BY <1>2, <1>3, <1>4, <1>5, PrimeIsInt
<1>7. (w[d.from] + d.by) - w[d.to] < P
  BY <1>2, <1>3, <1>4, <1>5, PrimeIsInt
<1>8. QED
  BY <1>3, <1>6, <1>7, SameClose

\* A comparison whose value is not negative orders its two clocks.
LEMMA OrderMeans ==
  ASSUME NEW C, NEW l \in Forms(C), NEW w, OnColumns(C, w), InField(w), NEW an, IsOrder(an, l), Value(l, w) >= 0, NEW u \in UpperOf(an, l)
  PROVE  w[u.pv] <= w[u.fs] + u.by
<1>1. PICK x \in Columns(l) \cap an.witnesses, y \in Columns(l) \cap an.clocks : u = [pv |-> x, fs |-> y, by |-> l.const]
  BY DEF UpperOf
<1>2. l.coef[y] = 1 /\ l.coef[x] = -1
  BY DEF IsOrder
<1>3. \A z \in Columns(l) \ {x, y} : l.coef[z] < 0
  <2>1. Columns(l) \cap an.clocks = {y} /\ Columns(l) \cap an.witnesses = {x}
    BY DEF IsOrder, IsSingleton
  <2>2. \A z \in Columns(l) \ ((Columns(l) \cap an.clocks) \cup (Columns(l) \cap an.witnesses)) : l.coef[z] < 0
    BY DEF IsOrder
  <2>3. QED
    BY <2>1, <2>2
<1> DEFINE S == Columns(l)
           f == TermsOf(l, w)
           R == (S \ {x}) \ {y}
           zero == [z \in R |-> 0]
<1>4. /\ IsFiniteSet(S) /\ \A z \in S : f[z] = l.coef[z] * w[z] /\ f[z] \in Int /\ w[z] \in Int
      /\ Value(l, w) = l.const + SumOver(f, S)
  BY ValueIs
<1>5. l.const \in Int /\ \A z \in S : l.coef[z] \in Int /\ z \in DOMAIN w
  <2>1. S \subseteq C
    BY FormIs
  <2>2. QED
    BY <2>1, FormIs DEF OnColumns
<1>6. x \in S /\ y \in S /\ x # y
  BY <1>2
<1> HIDE DEF f
<1>7. SumOver(f, S) = f[x] + SumOver(f, S \ {x})
  BY <1>4, <1>6, SumRemove
<1>8. IsFiniteSet(S \ {x}) /\ IsFiniteSet(R)
  <2>1. S \ {x} \in SUBSET S /\ R \in SUBSET S
    OBVIOUS
  <2>2. QED
    BY <1>4, <2>1, FS_Subset
<1>9. SumOver(f, S \ {x}) = f[y] + SumOver(f, R)
  <2>1. y \in S \ {x} /\ \A z \in S \ {x} : f[z] \in Int
    BY <1>4, <1>6
  <2>2. QED
    BY <1>8, <2>1, SumRemove
<1>10. SumOver(f, R) <= 0
  <2>1. \A z \in R : f[z] \in Int /\ zero[z] = 0 /\ f[z] <= 0
    <3>1. SUFFICES ASSUME NEW z \in R PROVE f[z] \in Int /\ f[z] <= 0
      OBVIOUS
    <3>2. l.coef[z] < 0 /\ l.coef[z] \in Int /\ w[z] \in Int
      BY <1>3, <1>4, <1>5
    <3>3. w[z] >= 0
      BY <1>5, PrimeIsInt DEF InField
    <3>4. l.coef[z] * w[z] <= l.coef[z] * 0
      BY <3>2, <3>3, ScaledLe
    <3>5. l.coef[z] * 0 = 0
      BY <3>2
    <3>6. QED
      BY <1>4, <3>4, <3>5
  <2> HIDE DEF R, zero
  <2>2. SumOver(f, R) <= SumOver(zero, R)
    <3>1. \A z \in R : f[z] \in Int /\ zero[z] \in Int /\ f[z] <= zero[z]
      BY <2>1
    <3>2. QED
      BY <1>8, <3>1, SumLe
  <2>3. SumOver(zero, R) = SumOver(zero, {})
    <3>1. {} \in SUBSET R /\ (\A z \in R : zero[z] \in Int) /\ (\A z \in R \ {} : zero[z] = 0)
      BY <2>1
    <3>2. QED
      BY <1>8, <3>1, SumZeros
  <2>4. SumOver(zero, {}) = 0
    BY SumEmpty
  <2>5. QED
    BY <2>2, <2>3, <2>4
<1>11. SumOver(f, R) \in Int
  <2>1. \A z \in R : f[z] \in Int
    BY <1>4
  <2> HIDE DEF R
  <2>2. QED
    BY <1>8, <2>1, SumIsInt
<1>12. f[x] = -w[x] /\ f[y] = w[y] /\ w[x] \in Int /\ w[y] \in Int
  <2>1. f[x] = l.coef[x] * w[x] /\ f[y] = l.coef[y] * w[y] /\ w[x] \in Int /\ w[y] \in Int
    BY <1>4, <1>6
  <2>2. (-1) * w[x] = -w[x] /\ 1 * w[y] = w[y]
    BY <2>1
  <2>3. QED
    BY <1>2, <2>1, <2>2
<1> HIDE DEF R, S
<1>13. w[x] <= w[y] + l.const
  BY <1>4, <1>5, <1>7, <1>9, <1>10, <1>11, <1>12
<1>14. QED
  BY <1>1, <1>13

-----------------------------------------------------------------------------
\* Peeling off factors that are one keeps the value.
LEMMA PeeledTrue ==
  ASSUME NEW c, NEW w, Assigned(c, w), NEW an, KnownFacts(an.p, Cols(c), w), NEW f \in Exprs(Cols(c)), NEW g \in Peeled(an, f)
  PROVE  g \in Exprs(Cols(c)) /\ Eval(g, w) = Eval(f, w)
<1> DEFINE C == Cols(c)
<1>1. CASE g = f
  BY <1>1
<1>2. CASE g # f
  <2>1. Len(f) = 1 /\ g \in PeeledProduct(an, f[1])
    BY <1>2 DEF Peeled
  <2> DEFINE p == f[1]
             q == [j \in DOMAIN p |-> IF 1 \in Known(an.p, p[j]) THEN Num(1) ELSE p[j]]
             one == <<q>>
  <2>2. p \in Seq(Forms(C)) /\ Len(p) \in Nat /\ DOMAIN p = 1..Len(p) /\ \A j \in DOMAIN p : p[j] \in Forms(C)
    <3>1. 1 \in DOMAIN f
      BY <2>1, ExprIs
    <3>2. QED
      BY <3>1, ExprIs
  <2>3. g = <<p>> \/ g = one
    BY <2>1 DEF PeeledProduct
  <2>4. f = <<p>>
    <3>1. f \in Seq(Seq(Forms(C)))
      BY DEF Exprs
    <3> HIDE DEF p, C
    <3>2. f = [i \in 1..1 |-> f[i]]
      BY <2>1, <3>1
    <3>3. QED
      BY <3>2 DEF p
  <2>5. g = one
    BY <1>2, <2>3, <2>4
  <2>6. Num(1) \in Forms(C) /\ OnColumns(C, w) /\ Same(Value(Num(1), w), 1)
    BY AssignedIs, NumValue
  <2>7. q \in Seq(Forms(C)) /\ Len(q) = Len(p) /\ DOMAIN q = 1..Len(p)
    <3> HIDE DEF p, C
    <3>1. \A j \in 1..Len(p) : q[j] \in Forms(C)
      BY <2>2, <2>6
    <3>2. q = [j \in 1..Len(p) |-> q[j]]
      BY <2>2
    <3> HIDE DEF q
    <3>3. q \in [1..Len(p) -> Forms(C)]
      BY <3>1, <3>2
    <3>4. QED
      BY <2>2, <3>3
  <2>8. \A j \in 1..Len(p) : Same(Value(p[j], w), Value(q[j], w))
    <3>1. SUFFICES ASSUME NEW j \in 1..Len(p) PROVE Same(Value(p[j], w), Value(q[j], w))
      OBVIOUS
    <3>2. p[j] \in Forms(C) /\ j \in DOMAIN p
      BY <2>2
    <3>3. Value(p[j], w) \in Int
      BY <2>6, <3>2, ValueIs
    <3>4. CASE 1 \in Known(an.p, p[j])
      <4>1. q[j] = Num(1)
        BY <3>2, <3>4
      <4>2. Value(p[j], w) % P = 1
        BY <3>2, <3>4, KnownTrue
      <4>3. 1 % P = 1
        <5>1. P > 1 /\ P \in Int
          BY AssignedIs, PrimeIsInt DEF PrimeField
        <5>2. QED
          BY <5>1
      <4>4. Same(Value(p[j], w), 1)
        BY <3>3, <4>2, <4>3, SameIsMod
      <4> HIDE DEF p, q
      <4>5. QED
        BY <2>6, <4>1, <4>4, SameSym, SameTrans
    <3>5. CASE 1 \notin Known(an.p, p[j])
      <4>1. q[j] = p[j]
        BY <3>2, <3>5
      <4> HIDE DEF p, q
      <4>2. QED
        BY <3>3, <4>1, SameRefl
    <3>6. QED
      BY <3>4, <3>5
  <2> HIDE DEF p, q
  <2>9. one \in Exprs(C) /\ Len(one) = 1 /\ one[1] = q
    BY <2>7 DEF Exprs
  <2> HIDE DEF one
  <2>10. Eval(f, w) = Eval(one, w)
    <3>1. \A i \in 1..Len(f) : /\ Len(one[i]) = Len(f[i])
                               /\ \A j \in 1..Len(f[i]) : Same(Value(f[i][j], w), Value(one[i][j], w))
      BY <2>1, <2>7, <2>8, <2>9 DEF p
    <3>2. PrimeField
      BY AssignedIs
    <3>3. QED
      BY <2>1, <2>9, <3>1, <3>2, EvalSame
  <2>11. QED
    BY <2>5, <2>9, <2>10
<1>3. QED
  BY <1>1, <1>2

\* What the rules use of an analysis.
IsTrueAnalysis(an, c, w) ==
  KnownFacts(an.p, Cols(c), w) /\ AliasesAgree(an.aliases, Cols(c), w) /\ an.bounds \in TrueBounds(w)

\* So does all that is done to a gated comparison.
LEMMA UngatedTrue ==
  ASSUME NEW c, NEW w, Assigned(c, w), NEW an, IsTrueAnalysis(an, c, w), NEW e \in Exprs(Cols(c)), NEW g \in Ungated(an, e)
  PROVE  g \in Exprs(Cols(c)) /\ Eval(g, w) = Eval(e, w)
<1> DEFINE f == Fold(e, an.p.pins, an.aliases)
<1>1. PrimeField /\ OnColumns(Cols(c), w)
  BY AssignedIs
<1>2. PinsAgree(an.p.pins, w) /\ AliasesAgree(an.aliases, Cols(c), w) /\ KnownFacts(an.p, Cols(c), w)
  BY PinningIs DEF KnownFacts, IsTrueAnalysis
<1>3. f \in Exprs(Cols(c)) /\ Eval(f, w) = Eval(e, w)
  BY <1>1, <1>2, FoldIs
<1>4. g \in Peeled(an, f)
  BY DEF Ungated
<1> HIDE DEF f
<1>5. QED
  BY <1>2, <1>3, <1>4, PeeledTrue

\* An upper bound of a receive that is read off a constraint holds.
THEOREM ConstraintUppersTrue ==
  ASSUME NEW c, NEW w, Assigned(c, w), NEW an, IsTrueAnalysis(an, c, w), NEW u \in ConstraintUppers(c, an)
  PROVE  w[u.pv] <= w[u.fs] + u.by
<1> DEFINE S == {d \in Constraints(c) : Names(d) \cap an.witnesses # {}}
           G == UNION {Ungated(an, e) : e \in S}
<1>1. PICK l \in Linears(G) : IsOrder(an, l) /\ NoWrap(l, an.bounds) /\ u \in UpperOf(an, l)
  <2> HIDE DEF G
  <2>1. QED
    BY DEF ConstraintUppers, G, S
<1>2. PICK g \in G : IsLinear(g) /\ l = Linear(g)
  <2> HIDE DEF G
  <2>1. QED
    BY DEF Linears
<1>3. PICK e \in S : g \in Ungated(an, e)
  BY <1>2
<1>4. e \in Exprs(Cols(c)) /\ Eval(e, w) = 0
  <2>1. e \in Constraints(c) /\ Names(e) # {}
    OBVIOUS
  <2>2. QED
    BY <2>1, ConstraintHolds
<1> HIDE DEF S, G
<1>5. g \in Exprs(Cols(c)) /\ Eval(g, w) = 0
  BY <1>3, <1>4, UngatedTrue
<1>6. l \in Forms(Cols(c)) /\ Same(Value(l, w), 0)
  <2>1. l \in Forms(Cols(c)) /\ Same(Value(l, w), Eval(g, w))
    BY <1>2, <1>5, LinearOn
  <2>2. QED
    BY <1>5, <2>1
<1>7. OnColumns(Cols(c), w) /\ InField(w) /\ an.bounds \in TrueBounds(w)
  BY AssignedIs, AssignedInField DEF IsTrueAnalysis
<1>8. Value(l, w) = 0
  BY <1>1, <1>6, <1>7, ExactZero
<1>9. QED
  BY <1>1, <1>6, <1>7, <1>8, OrderMeans

-----------------------------------------------------------------------------
\* Division that leaves no remainder.
Quotient(k, v) == (IF k < 0 THEN -v ELSE v) \div Magnitude(k)

\* Division of integers, and of a form by one of its coefficients.
LEMMA DivisionAlgorithm ==
  ASSUME NEW m \in Nat, m > 0, NEW v \in Int
  PROVE  v \div m \in Int /\ v % m \in 0..m - 1 /\ v = m * (v \div m) + (v % m)
OBVIOUS

LEMMA NoSmallMultiple ==
  ASSUME NEW m \in Nat, m > 0, NEW r \in 0..m - 1, NEW t \in Int, r = m * t PROVE r = 0
<1>1. CASE t <= 0
  <2>1. m * t <= m * 0
    BY <1>1, ScaledLe
  <2>2. QED
    BY <2>1
<1>2. CASE t >= 1
  <2>1. m * 1 <= m * t
    BY <1>2, ScaledLe
  <2>2. QED
    BY <2>1
<1>3. QED
  BY <1>1, <1>2

\* A negated multiple is a multiple.
LEMMA NegatedMultiple == ASSUME NEW m \in Nat, m > 0, NEW v \in Int, v % m = 0 PROVE (-v) % m = 0
<1>1. v \div m \in Int /\ v = m * (v \div m)
  BY DivisionAlgorithm
<1>2. (-v) \div m \in Int /\ (-v) % m \in 0..m - 1 /\ -v = m * ((-v) \div m) + ((-v) % m)
  BY DivisionAlgorithm
<1> DEFINE a == v \div m
           b == (-v) \div m
           r == (-v) % m
<1> HIDE DEF a, b, r
<1>3. a \in Int /\ b \in Int /\ r \in 0..m - 1 /\ v = m * a /\ -v = m * b + r
  BY <1>1, <1>2 DEF a, b, r
<1>4. r = m * (-a - b) /\ -a - b \in Int
  <2>1. m * (-a - b) = -(m * a) - m * b /\ m * a \in Int /\ m * b \in Int
    BY <1>3
  <2>2. QED
    BY <1>3, <2>1
<1>5. r = 0
  BY <1>3, <1>4, NoSmallMultiple
<1>6. QED
  BY <1>5 DEF r

LEMMA MagnitudeIs == ASSUME NEW k \in Int, k # 0 PROVE Magnitude(k) \in Nat /\ Magnitude(k) > 0
BY DEF Magnitude

LEMMA QuotientIs ==
  ASSUME NEW k \in Int, k # 0, NEW v \in Int, v % Magnitude(k) = 0 PROVE Quotient(k, v) \in Int /\ k * Quotient(k, v) = v
<1>1. CASE k > 0
  <2>1. Magnitude(k) = k /\ Quotient(k, v) = v \div k /\ v % k = 0 /\ k \in Nat
    BY <1>1 DEF Magnitude, Quotient
  <2>2. v \div k \in Int /\ v = k * (v \div k) + (v % k)
    BY <1>1, <2>1, DivisionAlgorithm
  <2>3. QED
    BY <2>1, <2>2
<1>2. CASE k < 0
  <2> DEFINE m == -k
             a == (-v) \div m
  <2>1. Magnitude(k) = m /\ Quotient(k, v) = a /\ v % m = 0 /\ m \in Nat /\ m > 0
    BY <1>2 DEF Magnitude, Quotient
  <2> HIDE DEF m
  <2>2. (-v) % m = 0
    BY <2>1, NegatedMultiple
  <2>3. a \in Int /\ -v = m * a
    <3>1. -v \in Int
      OBVIOUS
    <3>2. (-v) \div m \in Int /\ -v = m * ((-v) \div m) + ((-v) % m)
      BY <2>1, <3>1, DivisionAlgorithm
    <3> HIDE DEF a
    <3>3. QED
      BY <2>1, <2>2, <3>2 DEF a
  <2> HIDE DEF a
  <2>4. k * a = -(m * a)
    <3>1. k = -m
      BY DEF m
    <3>2. (-m) * a = -(m * a)
      BY <2>1, <2>3
    <3>3. QED
      BY <3>1, <3>2
  <2>5. QED
    BY <2>1, <2>3, <2>4
<1>3. QED
  BY <1>1, <1>2

\* The form is the coefficient times the divided form, between integers.
LEMMA DividedValue ==
  ASSUME NEW C, NEW l \in Forms(C), NEW k \in Int, k # 0, Divides(k, l)
  PROVE  /\ Divided(l, k) \in Forms(C) /\ Columns(Divided(l, k)) = Columns(l)
         /\ l.const = k * Divided(l, k).const
         /\ \A x \in Columns(l) : Divided(l, k).coef[x] \in Int /\ k * Divided(l, k).coef[x] = l.coef[x]
         /\ \A w : OnColumns(C, w) => Value(l, w) = k * Value(Divided(l, k), w)
<1> DEFINE n == Divided(l, k)
           q == [x \in Columns(l) |-> Quotient(k, l.coef[x])]
<1>1. n = [coef |-> q, const |-> Quotient(k, l.const)]
  BY DEF Divided, Quotient
<1>2. l.const \in Int /\ l.const % Magnitude(k) = 0 /\ \A x \in Columns(l) : l.coef[x] \in Int /\ l.coef[x] % Magnitude(k) = 0
  BY FormIs DEF Divides
<1>3. Quotient(k, l.const) \in Int /\ k * Quotient(k, l.const) = l.const
  BY <1>2, QuotientIs
<1>4. \A x \in Columns(l) : Quotient(k, l.coef[x]) \in Int /\ k * Quotient(k, l.coef[x]) = l.coef[x]
  BY <1>2, QuotientIs
<1>5. q \in [Columns(l) -> Int] /\ Columns(l) \in SUBSET C
  BY <1>4, FormIs
<1>6. \A x \in Columns(l) : q[x] = Quotient(k, l.coef[x])
  OBVIOUS
<1> HIDE DEF q
<1>7. n \in Forms(C) /\ Columns(n) = Columns(l) /\ n.coef = q /\ n.const = Quotient(k, l.const)
  BY <1>1, <1>3, <1>5 DEF Forms, Columns
<1> HIDE DEF n
<1>8. \A x \in Columns(l) : n.coef[x] \in Int /\ k * n.coef[x] = l.coef[x]
  BY <1>4, <1>6, <1>7
<1>9. ASSUME NEW w, OnColumns(C, w) PROVE Value(l, w) = k * Value(n, w)
  <2> DEFINE S == Columns(l)
             f == TermsOf(n, w)
             g == TermsOf(l, w)
  <2>1. IsFiniteSet(S) /\ (\A x \in S : g[x] = l.coef[x] * w[x] /\ w[x] \in Int) /\ Value(l, w) = l.const + SumOver(g, S)
    BY <1>9, ValueIs
  <2>2. /\ \A x \in S : f[x] = n.coef[x] * w[x] /\ f[x] \in Int
        /\ Value(n, w) = n.const + SumOver(f, S) /\ SumOver(f, S) \in Int
    BY <1>7, <1>9, ValueIs
  <2>3. \A x \in S : f[x] \in Int /\ g[x] = k * f[x]
    <3>1. SUFFICES ASSUME NEW x \in S PROVE g[x] = k * f[x]
      BY <2>2
    <3>2. g[x] = (k * n.coef[x]) * w[x] /\ f[x] = n.coef[x] * w[x] /\ n.coef[x] \in Int /\ w[x] \in Int
      BY <1>8, <2>1, <2>2
    <3>3. \A i, j, m \in Int : (i * j) * m = i * (j * m)
      OBVIOUS
    <3> HIDE DEF f, g, S
    <3>4. QED
      BY <3>2, <3>3
  <2> HIDE DEF f, g, S
  <2>4. SumOver(g, S) = k * SumOver(f, S)
    BY <2>1, <2>3, SumScale
  <2>5. n.const \in Int /\ k * n.const = l.const
    BY <1>3, <1>7
  <2>6. k * (n.const + SumOver(f, S)) = k * n.const + k * SumOver(f, S)
    BY <2>2, <2>5
  <2>7. QED
    BY <2>1, <2>2, <2>4, <2>5, <2>6
<1>10. QED
  BY <1>3, <1>7, <1>8, <1>9 DEF n

\* An integer smaller than P in magnitude, from its residue.
LEMMA InBoth ==
  ASSUME NEW v \in Int, -P < v, v < P, NEW k \in 0..P - 1, Same(v, k) PROVE v \in {k, k - P}
<1>1. P \in Int /\ P >= 1
  BY PrimeIsInt
<1>2. CASE v >= 0
  <2>1. v \in 0..P - 1
    BY <1>1, <1>2
  <2>2. QED
    BY <2>1, SameInField
<1>3. CASE v < 0
  <2>1. v + P \in 0..P - 1
    BY <1>1, <1>3
  <2>2. Same(v + P, k)
    <3>1. v + P = v + 1 * P
      BY <1>1
    <3>2. Same(v + P, v)
      BY <1>1, <3>1 DEF Same
    <3>3. QED
      BY <3>2, SameTrans
  <2>3. v + P = k
    BY <2>1, <2>2, SameInField
  <2>4. QED
    BY <1>1, <2>3
<1>4. QED
  BY <1>2, <1>3

\* A column whose coefficient is invertible determines what it multiplies.
LEMMA ScaledBack ==
  ASSUME PrimeField, NEW a \in Int, ~Same(a, 0), NEW v \in Int, NEW r \in Int, Same(a * v, r)
  PROVE  Same(v, InverseOf(a) * r) /\ InverseOf(a) * r \in Int
<1>1. Same(v, r * InverseOf(a))
  BY Divide
<1>2. InverseOf(a) \in Int
  BY InverseWorks
<1>3. r * InverseOf(a) = InverseOf(a) * r /\ InverseOf(a) * r \in Int
  BY <1>2
<1>4. QED
  BY <1>1, <1>3

\* A coefficient is not zero in the field.
LEMMA CanonicalCoef ==
  ASSUME NEW C, NEW l \in Forms(C), IsCanonical(l), NEW x \in Columns(l) PROVE l.coef[x] \in Int /\ ~Same(l.coef[x], 0) /\ l.coef[x] # 0
<1>1. l.coef[x] \in Int /\ l.coef[x] % P # 0
  BY FormIs DEF IsCanonical
<1>2. ~Same(l.coef[x], 0)
  BY <1>1, SameZero
<1>3. l.coef[x] # 0
  BY <1>2, SameRefl
<1>4. QED
  BY <1>1, <1>2, <1>3

\* A multiple of a comparison that passes a range check is not negative.
LEMMA CheckUpperTrue ==
  ASSUME NEW c, NEW w, Assigned(c, w), NEW an, IsTrueAnalysis(an, c, w), NEW l \in Forms(Cols(c)), IsCanonical(l),
         NEW width \in Nat, Value(l, w) % P < width, NEW n \in ScaledOrders(an, l), IsOrder(an, n), NoWrap(n, an.bounds),
         PassesOnlyAbove(an, l, n, width), NEW u \in UpperOf(an, n)
  PROVE  w[u.pv] <= w[u.fs] + u.by
<1> DEFINE C == Cols(c)
<1>1. PICK x \in Columns(l) \cap an.clocks : n = Divided(l, l.coef[x]) /\ Divides(l.coef[x], l)
  BY DEF ScaledOrders
<1> DEFINE a == l.coef[x]
<1>2. a \in Int /\ ~Same(a, 0) /\ a # 0
  BY CanonicalCoef
<1>3. PrimeField /\ OnColumns(C, w) /\ InField(w) /\ an.bounds \in TrueBounds(w)
  BY AssignedIs, AssignedInField DEF IsTrueAnalysis
<1>4. n \in Forms(C) /\ Columns(n) = Columns(l) /\ Value(l, w) = a * Value(n, w)
  BY <1>1, <1>2, <1>3, DividedValue
<1>5. Columns(n) \cap an.clocks = {x}
  <2>1. IsSingleton(Columns(n) \cap an.clocks)
    BY DEF IsOrder
  <2>2. QED
    BY <1>4, <2>1 DEF IsSingleton
<1> DEFINE r == Value(l, w) % P
           k == (InverseOf(a) * r) % P
           v == Value(n, w)
<1>6. \A t \in {k, k - P} : Low(n, an.bounds) <= t /\ t <= High(n, an.bounds) => t >= 0
  <2>1. (CHOOSE y \in Columns(n) \cap an.clocks : TRUE) = x
    BY <1>5
  <2>2. r \in 0..width - 1
    <3>1. Value(l, w) \in Int
      BY <1>3, ValueIs
    <3>2. r \in 0..P - 1
      BY <3>1, Remainder
    <3>3. QED
      BY <3>2, PrimeIsInt
  <2>3. \A q \in 0..(width - 1) : \A t \in {(InverseOf(a) * q) % P, ((InverseOf(a) * q) % P) - P} :
          Low(n, an.bounds) <= t /\ t <= High(n, an.bounds) => t >= 0
    BY <2>1 DEF PassesOnlyAbove
  <2> HIDE DEF r, a
  <2>4. QED
    BY <2>2, <2>3
<1>7. v \in Int /\ Value(l, w) \in Int /\ r \in 0..P - 1 /\ r \in Int /\ Same(a * v, r)
  <2>1. v \in Int /\ Value(l, w) \in Int
    BY <1>3, <1>4, ValueIs
  <2>2. r \in 0..P - 1 /\ Same(Value(l, w), r)
    BY <2>1, Remainder, SameMod
  <2>3. QED
    BY <1>4, <2>1, <2>2
<1> HIDE DEF r, v, a
<1>8. Same(v, k) /\ k \in 0..P - 1
  <2>1. Same(v, InverseOf(a) * r) /\ InverseOf(a) * r \in Int
    BY <1>2, <1>3, <1>7, ScaledBack
  <2>2. QED
    BY <2>1, Remainder, SameMod, SameTrans
<1>9. Low(n, an.bounds) \in Int /\ High(n, an.bounds) \in Int /\ Low(n, an.bounds) <= v /\ v <= High(n, an.bounds)
  BY <1>3, <1>4, RangeHolds DEF NoWrap, v
<1>10. -P < v /\ v < P
  BY <1>7, <1>9, PrimeIsInt DEF NoWrap
<1> HIDE DEF k
<1>11. v \in {k, k - P}
  BY <1>7, <1>8, <1>10, InBoth
<1>12. v >= 0
  BY <1>6, <1>9, <1>11
<1>13. QED
  BY <1>3, <1>4, <1>12, OrderMeans DEF v

\* An upper bound of a receive that is read off a range check holds.
THEOREM CheckUppersTrue ==
  ASSUME NEW c, NEW w, Assigned(c, w), SelectorIsValid(c), NEW an, IsTrueAnalysis(an, c, w), NEW u \in CheckUppers(c, an)
  PROVE  w[u.pv] <= w[u.fs] + u.by
<1>1. PICK check \in ToSet(c.checks) :
        /\ check.bus = "var" /\ Sent(c, check)
        /\ \E l \in Linears({check.args[1]}) : \E n \in {m \in ScaledOrders(an, l) : IsOrder(an, m) /\ NoWrap(m, an.bounds)} :
             u \in (IF PassesOnlyAbove(an, l, n, check.width) THEN UpperOf(an, n) ELSE {})
  BY DEF CheckUppers
<1>2. PICK l \in Linears({check.args[1]}) : \E n \in {m \in ScaledOrders(an, l) : IsOrder(an, m) /\ NoWrap(m, an.bounds)} :
             u \in (IF PassesOnlyAbove(an, l, n, check.width) THEN UpperOf(an, n) ELSE {})
  BY <1>1
<1>3. PICK n \in ScaledOrders(an, l) : /\ IsOrder(an, n) /\ NoWrap(n, an.bounds)
                                       /\ u \in (IF PassesOnlyAbove(an, l, n, check.width) THEN UpperOf(an, n) ELSE {})
  BY <1>2
<1>4. PassesOnlyAbove(an, l, n, check.width) /\ u \in UpperOf(an, n)
  BY <1>3
<1> DEFINE e == check.args[1]
<1>5. IsLinear(e) /\ l = Linear(e)
  BY <1>2 DEF Linears
<1>6. e \in Exprs(Cols(c)) /\ e \in ToSet(check.args) /\ check.width \in Nat
  BY <1>1, CheckIs
<1>7. l \in Forms(Cols(c)) /\ IsCanonical(l) /\ Eval(e, w) = Value(l, w) % P /\ Columns(l) \subseteq Names(e)
  BY <1>5, <1>6, LinearOn
<1>8. CheckNames(check) # {}
  <2>1. Columns(l) # {}
    BY DEF ScaledOrders
  <2>2. QED
    BY <1>6, <1>7, <2>1 DEF CheckNames
<1>9. Eval(check.mult, w) # 0
  BY <1>1, SentTrue
<1>10. Eval(e, w) < check.width
  BY <1>1, <1>8, <1>9, CheckIs DEF InRange
<1> HIDE DEF e
<1>11. QED
  BY <1>3, <1>4, <1>6, <1>7, <1>10, CheckUpperTrue

-----------------------------------------------------------------------------
\* A finite set of integers has a largest one, and what Gcd is.
LEMMA LargestInteger ==
  ASSUME NEW T, IsFiniteSet(T), T \subseteq Int, T # {} PROVE \E n \in T : \A m \in T : n >= m
<1> DEFINE f == [x \in T |-> -x]
           N == {f[x] : x \in T}
<1>1. IsFiniteSet(N)
  <2> HIDE DEF f
  <2>1. QED
    BY ImageFinite
<1>2. N \subseteq Int /\ N # {}
  <2>1. \A x \in T : f[x] = -x /\ x \in Int
    OBVIOUS
  <2>2. PICK t : t \in T
    OBVIOUS
  <2> HIDE DEF f
  <2>3. f[t] \in N
    BY <2>2
  <2>4. \A x \in T : f[x] \in Int
    BY <2>1
  <2>5. N \subseteq Int
    BY <2>4
  <2>6. QED
    BY <2>3, <2>5
<1>3. PICK k \in N : \A m \in N : k <= m
  <2> HIDE DEF N
  <2>1. QED
    BY <1>1, <1>2, SmallestInteger
<1>4. PICK n \in T : k = -n
  OBVIOUS
<1>5. \A m \in T : n >= m
  <2>1. SUFFICES ASSUME NEW m \in T PROVE n >= m
    OBVIOUS
  <2>2. -m \in N
    OBVIOUS
  <2>3. -n <= -m
    BY <1>3, <1>4, <2>2
  <2>4. QED
    BY <2>3
<1>6. QED
  BY <1>5

LEMMA MaxIs ==
  ASSUME NEW T, IsFiniteSet(T), T \subseteq Int, T # {} PROVE Max(T) \in T /\ \A m \in T : Max(T) >= m
<1>1. \E n \in T : \A m \in T : n >= m
  BY LargestInteger
<1>2. QED
  BY <1>1 DEF Max

LEMMA GcdIs ==
  ASSUME NEW S, IsFiniteSet(S), S \subseteq Nat \ {0}, S # {}
  PROVE  Gcd(S) \in Nat /\ Gcd(S) > 0 /\ \A v \in S : v % Gcd(S) = 0
<1> DEFINE M == Max(S)
           D == {d \in 1..M : \A v \in S : v % d = 0}
<1>1. M \in S
  <2>1. S \subseteq Int
    OBVIOUS
  <2>2. QED
    BY <2>1, MaxIs
<1> HIDE DEF M
<1>2. M \in Nat /\ M >= 1
  <2>1. M \in Nat \ {0}
    BY <1>1
  <2>2. QED
    BY <2>1
<1>3. 1 \in D
  <2>1. 1 \in 1..M
    BY <1>2
  <2>2. \A v \in S : v % 1 = 0
    <3>1. \A v \in Nat : v % 1 = 0
      OBVIOUS
    <3>2. QED
      BY <3>1
  <2>3. QED
    BY <2>1, <2>2
<1>4. IsFiniteSet(D)
  <2>1. IsFiniteSet(1..M)
    BY <1>2, FS_Interval
  <2>2. D \in SUBSET (1..M)
    OBVIOUS
  <2> HIDE DEF D
  <2>3. QED
    BY <2>1, <2>2, FS_Subset
<1>5. D \subseteq Int
  OBVIOUS
<1>6. Gcd(S) = Max(D)
  BY DEF Gcd, M
<1>7. Max(D) \in D
  <2> HIDE DEF D
  <2>1. QED
    BY <1>3, <1>4, <1>5, MaxIs
<1>8. QED
  BY <1>2, <1>6, <1>7

\* The modulus divides all roots.
LEMMA RootsModulus ==
  ASSUME NEW roots, IsFiniteSet(roots), roots \subseteq Int \ {0}
  PROVE  /\ roots = {} => Modulus(roots) = 0
         /\ roots # {} => /\ Modulus(roots) \in Nat /\ Modulus(roots) > 0
                          /\ \A v \in roots : v % Modulus(roots) = 0
<1> DEFINE f == [v \in roots |-> Magnitude(v)]
           S == {f[v] : v \in roots}
           m == Modulus(roots)
<1>1. CASE roots = {}
  BY <1>1 DEF Modulus
<1>2. CASE roots # {}
  <2>1. IsFiniteSet(S)
    <3> HIDE DEF f
    <3>1. QED
      BY ImageFinite
  <2>2. S \subseteq Nat \ {0} /\ S # {}
    <3>1. \A v \in roots : Magnitude(v) \in Nat \ {0}
      BY MagnitudeIs
    <3>2. QED
      BY <1>2, <3>1
  <2>3. m = Gcd(S)
    <3>1. S = {Magnitude(v) : v \in roots}
      OBVIOUS
    <3> HIDE DEF S
    <3>2. QED
      BY <1>2, <3>1 DEF Modulus
  <2>4. \A v \in roots : Magnitude(v) \in S
    OBVIOUS
  <2> HIDE DEF S, m
  <2>5. m \in Nat /\ m > 0 /\ \A v \in S : v % m = 0
    BY <2>1, <2>2, <2>3, GcdIs
  <2>6. ASSUME NEW v \in roots PROVE v % m = 0
    <3>1. Magnitude(v) % m = 0 /\ v \in Int
      BY <2>4, <2>5
    <3>2. CASE v >= 0
      BY <3>1, <3>2 DEF Magnitude
    <3>3. CASE v < 0
      <4>1. (-v) % m = 0 /\ -v \in Int
        BY <3>1, <3>3 DEF Magnitude
      <4> DEFINE u == -v
      <4> HIDE DEF u
      <4>2. u \in Int /\ u % m = 0
        BY <4>1 DEF u
      <4>3. (-u) % m = 0
        BY <2>5, <4>2, NegatedMultiple
      <4>4. -u = v
        BY <3>1 DEF u
      <4>5. QED
        BY <4>3, <4>4
    <3>4. QED
      BY <3>1, <3>2, <3>3
  <2>7. QED
    BY <1>2, <2>5, <2>6 DEF m
<1>3. QED
  BY <1>1, <1>2

\* A column with coefficient one is the value less the rest.
LEMMA SolvedForColumn ==
  ASSUME NEW C, NEW g \in Forms(C), NEW w, OnColumns(C, w), NEW x \in Columns(g), g.coef[x] = 1
  PROVE  Value(g, w) = w[x] - (-g.const) - Total([y \in Columns(g) \ {x} |-> [z \in Columns(g) \ {x} |-> -g.coef[z]][y] * w[y]])
<1> DEFINE S == Columns(g)
           R == S \ {x}
           f == TermsOf(g, w)
           h == [y \in R |-> [z \in R |-> -g.coef[z]][y] * w[y]]
<1>1. /\ IsFiniteSet(S) /\ \A y \in S : f[y] = g.coef[y] * w[y] /\ f[y] \in Int /\ w[y] \in Int
      /\ Value(g, w) = g.const + SumOver(f, S)
  BY ValueIs
<1>2. g.const \in Int /\ \A y \in S : g.coef[y] \in Int
  BY FormIs
<1>3. f[x] = w[x]
  <2>1. 1 * w[x] = w[x]
    BY <1>1
  <2> HIDE DEF f
  <2>2. QED
    BY <1>1, <2>1
<1> HIDE DEF f
<1>4. SumOver(f, S) = f[x] + SumOver(f, R)
  BY <1>1, SumRemove
<1>5. IsFiniteSet(R)
  <2>1. R \in SUBSET S
    OBVIOUS
  <2>2. QED
    BY <1>1, <2>1, FS_Subset
<1>6. \A y \in R : f[y] \in Int /\ h[y] = (-1) * f[y]
  <2>1. SUFFICES ASSUME NEW y \in R PROVE h[y] = (-1) * f[y]
    BY <1>1
  <2>2. h[y] = (-g.coef[y]) * w[y]
    OBVIOUS
  <2>3. f[y] = g.coef[y] * w[y] /\ g.coef[y] \in Int /\ w[y] \in Int
    BY <1>1, <1>2
  <2>4. \A i, j \in Int : (-i) * j = (-1) * (i * j)
    OBVIOUS
  <2> HIDE DEF h, S
  <2>5. QED
    BY <2>2, <2>3, <2>4
<1>7. Total(h) = SumOver(h, R)
  <2>1. [y \in R |-> h[y]] = h
    OBVIOUS
  <2> HIDE DEF h
  <2>2. QED
    BY <2>1 DEF SumOver
<1> HIDE DEF h
<1>8. SumOver(h, R) = (-1) * SumOver(f, R)
  <2>1. -1 \in Int
    OBVIOUS
  <2> HIDE DEF R
  <2>2. QED
    BY <1>5, <1>6, <2>1, SumScale
<1>9. SumOver(f, R) \in Int
  <2>1. \A y \in R : f[y] \in Int
    BY <1>6
  <2> HIDE DEF R
  <2>2. QED
    BY <1>5, <2>1, SumIsInt
<1>10. w[x] \in Int
  BY <1>1
<1> DEFINE t == SumOver(f, R)
<1> HIDE DEF t
<1>11. t \in Int /\ Total(h) = (-1) * t /\ Value(g, w) = g.const + (w[x] + t)
  BY <1>1, <1>3, <1>4, <1>7, <1>8, <1>9 DEF t
<1>12. Value(g, w) = w[x] - (-g.const) - Total(h)
  BY <1>2, <1>10, <1>11
<1>13. QED
  BY <1>12 DEF h

\* A product of two factors defines a limb, up to the modulus.
LEMMA DefinesTrue ==
  ASSUME NEW c, NEW w, Assigned(c, w), NEW an, IsTrueAnalysis(an, c, w), NEW f \in Forms(Cols(c)), NEW other \in Forms(Cols(c)),
         IsCanonical(f), f.coef = other.coef, Same(Value(f, w), 0) \/ Same(Value(other, w), 0), NEW x, NEW D \in Defines(an, x, f, other)
  PROVE  AffineHolds(D, w)
<1> DEFINE C == Cols(c)
           a == f.coef[x]
           g == Divided(f, a)
           k == (InverseOf(a) * (f.const - other.const)) % P
           roots == OtherRoots(an, x, f, other, g)
           m == Modulus(roots)
           weights == [y \in Columns(g) \ {x} |-> -g.coef[y]]
           v == Value(g, w)
<1>1. /\ x \in Columns(f) /\ Divides(a, f) /\ NoWrap(g, an.bounds)
      /\ D = [col |-> x, mod |-> m, offset |-> -g.const, weights |-> weights]
  BY DEF Defines
<1>2. a \in Int /\ ~Same(a, 0) /\ a # 0
  BY <1>1, CanonicalCoef
<1>3. PrimeField /\ OnColumns(C, w) /\ InField(w) /\ an.bounds \in TrueBounds(w)
  BY AssignedIs, AssignedInField DEF IsTrueAnalysis
<1>4. /\ g \in Forms(C) /\ Columns(g) = Columns(f) /\ Value(f, w) = a * v
      /\ g.coef[x] \in Int /\ a * g.coef[x] = a
  BY <1>1, <1>2, <1>3, DividedValue
<1> HIDE DEF g
<1>5. g.coef[x] = 1
  <2>1. a * (g.coef[x] - 1) = 0
    BY <1>2, <1>4
  <2>2. g.coef[x] - 1 = 0
    BY <1>2, <1>4, <2>1
  <2>3. QED
    BY <1>4, <2>2
<1>6. roots = {t \in {k, k - P} \ {0} : Low(g, an.bounds) <= t /\ t <= High(g, an.bounds)}
  BY DEF OtherRoots
<1>7. f.const \in Int /\ other.const \in Int /\ g.const \in Int
  BY <1>4, FormIs
<1>8. k \in 0..P - 1
  <2>1. InverseOf(a) * (f.const - other.const) \in Int
    <3>1. InverseOf(a) \in Int
      BY <1>2, <1>3, InverseWorks
    <3>2. \A i, j \in Int : i * j \in Int
      OBVIOUS
    <3> HIDE DEF a
    <3>3. f.const - other.const \in Int
      BY <1>7
    <3>4. QED
      BY <3>1, <3>2, <3>3
  <2>2. QED
    BY <2>1, Remainder
<1> HIDE DEF roots, m, weights
<1>9. IsFiniteSet(roots) /\ roots \subseteq Int \ {0}
  <2>1. IsFiniteSet({k, k - P})
    <3>1. {k, k - P} = {k} \cup {k - P}
      OBVIOUS
    <3>2. IsFiniteSet({k}) /\ IsFiniteSet({k - P})
      BY FS_Singleton
    <3> HIDE DEF k
    <3>3. QED
      BY <3>1, <3>2, FS_Union, ZenonT(40)
  <2> HIDE DEF k
  <2>2. roots \in SUBSET {k, k - P}
    BY <1>6
  <2>3. k \in Int /\ k - P \in Int
    BY <1>8, PrimeIsInt
  <2>4. QED
    BY <1>6, <2>1, <2>2, <2>3, FS_Subset
<1>10. v \in Int /\ Low(g, an.bounds) \in Int /\ High(g, an.bounds) \in Int /\ Low(g, an.bounds) <= v /\ v <= High(g, an.bounds)
  <2>1. Bounded(g, an.bounds)
    BY <1>1 DEF NoWrap
  <2>2. QED
    BY <1>3, <1>4, <2>1, RangeHolds, ValueIs
<1>11. -P < v /\ v < P
  BY <1>1, <1>10, PrimeIsInt DEF NoWrap
<1>12. v = 0 \/ v \in roots
  <2>1. CASE Same(Value(f, w), 0)
    <3>1. Same(v, InverseOf(a) * 0) /\ InverseOf(a) * 0 \in Int
      <4>1. Same(a * v, 0) /\ 0 \in Int
        BY <1>4, <2>1
      <4>2. v \in Int
        BY <1>10
      <4> HIDE DEF a, v
      <4>3. QED
        BY <1>2, <1>3, <4>1, <4>2, ScaledBack
    <3>2. InverseOf(a) * 0 = 0
      <4>1. InverseOf(a) \in Int
        BY <1>2, <1>3, InverseWorks
      <4>2. QED
        BY <4>1
    <3> HIDE DEF v
    <3>3. Same(v, 0)
      BY <3>1, <3>2
    <3>4. v = 0
      <4>1. v \in Int /\ v - 0 < P /\ 0 - v < P
        BY <1>10, <1>11, PrimeIsInt
      <4>2. QED
        BY <3>3, <4>1, SameClose
    <3>5. QED
      BY <3>4
  <2>2. CASE Same(Value(other, w), 0)
    <3> DEFINE d == f.const - other.const
    <3>1. Value(f, w) - f.const = Value(other, w) - other.const
      BY <1>3, SameCoefs
    <3>2. Value(f, w) \in Int /\ Value(other, w) \in Int
      BY <1>3, ValueIs
    <3>3. Value(f, w) = Value(other, w) + d /\ d \in Int /\ 0 + d = d
      BY <1>7, <3>1, <3>2
    <3>4. Same(Value(other, w) + d, 0 + d)
      BY <2>2, <3>3, SameRefl, SameAdd
    <3>5. Same(a * v, d)
      BY <1>4, <3>3, <3>4
    <3> HIDE DEF a, v, d
    <3>6. Same(v, InverseOf(a) * d) /\ InverseOf(a) * d \in Int
      BY <1>2, <1>3, <1>10, <3>3, <3>5, ScaledBack
    <3>7. Same(v, k)
      BY <3>6, SameMod, SameTrans DEF d
    <3> HIDE DEF k
    <3>8. v \in {k, k - P}
      BY <1>8, <1>10, <1>11, <3>7, InBoth
    <3>9. QED
      BY <1>6, <1>10, <3>8
  <2>3. QED
    BY <2>1, <2>2
<1>13. v = w[x] - (-g.const) - Total([y \in Columns(g) \ {x} |-> weights[y] * w[y]])
  BY <1>1, <1>3, <1>4, <1>5, SolvedForColumn DEF weights
<1>14. DOMAIN weights = Columns(g) \ {x}
  BY DEF weights
<1>15. D.col = x /\ D.mod = m /\ D.offset = -g.const /\ D.weights = weights
  BY <1>1
<1> DEFINE t == w[D.col] - D.offset - Total([y \in DOMAIN D.weights |-> D.weights[y] * w[y]])
<1>16. t = v
  BY <1>13, <1>14, <1>15
<1> HIDE DEF t, v
<1>17. IF m = 0 THEN v = 0 ELSE v % m = 0
  <2>1. CASE roots = {}
    BY <1>9, <1>12, <2>1, RootsModulus DEF m
  <2>2. CASE roots # {}
    <3>1. m \in Nat /\ m > 0 /\ \A r \in roots : r % m = 0
      BY <1>9, <2>2, RootsModulus DEF m
    <3>2. 0 % m = 0
      BY <3>1
    <3>3. QED
      BY <1>12, <3>1, <3>2
  <2>3. QED
    BY <2>1, <2>2
<1>18. QED
  BY <1>15, <1>16, <1>17 DEF AffineHolds, t

\* The decomposition of an address limb holds, up to its modulus.
THEOREM AffineTrue ==
  ASSUME NEW c, NEW w, Assigned(c, w), NEW an, IsTrueAnalysis(an, c, w), NEW x, NEW D \in Affine(c, an, x)
  PROVE  AffineHolds(D, w)
<1> DEFINE found == {n \in DOMAIN c.cons : Definitions(an, x, c.cons[n]) # {}}
<1>1. found # {} /\ Affine(c, an, x) = Definitions(an, x, c.cons[Min(found)])
  BY DEF Affine
<1>2. Min(found) \in found
  <2>1. found \subseteq Nat
    BY AssignedIs, CircuitIs
  <2> HIDE DEF found
  <2>2. \E n \in found : \A m \in found : n <= m
    BY <1>1, <2>1, SmallestNumber
  <2>3. QED
    BY <2>2 DEF Min
<1> DEFINE e == c.cons[Min(found)]
<1>3. e \in Constraints(c)
  BY <1>2, AssignedIs, CircuitIs
<1> HIDE DEF found
<1>4. D \in Definitions(an, x, e)
  BY <1>1
<1> HIDE DEF e
<1> DEFINE f == e[1][1]
           g == e[1][2]
<1>5. IsProduct(e) /\ (D \in Defines(an, x, f, g) \/ D \in Defines(an, x, g, f))
  BY <1>4 DEF Definitions, FirstOf
<1>6. Len(e) = 1 /\ Len(e[1]) = 2 /\ f.coef = g.coef
  BY <1>5 DEF IsProduct
<1>7. /\ e \in Exprs(Cols(c)) /\ AllValued(e, w) /\ \A h \in Factors(e) : h \in Forms(Cols(c)) /\ IsCanonical(h)
      /\ Names(e) # {} => Eval(e, w) = 0
  BY <1>3, ConstraintHolds
<1>8. f \in Factors(e) /\ g \in Factors(e) /\ Columns(f) \subseteq Names(e) /\ Columns(g) \subseteq Names(e)
  <2>1. 1 \in DOMAIN e
    BY <1>6, <1>7, ExprIs
  <2>2. 1 \in DOMAIN e[1] /\ 2 \in DOMAIN e[1]
    BY <1>6, <1>7, <2>1, ExprIs
  <2>3. QED
    BY <1>7, <2>1, <2>2, ExprIs
<1>9. Names(e) # {}
  <2>1. x \in Columns(f) \/ x \in Columns(g)
    BY <1>5 DEF Defines
  <2>2. QED
    BY <1>8, <2>1
<1>10. PrimeField
  BY AssignedIs
<1>11. Same(Value(f, w), 0) \/ Same(Value(g, w), 0)
  <2>1. PICK j \in 1..Len(e[1]) : Same(Value(e[1][j], w), 0)
    BY <1>6, <1>7, <1>9, <1>10, EvalOfProduct
  <2>2. j = 1 \/ j = 2
    BY <1>6, <2>1
  <2>3. QED
    BY <2>1, <2>2
<1>12. f \in Forms(Cols(c)) /\ IsCanonical(f) /\ g \in Forms(Cols(c)) /\ IsCanonical(g)
  BY <1>7, <1>8
<1> HIDE DEF f, g
<1>13. QED
  BY <1>5, <1>6, <1>11, <1>12, DefinesTrue

-----------------------------------------------------------------------------
\* What the rules that need all bounds start from holds.
LEMMA AnalysisTrue ==
  ASSUME NEW c, NEW w, Assigned(c, w), IsGranted(c)
  PROVE  IsTrueAnalysis(Analysed(c), c, w)
<1>1. Analysed(c).p = KnownOf(c) /\ Analysed(c).aliases = AliasesOf(c)
  BY AnalysedIs DEF IsAnalysis
<1>2. KnownFacts(KnownOf(c), Cols(c), w)
  BY KnownOfTrue
<1>3. AliasesAgree(AliasesOf(c), Cols(c), w)
  BY AliasesTrue DEF AliasesOf
<1>4. Analysed(c).bounds \in TrueBounds(w)
  BY BoundsTrue
<1>5. QED
  BY <1>1, <1>2, <1>3, <1>4 DEF IsTrueAnalysis

\* Every fact that is extracted of a circuit holds of the integers in every
\* assignment that satisfies the circuit.
THEOREM HoldsTrue ==
  ASSUME NEW c, NEW w, Assigned(c, w), IsGranted(c)
  PROVE  HoldsIn(c, Extracted(c), w)
<1> DEFINE an == Extracted(c)
           bn == Analysed(c)
<1>1. /\ an.p = KnownOf(c) /\ an.kinds = KindsOf(c) /\ an.rows = FoldedRows(c)
      /\ an.bounds = bn.bounds /\ an.gaps = Gaps(c, bn) /\ an.uppers = RecvUppers(c, bn)
      /\ an.defs = [x \in DOMAIN bn.bounds |-> Affine(c, bn, x)]
  BY AnalysedIs DEF IsAnalysis
<1>2. IsTrueAnalysis(bn, c, w) /\ bn.bounds \in TrueBounds(w)
  BY AnalysisTrue, BoundsTrue
<1>3. KnownFacts(KnownOf(c), Cols(c), w)
  BY KnownOfTrue
<1>4. SelectorIsValid(c)
  BY DEF IsGranted
<1> HIDE DEF an, bn
<1>5. \A x \in DOMAIN an.bounds : an.bounds[x].lo <= w[x] /\ w[x] < an.bounds[x].hi
  BY <1>1, <1>2, BoundsAre
<1>6. \A x \in DOMAIN an.p.pins : w[x] = an.p.pins[x] % P
  <2>1. SUFFICES ASSUME NEW x \in DOMAIN an.p.pins PROVE w[x] = an.p.pins[x] % P
    OBVIOUS
  <2> DEFINE v == an.p.pins[x]
  <2>2. v \in Int /\ Same(v, w[x]) /\ x \in DOMAIN w
    BY <1>1, <1>3, <2>1, PinningIs DEF KnownFacts
  <2>3. w[x] \in 0..P - 1
    BY <2>2, AssignedIs
  <2> HIDE DEF v
  <2>4. Same(v % P, v) /\ v % P \in 0..P - 1
    BY <2>2, SameMod, Remainder, PrimeIsInt
  <2>5. Same(v % P, w[x])
    BY <2>2, <2>4, SameTrans
  <2>6. (v % P) - w[x] < P /\ w[x] - (v % P) < P
    BY <2>3, <2>4, PrimeIsInt
  <2>7. v % P = w[x]
    BY <2>5, <2>6, SameClose
  <2>8. QED
    BY <2>7 DEF v
<1>7. \A z \in an.p.zeros : Value(z, w) = 0
  BY <1>1, <1>3 DEF KnownFacts
<1>8. \A i \in DOMAIN c.rows : KindHolds(an.kinds[i], Eval(c.rows[i].mult, w)) /\ SameRowValues(c.rows[i], an.rows[i], w)
  BY <1>1, KindsOfTrue, RowsOfTrue
<1>9. \A d \in an.gaps : w[d.to] = w[d.from] + d.by
  BY <1>1, <1>2, GapsTrue
<1>10. \A u \in an.uppers : w[u.pv] <= w[u.fs] + u.by
  BY <1>1, <1>2, <1>4, ConstraintUppersTrue, CheckUppersTrue DEF RecvUppers
<1>11. \A x \in DOMAIN an.defs : \A D \in an.defs[x] : AffineHolds(D, w)
  BY <1>1, <1>2, AffineTrue
<1>12. QED
  BY <1>5, <1>6, <1>7, <1>8, <1>9, <1>10, <1>11 DEF HoldsIn, an

-----------------------------------------------------------------------------
\* While the columns are assigned: the first ones have values, and whatever
\* reads only those has been respected.
Respected(c, w) ==
  /\ \A e \in Constraints(c) : Names(e) # {} /\ Names(e) \subseteq DOMAIN w => Eval(e, w) = 0
  /\ \A k \in ToSet(c.checks) :
       CheckNames(k) # {} /\ CheckNames(k) \subseteq DOMAIN w /\ Eval(k.mult, w) # 0 => InRange(k, w)
  /\ \A r \in ToSet(c.rows) :
       RowNames(r) # {} /\ RowNames(r) \subseteq DOMAIN w /\ Eval(r.mult, w) = P - 1
         => \A a \in ToSet(r.data) : Eval(a, w) < Byte
  /\ \A s \in c.subs : {s.from, s.to} \subseteq DOMAIN w => (w[s.from] + s.by - w[s.to]) % P = 0
ColumnsUpTo(c, w, n) == n \in 0..Len(c.cols) /\ DOMAIN w = {c.cols[i] : i \in 1..n}
InProgress(c, w) ==
  /\ \E n \in Nat : ColumnsUpTo(c, w, n)
  /\ \A x \in DOMAIN w : w[x] \in ValuesOf(c, x)
  /\ Respected(c, w)

\* With no columns, nothing is read.
LEMMA StartsRight == ASSUME NEW c, IsCircuit(c) PROVE InProgress(c, <<>>)
<1>1. DOMAIN <<>> = {}
  OBVIOUS
<1>2. Len(c.cols) \in Nat
  BY CircuitIs
<1>3. ColumnsUpTo(c, <<>>, 0)
  BY <1>1, <1>2 DEF ColumnsUpTo
<1>4. Respected(c, <<>>)
  <2>1. \A N : N # {} => ~(N \subseteq DOMAIN <<>>)
    BY <1>1
  <2>2. \A s : ~({s.from, s.to} \subseteq DOMAIN <<>>)
    BY <1>1
  <2>3. QED
    BY <2>1, <2>2 DEF Respected
<1>5. QED
  BY <1>1, <1>3, <1>4 DEF InProgress

\* The number of columns assigned is the position reached.
LEMMA PrefixSize ==
  ASSUME NEW c, IsCircuit(c), NEW w, NEW n \in Nat, ColumnsUpTo(c, w, n) PROVE Cardinality(DOMAIN w) = n
<1> DEFINE f == [i \in 1..n |-> c.cols[i]]
<1>1. n \in 0..Len(c.cols) /\ DOMAIN c.cols = 1..Len(c.cols) /\ Len(c.cols) \in Nat
  BY CircuitIs DEF ColumnsUpTo
<1>2. \A i, j \in 1..n : c.cols[i] = c.cols[j] => i = j
  BY <1>1 DEF IsCircuit
<1>3. DOMAIN w = {c.cols[i] : i \in 1..n}
  BY DEF ColumnsUpTo
<1>4. f \in Bijection(1..n, DOMAIN w)
  <2>1. f \in [1..n -> DOMAIN w] /\ \A x \in DOMAIN w : \E i \in 1..n : f[i] = x
    BY <1>3
  <2>2. \A i, j \in 1..n : f[i] = f[j] => i = j
    BY <1>2
  <2> HIDE DEF f
  <2>3. f \in Injection(1..n, DOMAIN w)
    BY <2>1, <2>2 DEF Injection, IsInjective
  <2>4. f \in Surjection(1..n, DOMAIN w)
    BY <2>1 DEF Surjection
  <2>5. QED
    BY <2>3, <2>4 DEF Bijection
<1>5. IsFiniteSet(1..n) /\ Cardinality(1..n) = n
  <2>1. 1 \in Int /\ n \in Int /\ 1 <= n + 1
    OBVIOUS
  <2>2. QED
    BY <2>1, FS_Interval
<1> HIDE DEF f
<1>6. Cardinality(1..n) = Cardinality(DOMAIN w)
  <2>1. IsFiniteSet(1..n)
    BY <1>5
  <2>2. ExistsBijection(1..n, DOMAIN w)
    BY <1>4 DEF ExistsBijection
  <2>3. QED
    BY <2>1, <2>2, FS_Bijection
<1>7. QED
  BY <1>5, <1>6

\* A range check asks the same of assignments that agree on its columns.
LEMMA InRangeAgrees ==
  ASSUME NEW C, NEW k, \A a \in ToSet(k.args) : a \in Exprs(C), k.bus = "var" => k.args[1] \in ToSet(k.args),
         NEW w, NEW u, \A a \in ToSet(k.args) : Eval(a, w) = Eval(a, u), InRange(k, w)
  PROVE  InRange(k, u)
<1>1. CASE k.bus = "var"
  BY <1>1 DEF InRange
<1>2. CASE k.bus = "bitwise"
  BY <1>2 DEF InRange
<1>3. CASE k.bus # "var" /\ k.bus # "bitwise"
  BY <1>3 DEF InRange
<1>4. QED
  BY <1>1, <1>2, <1>3

\* One more column is assigned.
LEMMA OneMore ==
  ASSUME NEW c, IsCircuit(c), NEW w, InProgress(c, w), DOMAIN w # ToSet(c.cols),
         NEW x, x = c.cols[Cardinality(DOMAIN w) + 1], NEW v \in ValuesOf(c, x), NEW u, u = Joined(w, Just(x, v)),
         AllowsLast(c, u, x)
  PROVE  InProgress(c, u)
<1> DEFINE C == ToSet(c.cols)
<1>1. PICK n \in Nat : ColumnsUpTo(c, w, n)
  BY DEF InProgress
<1>2. Cardinality(DOMAIN w) = n
  BY <1>1, PrefixSize
<1>3. n \in 0..Len(c.cols) /\ DOMAIN w = {c.cols[i] : i \in 1..n} /\ DOMAIN c.cols = 1..Len(c.cols) /\ Len(c.cols) \in Nat
  BY <1>1, CircuitIs DEF ColumnsUpTo
<1>4. n + 1 \in 0..Len(c.cols)
  <2>1. n # Len(c.cols)
    BY <1>3 DEF ToSet
  <2>2. QED
    BY <1>3, <2>1
<1>5. x = c.cols[n + 1] /\ n + 1 \in DOMAIN c.cols
  <2>1. n + 1 \in 1..Len(c.cols)
    BY <1>3, <1>4
  <2>2. QED
    BY <1>2, <1>3, <2>1
<1> DEFINE j == Just(x, v)
<1>20. DOMAIN j = {x} /\ j[x] = v
  BY DEF Just
<1>21. u = Joined(w, j)
  OBVIOUS
<1> HIDE DEF j
<1>6. DOMAIN u = DOMAIN w \cup {x} /\ \A y \in DOMAIN w : u[y] = w[y]
  <2>1. /\ DOMAIN Joined(w, j) = DOMAIN w \cup DOMAIN j
        /\ \A y \in DOMAIN w : Joined(w, j)[y] = w[y]
    BY JoinedIs, ZenonT(40)
  <2>2. QED
    BY <1>20, <1>21, <2>1
<1>7. x \notin DOMAIN w
  <2>1. SUFFICES ASSUME x \in DOMAIN w PROVE FALSE
    OBVIOUS
  <2>2. PICK i \in 1..n : x = c.cols[i]
    BY <1>3, <2>1
  <2>3. i \in DOMAIN c.cols /\ i # n + 1
    BY <1>3, <2>2
  <2>4. QED
    BY <1>5, <2>2, <2>3 DEF IsCircuit
<1>8. u[x] = v
  <2>1. \A y \in DOMAIN j \ DOMAIN w : Joined(w, j)[y] = j[y]
    BY JoinedIs
  <2>2. QED
    BY <1>7, <1>20, <1>21, <2>1
<1>9. ColumnsUpTo(c, u, n + 1)
  <2>1. 1..n + 1 = (1..n) \cup {n + 1}
    OBVIOUS
  <2>2. {c.cols[i] : i \in 1..n + 1} = {c.cols[i] : i \in 1..n} \cup {c.cols[n + 1]}
    BY <2>1
  <2>3. QED
    BY <1>3, <1>4, <1>5, <1>6, <2>2 DEF ColumnsUpTo
<1>10. \A y \in DOMAIN u : u[y] \in ValuesOf(c, y)
  BY <1>6, <1>8 DEF InProgress
<1>11. Respected(c, w)
  BY DEF InProgress
<1>12. \A e \in Exprs(C) : Names(e) \subseteq DOMAIN w => Eval(e, w) = Eval(e, u)
  <2>1. SUFFICES ASSUME NEW e \in Exprs(C), Names(e) \subseteq DOMAIN w PROVE Eval(e, w) = Eval(e, u)
    OBVIOUS
  <2>2. Names(e) \subseteq DOMAIN u /\ \A y \in Names(e) : w[y] = u[y]
    BY <1>6, <2>1
  <2>3. QED
    BY <2>1, <2>2, EvalAgreesOn
<1>13. \A N : N \subseteq DOMAIN u => Reads(x, N, u) \/ N \subseteq DOMAIN w
  BY <1>6 DEF Reads
<1>14. ASSUME NEW e \in Constraints(c), Names(e) # {}, Names(e) \subseteq DOMAIN u PROVE Eval(e, u) = 0
  <2>1. CASE Reads(x, Names(e), u)
    BY <2>1 DEF AllowsLast
  <2>2. CASE Names(e) \subseteq DOMAIN w
    <3>1. e \in Exprs(C) /\ Eval(e, w) = 0
      BY <1>11, <1>14, <2>2, CircuitIs DEF Respected
    <3>2. QED
      BY <1>12, <2>2, <3>1
  <2>3. QED
    BY <1>13, <1>14, <2>1, <2>2
<1>15. ASSUME NEW k \in ToSet(c.checks), CheckNames(k) # {}, CheckNames(k) \subseteq DOMAIN u, Eval(k.mult, u) # 0
       PROVE InRange(k, u)
  <2>1. CASE Reads(x, CheckNames(k), u)
    BY <1>15, <2>1 DEF AllowsLast
  <2>2. CASE CheckNames(k) \subseteq DOMAIN w
    <3>1. k.mult \in Exprs(C) /\ (\A a \in ToSet(k.args) : a \in Exprs(C)) /\ (k.bus = "var" => k.args[1] \in ToSet(k.args))
      BY CircuitIs
    <3>2. Names(k.mult) \subseteq DOMAIN w /\ \A a \in ToSet(k.args) : Names(a) \subseteq DOMAIN w
      BY <2>2 DEF CheckNames
    <3>3. Eval(k.mult, w) = Eval(k.mult, u) /\ \A a \in ToSet(k.args) : Eval(a, w) = Eval(a, u)
      BY <1>12, <3>1, <3>2
    <3>4. InRange(k, w)
      BY <1>11, <1>15, <2>2, <3>3 DEF Respected
    <3>5. QED
      BY <3>1, <3>3, <3>4, InRangeAgrees
  <2>3. QED
    BY <1>13, <1>15, <2>1, <2>2
<1>16. ASSUME NEW r \in ToSet(c.rows), RowNames(r) # {}, RowNames(r) \subseteq DOMAIN u, Eval(r.mult, u) = P - 1,
              NEW a \in ToSet(r.data)
       PROVE Eval(a, u) < Byte
  <2>1. CASE Reads(x, RowNames(r), u)
    BY <1>16, <2>1 DEF AllowsLast
  <2>2. CASE RowNames(r) \subseteq DOMAIN w
    <3>1. r.mult \in Exprs(C) /\ a \in Exprs(C)
      BY CircuitIs
    <3>2. Names(r.mult) \subseteq DOMAIN w /\ Names(a) \subseteq DOMAIN w
      BY <2>2 DEF RowNames
    <3>3. Eval(r.mult, w) = Eval(r.mult, u) /\ Eval(a, w) = Eval(a, u)
      BY <1>12, <3>1, <3>2
    <3>4. Eval(a, w) < Byte
      BY <1>11, <1>16, <2>2, <3>3 DEF Respected
    <3>5. QED
      BY <3>3, <3>4
  <2>3. QED
    BY <1>13, <1>16, <2>1, <2>2
<1>17. ASSUME NEW s \in c.subs, {s.from, s.to} \subseteq DOMAIN u PROVE (u[s.from] + s.by - u[s.to]) % P = 0
  <2>1. CASE Reads(x, {s.from, s.to}, u)
    BY <1>17, <2>1 DEF AllowsLast
  <2>2. CASE {s.from, s.to} \subseteq DOMAIN w
    <3>1. (w[s.from] + s.by - w[s.to]) % P = 0
      BY <1>11, <1>17, <2>2 DEF Respected
    <3>2. u[s.from] = w[s.from] /\ u[s.to] = w[s.to]
      BY <1>6, <2>2
    <3>3. QED
      BY <3>1, <3>2
  <2>3. QED
    BY <1>13, <1>17, <2>1, <2>2
<1>18. Respected(c, u)
  BY <1>14, <1>15, <1>16, <1>17 DEF Respected
<1>19. QED
  BY <1>9, <1>10, <1>18 DEF InProgress

\* When all columns have values, the circuit is satisfied.
LEMMA AllRespected ==
  ASSUME NEW c, IsCircuit(c), NEW w, InProgress(c, w), DOMAIN w = ToSet(c.cols) PROVE Satisfied(c, w)
<1> DEFINE C == ToSet(c.cols)
<1>1. Respected(c, w) /\ \A x \in C : w[x] \in ValuesOf(c, x)
  BY DEF InProgress
<1>2. \A e \in Exprs(C) : Names(e) \subseteq C
  BY ExprIs
<1>3. \A e \in Constraints(c) : Names(e) \subseteq DOMAIN w
  BY <1>2, CircuitIs
<1>4. \A k \in ToSet(c.checks) : CheckNames(k) \subseteq DOMAIN w
  BY <1>2, CircuitIs DEF CheckNames
<1>5. \A r \in ToSet(c.rows) : RowNames(r) \subseteq DOMAIN w
  BY <1>2, CircuitIs DEF RowNames
<1>6. \A s \in c.subs : {s.from, s.to} \subseteq DOMAIN w
  BY DEF IsCircuit, IsStep
<1>7. QED
  BY <1>1, <1>3, <1>4, <1>5, <1>6 DEF Satisfied, Respected

-----------------------------------------------------------------------------
\* While columns are assigned, those that have values respect the circuit.
FactsInv == circuit # "none" => circuit \in DOMAIN Dumps /\ InProgress(Dumps[circuit], columns)

\* It holds when the assignment starts.
LEMMA FactsInvInit == ASSUME AllGranted, ReportedInit PROVE FactsInv
<1>1. CASE circuit = "none"
  BY <1>1 DEF FactsInv
<1>2. CASE ColumnsInit
  <2>1. circuit \in DOMAIN Dumps /\ columns = <<>>
    BY <1>2 DEF ColumnsInit
  <2>2. InProgress(Dumps[circuit], <<>>)
    BY <2>1, StartsRight DEF AllGranted
  <2>3. QED
    BY <2>1, <2>2 DEF FactsInv
<1>3. QED
  BY <1>1, <1>2 DEF ReportedInit

\* It holds after one more column.
LEMMA FactsInvAssign == ASSUME AllGranted, FactsInv, Assign PROVE FactsInv'
<1> DEFINE c == Dumps[circuit]
<1>1. circuit # "none" /\ ~Full /\ circuit' = circuit
  BY DEF Assign
<1>2. circuit \in DOMAIN Dumps /\ InProgress(c, columns) /\ IsCircuit(c)
  BY <1>1 DEF FactsInv, AllGranted
<1>3. DOMAIN columns # ToSet(c.cols)
  BY <1>1 DEF Full
<1>4. NextColumn = c.cols[Cardinality(DOMAIN columns) + 1]
  BY DEF NextColumn
<1>5. PICK v \in ValuesOf(c, NextColumn) : columns' = Joined(columns, Just(NextColumn, v))
  BY DEF Assign
<1>6. AllowsLast(c, columns', NextColumn)
  BY DEF Assign
<1> HIDE DEF c
<1>7. InProgress(c, columns')
  BY <1>2, <1>3, <1>4, <1>5, <1>6, OneMore
<1>8. QED
  BY <1>1, <1>2, <1>7 DEF FactsInv, c

\* It holds after every step.
LEMMA FactsInvStep == ASSUME AllGranted, FactsInv, [ReportedNext]_reportVars PROVE FactsInv'
<1>1. CASE Assign
  BY <1>1, FactsInvAssign
<1>2. CASE \E st \in Followed : Report(st)
  BY <1>2 DEF Report, FactsInv
<1>3. CASE UNCHANGED columnVars
  BY <1>3 DEF FactsInv, columnVars
<1>4. QED
  BY <1>1, <1>2, <1>3 DEF ReportedNext, Continue, reportVars

\* At the end the circuit is satisfied, so that the facts hold.
LEMMA FactsFollow == ASSUME AllGranted, FactsInv PROVE FactsHold
<1>1. SUFFICES ASSUME Full PROVE HoldsIn(Dumps[circuit], Extractions[circuit], columns)
  BY DEF FactsHold
<1> DEFINE c == Dumps[circuit]
<1>2. circuit \in DOMAIN Dumps /\ InProgress(c, columns) /\ DOMAIN columns = ToSet(c.cols)
  BY <1>1 DEF Full, FactsInv
<1>3. IsCircuit(c) /\ IsGranted(c) /\ PrimeField
  BY <1>2 DEF AllGranted
<1>4. Extractions[circuit] = Extracted(c)
  BY <1>2 DEF Extractions
<1> HIDE DEF c
<1>5. Assigned(c, columns)
  BY <1>2, <1>3, AllRespected DEF Assigned
<1>6. HoldsIn(c, Extracted(c), columns)
  BY <1>3, <1>5, HoldsTrue
<1>7. QED
  BY <1>4, <1>6 DEF c

\* Every fact that membus extracts holds in every assignment that satisfies the
\* circuit modulo the prime, whatever the dumps, if what the code takes for
\* granted is true of them.
THEOREM FactsAreTrue == ASSUME AllGranted PROVE ReportedSpec => []FactsHold
<1>1. ReportedInit => FactsInv
  BY FactsInvInit
<1>2. FactsInv /\ [ReportedNext]_reportVars => FactsInv'
  BY FactsInvStep
<1>3. FactsInv => FactsHold
  BY FactsFollow
<1>4. QED
  BY <1>1, <1>2, <1>3, PTL DEF ReportedSpec
=============================================================================
