-------------------------- MODULE WireBufferProofs --------------------------
(***************************************************************************)
(* Proofs about the data types of the protocol and a Buffer of them, for   *)
(* all widths of bytes, varints and fixed-size numbers, all limits, and    *)
(* whatever is written, arrives, is read, cleared or reset.                *)
(***************************************************************************)
EXTENDS WireBuffer, FiniteSetTheorems, SequenceTheorems, WellFoundedInduction, TLAPS

-----------------------------------------------------------------------------
(* Induction over an interval, for sets in the place of predicates.        *)

\* A set of naturals that is not empty has a least element.
LEMMA LeastNat ==
    ASSUME NEW S \in SUBSET Nat, S # {}
    PROVE  \E m \in S : \A x \in S : m <= x
  <1>1. IsWellFoundedOn(OpToRel(<, Nat), Nat)
    BY NatLessThanWellFounded
  <1>2. PICK m \in S : \A y \in S : <<y, m>> \notin OpToRel(<, Nat)
    BY <1>1, WFMin
  <1>3. \A y \in S : ~(y < m)
    BY <1>2 DEF OpToRel
  <1> QED
    BY <1>3

\* A set that has 0 and, with each number below n, the next one has them all.
LEMMA UpTo ==
    ASSUME NEW n \in Nat, NEW T, 0 \in T,
           \A i \in 1 .. n : i - 1 \in T => i \in T
    PROVE  0 .. n \subseteq T
  <1> DEFINE Missing == {i \in 0 .. n : i \notin T}
  <1> SUFFICES ASSUME Missing # {} PROVE FALSE
    OBVIOUS
  <1>0. Missing \in SUBSET Nat
    OBVIOUS
  <1>1. PICK m \in Missing : \A x \in Missing : m <= x
    <2> HIDE DEF Missing
    <2> QED
      BY <1>0, LeastNat
  <1>2. m \in 1 .. n /\ m - 1 \in 0 .. n
    BY <1>1
  <1>3. m - 1 \in T
    BY <1>1, <1>2
  <1> QED
    BY <1>1, <1>2, <1>3

\* A function may be defined by its value at 0 and a step.
Steps(n, V) == [(1 .. n) \X V -> V]
IsRun(f, n, V, a, step) ==
    /\ f \in [0 .. n -> V]
    /\ f[0] = a /\ \A i \in 1 .. n : f[i] = step[<<i, f[i - 1]>>]

\* There is such a function for every step: the recursions of Sum and Spelled
\* are defined by their equations.
LEMMA Recursion ==
    ASSUME NEW n \in Nat, NEW V, NEW a \in V, NEW step \in Steps(n, V)
    PROVE  \E f : IsRun(f, n, V, a, step)
  <1> DEFINE Partial(m, f) ==
                 f[0] = a /\ \A i \in 1 .. m : f[i] = step[<<i, f[i - 1]>>]
             T == {m \in 0 .. n : \E f \in [0 .. m -> V] : Partial(m, f)}
  <1>1. 0 \in T
    <2> DEFINE f == [i \in 0 .. 0 |-> a]
    <2>1. f \in [0 .. 0 -> V] /\ Partial(0, f)
      OBVIOUS
    <2> HIDE DEF f
    <2> QED
      BY <2>1
  <1>2. ASSUME NEW m \in 1 .. n, m - 1 \in T PROVE m \in T
    <2>1. PICK f \in [0 .. m - 1 -> V] : Partial(m - 1, f)
      BY <1>2
    <2> DEFINE g == [i \in 0 .. m |-> IF i = m THEN step[<<m, f[m - 1]>>] ELSE f[i]]
    <2>2. m - 1 \in 0 .. m - 1 /\ f[m - 1] \in V
      OBVIOUS
    <2>3. step[<<m, f[m - 1]>>] \in V
      BY <2>2 DEF Steps
    <2>4. g \in [0 .. m -> V]
      BY <2>3
    <2>5. ASSUME NEW i \in 1 .. m PROVE g[i] = step[<<i, g[i - 1]>>]
      <3>1. g[i - 1] = f[i - 1]
        OBVIOUS
      <3>2. CASE i = m
        <4>1. g[m] = step[<<m, f[m - 1]>>]
          OBVIOUS
        <4>2. g[m - 1] = f[m - 1]
          BY <3>1, <3>2
        <4> HIDE DEF g
        <4> QED
          BY <3>2, <4>1, <4>2
      <3>3. CASE i # m
        BY <2>1, <3>1, <3>3
      <3> QED
        BY <3>2, <3>3
    <2>6. g[0] = a
      BY <2>1
    <2> HIDE DEF g
    <2> QED
      BY <2>4, <2>5, <2>6
  <1>3. n \in T
    <2> HIDE DEF T
    <2> QED
      BY <1>1, <1>2, UpTo
  <1> QED
    BY <1>3 DEF IsRun

-----------------------------------------------------------------------------
(* Division with remainder.                                                *)

\* A number is its quotient and its remainder.
LEMMA Division ==
    ASSUME NEW a \in Int, NEW b \in Int, b > 0
    PROVE  a = b * (a \div b) + (a % b)
  OBVIOUS

\* They are the remainder below the divisor and the quotient.
LEMMA DivMod ==
    ASSUME NEW a \in Nat, NEW b \in Nat \ {0}
    PROVE  /\ a = b * (a \div b) + (a % b)
           /\ a % b \in 0 .. b - 1 /\ a % b \in Nat
           /\ a \div b \in Nat
  <1>1. a \in Int /\ b \in Int /\ b > 0
    OBVIOUS
  <1>2. a = b * (a \div b) + (a % b)
    BY <1>1, Division
  <1>3. a % b \in 0 .. b - 1
    OBVIOUS
  <1>4. a \div b \in Nat
    OBVIOUS
  <1> QED
    BY <1>2, <1>3, <1>4

\* And of no other two.
LEMMA DivModUnique ==
    ASSUME NEW b \in Nat \ {0}, NEW q \in Nat, NEW r \in 0 .. b - 1
    PROVE  (b * q + r) \div b = q /\ (b * q + r) % b = r
  OBVIOUS

\* Digits in base b below c blocks make a number below b * c.
LEMMA DigitBound ==
    ASSUME NEW b \in Nat \ {0}, NEW c \in Nat \ {0}, NEW r \in 0 .. b - 1, NEW s \in 0 .. c - 1
    PROVE  b * s + r \in 0 .. b * c - 1
  <1>1. b * s <= b * (c - 1)
    OBVIOUS
  <1>2. b * (c - 1) = b * c - b
    OBVIOUS
  <1>3. b * s \in Nat
    OBVIOUS
  <1> QED
    BY <1>1, <1>2, <1>3

\* Dividing by b and then by c is dividing by b * c, and the remainder is the
\* remainder of the first division and, above it, that of the second.
LEMMA TwoDivisions ==
    ASSUME NEW a \in Nat, NEW b \in Nat \ {0}, NEW c \in Nat \ {0}
    PROVE  /\ (a \div b) \div c = a \div (b * c)
           /\ a % (b * c) = b * ((a \div b) % c) + (a % b)
           /\ b * c \in Nat \ {0}
  <1> DEFINE q == a \div b
             r == a % b
             qq == q \div c
             rr == q % c
  <1>1. a = b * q + r /\ r \in 0 .. b - 1 /\ q \in Nat
    BY DivMod
  <1>2. q = c * qq + rr /\ rr \in 0 .. c - 1 /\ qq \in Nat
    BY <1>1, DivMod
  <1>3. b * c \in Nat \ {0}
    OBVIOUS
  <1> HIDE DEF q, r, qq, rr
  <1>4. a = (b * c) * qq + (b * rr + r)
    BY <1>1, <1>2
  <1>5. b * rr + r \in 0 .. b * c - 1
    BY <1>1, <1>2, DigitBound
  <1>6. a \div (b * c) = qq /\ a % (b * c) = b * rr + r
    BY <1>2, <1>3, <1>4, <1>5, DivModUnique
  <1>7. (a \div b) \div c = a \div (b * c)
    BY <1>6 DEF q, qq
  <1>8. a % (b * c) = b * ((a \div b) % c) + (a % b)
    BY <1>6 DEF q, r, rr
  <1> QED
    BY <1>3, <1>7, <1>8

\* The same of a divisor that is known to be a product.
LEMMA DividedAgain ==
    ASSUME NEW a \in Nat, NEW b \in Nat \ {0}, NEW c \in Nat \ {0}, NEW d, d = b * c
    PROVE  (a \div b) \div c = a \div d
  BY TwoDivisions

\* A smaller number divided is 0, and 0 divided is a smaller number.
LEMMA DivIsZero ==
    ASSUME NEW a \in Nat, NEW b \in Nat \ {0}
    PROVE  (a \div b = 0 <=> a < b) /\ (a < b => a % b = a)
  <1>1. a = b * (a \div b) + (a % b) /\ a % b \in 0 .. b - 1 /\ a \div b \in Nat
    BY DivMod
  <1>2. CASE a < b
    <2>1. a = b * 0 + a /\ a \in 0 .. b - 1
      BY <1>2
    <2> QED
      BY <1>2, <2>1, DivModUnique
  <1>3. CASE a \div b = 0
    BY <1>1, <1>3
  <1> QED
    BY <1>2, <1>3

-----------------------------------------------------------------------------
(* Powers of two: 2 ^ n is the number of subsets of a set of n elements.   *)

\* There are n numbers from 1 to n.
LEMMA CountTo ==
    ASSUME NEW n \in Nat
    PROVE  IsFiniteSet(1 .. n) /\ Cardinality(1 .. n) = n
  BY FS_Interval

\* The subsets of two disjoint sets together are the pairs of their subsets.
LEMMA PowerOfSum ==
    ASSUME NEW m \in Nat, NEW n \in Nat
    PROVE  2 ^ (m + n) = 2 ^ m * 2 ^ n
  <1> DEFINE A == 1 .. m
             B == m + 1 .. m + n
             C == 1 .. m + n
             f == [X \in SUBSET C |-> <<X \cap A, X \cap B>>]
  <1>1. /\ IsFiniteSet(A) /\ Cardinality(A) = m
        /\ IsFiniteSet(B) /\ Cardinality(B) = n
        /\ IsFiniteSet(C) /\ Cardinality(C) = m + n
    <2>1. IsFiniteSet(A) /\ Cardinality(A) = m
      BY FS_Interval
    <2>2. IsFiniteSet(B) /\ Cardinality(B) = n
      BY FS_Interval
    <2>3. IsFiniteSet(C) /\ Cardinality(C) = m + n
      <3>1. m + n \in Nat
        OBVIOUS
      <3> QED
        BY <3>1, CountTo
    <2> QED
      BY <2>1, <2>2, <2>3
  <1>2. C = A \cup B /\ A \cap B = {}
    OBVIOUS
  <1> HIDE DEF A, B, C
  <1>3. /\ IsFiniteSet(SUBSET A) /\ Cardinality(SUBSET A) = 2 ^ m
        /\ IsFiniteSet(SUBSET B) /\ Cardinality(SUBSET B) = 2 ^ n
        /\ IsFiniteSet(SUBSET C) /\ Cardinality(SUBSET C) = 2 ^ (m + n)
    BY <1>1, FS_SUBSET
  <1>4. Cardinality((SUBSET A) \X (SUBSET B)) = 2 ^ m * 2 ^ n
    <2>1. Cardinality((SUBSET A) \X (SUBSET B)) = Cardinality(SUBSET A) * Cardinality(SUBSET B)
      BY <1>3, FS_Product
    <2> QED
      BY <1>3, <2>1
  <1>5. f \in Bijection(SUBSET C, (SUBSET A) \X (SUBSET B))
    <2>1. f \in [SUBSET C -> (SUBSET A) \X (SUBSET B)]
      OBVIOUS
    <2>2. ASSUME NEW X \in SUBSET C, NEW Y \in SUBSET C, f[X] = f[Y]
          PROVE  X = Y
      <3>1. X \cap A = Y \cap A /\ X \cap B = Y \cap B
        BY <2>2
      <3> QED
        BY <1>2, <3>1
    <2>3. ASSUME NEW t \in (SUBSET A) \X (SUBSET B)
          PROVE  \E X \in SUBSET C : f[X] = t
      <3> DEFINE X == t[1] \cup t[2]
      <3>1. t = <<t[1], t[2]>> /\ t[1] \in SUBSET A /\ t[2] \in SUBSET B
        OBVIOUS
      <3>2. X \in SUBSET C /\ X \cap A = t[1] /\ X \cap B = t[2]
        BY <1>2, <3>1
      <3> HIDE DEF X
      <3>3. f[X] = t
        BY <3>1, <3>2
      <3> QED
        BY <3>2, <3>3
    <2> QED
      BY <2>1, <2>2, <2>3 DEF Bijection, Injection, Surjection, IsInjective
  <1>6. Cardinality((SUBSET A) \X (SUBSET B)) = Cardinality(SUBSET C)
    BY <1>3, <1>5, FS_Bijection DEF ExistsBijection
  <1> QED
    BY <1>3, <1>4, <1>6

\* A power of two is at least 1 and grows with its exponent.
LEMMA PowerType ==
    ASSUME NEW n \in Nat
    PROVE  2 ^ n \in Nat \ {0}
  <1>1. IsFiniteSet(1 .. n) /\ Cardinality(1 .. n) = n
    BY CountTo
  <1>2. IsFiniteSet(SUBSET (1 .. n)) /\ Cardinality(SUBSET (1 .. n)) = 2 ^ n
    BY <1>1, FS_SUBSET
  <1>3. 2 ^ n \in Nat
    BY <1>2, FS_CardinalityType
  <1>4. {} \in SUBSET (1 .. n)
    OBVIOUS
  <1>5. 2 ^ n # 0
    BY <1>2, <1>4, FS_EmptySet
  <1> QED
    BY <1>3, <1>5

\* A wider number is not less.
LEMMA PowerGrows ==
    ASSUME NEW m \in Nat, NEW n \in Nat, m <= n
    PROVE  2 ^ m <= 2 ^ n
  <1>1. n - m \in Nat /\ n = m + (n - m)
    OBVIOUS
  <1>2. 2 ^ n = 2 ^ m * 2 ^ (n - m)
    BY <1>1, PowerOfSum
  <1>3. 2 ^ m \in Nat \ {0} /\ 2 ^ (n - m) \in Nat \ {0}
    BY <1>1, PowerType
  <1> DEFINE x == 2 ^ m
             y == 2 ^ (n - m)
  <1>4. x * y >= x * 1
    <2>1. x \in Nat \ {0} /\ y \in Nat \ {0}
      BY <1>3
    <2> HIDE DEF x, y
    <2> QED
      BY <2>1
  <1> QED
    BY <1>2, <1>3, <1>4

\* One bit more doubles the numbers.
LEMMA PowerDoubles ==
    ASSUME NEW n \in Nat \ {0}
    PROVE  2 ^ n = 2 * 2 ^ (n - 1) /\ 2 ^ (n - 1) \in Nat \ {0}
  <1>1. n - 1 \in Nat /\ n = 1 + (n - 1)
    OBVIOUS
  <1>2. 2 ^ n = 2 ^ 1 * 2 ^ (n - 1)
    BY <1>1, PowerOfSum
  <1>3. 2 ^ 1 = 2
    OBVIOUS
  <1> QED
    BY <1>1, <1>2, <1>3, PowerType

-----------------------------------------------------------------------------
(* Two's complement.                                                       *)

\* The widths as numbers.
LEMMA Widths ==
    /\ PayloadBits \in Nat \ {0} /\ IntBits \in Nat \ {0} /\ LongBits \in Nat \ {0}
    /\ ByteBits \in Nat \ {0} /\ IntBits <= LongBits
  BY WidthAssumption DEF ByteBits

\* A number that fits becomes an unsigned one of the width, and comes back.
LEMMA ToAndFrom ==
    ASSUME NEW bits \in Nat \ {0}, NEW n \in Int, Fits(n, bits)
    PROVE  /\ ToTwosComplement(n, bits) \in 0 .. 2 ^ bits - 1
           /\ FromTwosComplement(ToTwosComplement(n, bits), bits) = n
  BY PowerDoubles DEF Fits, ToTwosComplement, FromTwosComplement

\* An unsigned number of the width becomes one that fits, and comes back.
LEMMA FromAndTo ==
    ASSUME NEW bits \in Nat \ {0}, NEW u \in 0 .. 2 ^ bits - 1
    PROVE  /\ FromTwosComplement(u, bits) \in Int
           /\ Fits(FromTwosComplement(u, bits), bits)
           /\ ToTwosComplement(FromTwosComplement(u, bits), bits) = u
  BY PowerDoubles DEF Fits, ToTwosComplement, FromTwosComplement

-----------------------------------------------------------------------------
(* The sum of the groups that were read.                                   *)

\* A byte is a payload, and above it the continuation bit.
LEMMA ByteParts ==
    /\ 2 ^ PayloadBits \in Nat \ {0}
    /\ Byte = 0 .. 2 * 2 ^ PayloadBits - 1
    /\ \A b \in Byte : Payload(b) \in 0 .. 2 ^ PayloadBits - 1 /\ Payload(b) \in Nat
    /\ \A v \in Nat : Payload(v) \in 0 .. 2 ^ PayloadBits - 1
  <1>1. PayloadBits \in Nat /\ PayloadBits + 1 \in Nat \ {0} /\ (PayloadBits + 1) - 1 = PayloadBits
    BY Widths
  <1>2. 2 ^ (PayloadBits + 1) = 2 * 2 ^ PayloadBits /\ 2 ^ PayloadBits \in Nat \ {0}
    BY <1>1, PowerDoubles
  <1>3. \A v \in Nat : Payload(v) \in 0 .. 2 ^ PayloadBits - 1
    BY <1>2, DivMod DEF Payload
  <1>4. Byte \subseteq Nat
    BY <1>2 DEF Byte
  <1> QED
    BY <1>2, <1>3, <1>4 DEF Byte

\* The weight of a group.
LEMMA WeightType ==
    ASSUME NEW i \in Nat
    PROVE  PayloadBits * i \in Nat /\ 2 ^ (PayloadBits * i) \in Nat \ {0}
  <1>1. PayloadBits * i \in Nat
    BY Widths
  <1> QED
    BY <1>1, PowerType

\* What is kept of a sum is a natural number.
LEMMA KeptType ==
    ASSUME NEW n \in Nat, NEW impl
    PROVE  Kept(n, impl) \in Nat
  <1>1. 2 ^ LongBits \in Nat \ {0}
    BY Widths, PowerType
  <1>2. n % 2 ^ LongBits \in Nat
    BY <1>1, DivMod
  <1> QED
    BY <1>2 DEF Kept

\* The sum starts at 0 and each byte adds its payload with the weight of its
\* place.
LEMMA SumStep ==
    ASSUME NEW u \in Seq(Byte), NEW impl
    PROVE  /\ Sum(u, 0, impl) = 0
           /\ \A i \in 1 .. Len(u) :
                 Sum(u, i, impl) =
                     Kept(Sum(u, i - 1, impl) + Payload(u[i]) * 2 ^ (PayloadBits * (i - 1)), impl)
           /\ \A i \in 0 .. Len(u) : Sum(u, i, impl) \in Nat
  <1> DEFINE n == Len(u)
             Added(i, v) == Kept(v + Payload(u[i]) * 2 ^ (PayloadBits * (i - 1)), impl)
             step == [x \in (1 .. n) \X Nat |-> Added(x[1], x[2])]
             Is(f) == f = [j \in 0 .. n |-> IF j = 0 THEN 0 ELSE Added(j, f[j - 1])]
  <1>1. n \in Nat
    OBVIOUS
  <1>2. ASSUME NEW i \in 1 .. n, NEW v \in Nat PROVE Added(i, v) \in Nat
    <2>1. Payload(u[i]) \in Nat
      <3>1. u[i] \in Byte
        OBVIOUS
      <3> QED
        BY <3>1, ByteParts
    <2>2. 2 ^ (PayloadBits * (i - 1)) \in Nat
      <3>1. i - 1 \in Nat
        OBVIOUS
      <3> QED
        BY <3>1, WeightType
    <2>3. v + Payload(u[i]) * 2 ^ (PayloadBits * (i - 1)) \in Nat
      BY <2>1, <2>2
    <2> QED
      BY <2>3, KeptType
  <1> HIDE DEF Added
  <1>3. step \in [(1 .. n) \X Nat -> Nat]
    BY <1>2
  <1>4. PICK f \in [0 .. n -> Nat] : f[0] = 0 /\ \A i \in 1 .. n : f[i] = step[<<i, f[i - 1]>>]
    <2>1. step \in Steps(n, Nat) /\ 0 \in Nat
      BY <1>3 DEF Steps
    <2> HIDE DEF n, step
    <2>2. \E f : IsRun(f, n, Nat, 0, step)
      BY <1>1, <2>1, Recursion
    <2> QED
      BY <2>2 DEF IsRun
  <1>5. ASSUME NEW i \in 1 .. n PROVE f[i] = Added(i, f[i - 1])
    <2>1. i - 1 \in 0 .. n
      OBVIOUS
    <2>2. <<i, f[i - 1]>> \in (1 .. n) \X Nat
      BY <2>1
    <2> QED
      BY <1>4, <2>2
  <1>6. Is(f)
    <2>1. f = [j \in 0 .. n |-> f[j]]
      OBVIOUS
    <2>2. \A j \in 0 .. n : f[j] = IF j = 0 THEN 0 ELSE Added(j, f[j - 1])
      BY <1>4, <1>5
    <2> QED
      BY <2>1, <2>2
  <1> DEFINE g == CHOOSE x : Is(x)
  <1>7. Is(g)
    <2> HIDE DEF Is
    <2> QED
      BY <1>6
  <1>8. \A i \in Nat : Sum(u, i, impl) = g[i]
    BY DEF Sum, Added
  <1> HIDE DEF g
  <1>9. g[0] = 0 /\ \A i \in 1 .. n : g[i] = Added(i, g[i - 1])
    BY <1>1, <1>7
  <1>10. \A i \in 0 .. n : g[i] \in Nat
    <2> DEFINE T == {i \in 0 .. n : g[i] \in Nat}
    <2>1. 0 \in T
      BY <1>9
    <2>2. \A i \in 1 .. n : i - 1 \in T => i \in T
      <3> SUFFICES ASSUME NEW i \in 1 .. n, i - 1 \in T PROVE i \in T
        OBVIOUS
      <3>1. g[i - 1] \in Nat
        OBVIOUS
      <3>2. g[i] \in Nat
        BY <3>1, <1>2, <1>9
      <3> QED
        BY <3>2
    <2> HIDE DEF T, n
    <2>3. 0 .. n \subseteq T
      BY <1>1, <2>1, <2>2, UpTo
    <2> QED
      BY <2>3 DEF T
  <1>11. Sum(u, 0, impl) = 0
    BY <1>8, <1>9
  <1>12. ASSUME NEW i \in 1 .. n
         PROVE  Sum(u, i, impl) = Added(i, Sum(u, i - 1, impl))
    <2>1. i \in Nat /\ i - 1 \in Nat
      OBVIOUS
    <2> QED
      BY <1>8, <1>9, <2>1
  <1>13. \A i \in 0 .. n : Sum(u, i, impl) \in Nat
    <2>1. 0 .. n \subseteq Nat
      OBVIOUS
    <2> QED
      BY <1>8, <1>10, <2>1
  <1> QED
    BY <1>11, <1>12, <1>13 DEF Added

\* Taking a remainder before adding changes no remainder.
LEMMA RemainderOfSum ==
    ASSUME NEW a \in Nat, NEW x \in Nat, NEW m \in Nat \ {0}
    PROVE  ((a % m) + x) % m = (a + x) % m
  <1> DEFINE q == a \div m
             r == a % m
             t == (r + x) \div m
             s == (r + x) % m
  <1>1. a = m * q + r /\ r \in 0 .. m - 1 /\ q \in Nat
    BY DivMod
  <1>2. r + x = m * t + s /\ s \in 0 .. m - 1 /\ t \in Nat
    <2>1. r + x \in Nat
      BY <1>1
    <2> QED
      BY <2>1, DivMod
  <1> HIDE DEF q, r, t, s
  <1>3. a + x = m * (q + t) + s /\ q + t \in Nat
    BY <1>1, <1>2
  <1>4. (a + x) % m = s
    BY <1>2, <1>3, DivModUnique
  <1> QED
    BY <1>4 DEF s, r

\* The weight of the next group.
LEMMA NextWeight ==
    ASSUME NEW i \in Nat \ {0}
    PROVE  2 ^ (PayloadBits * i) = 2 ^ (PayloadBits * (i - 1)) * 2 ^ PayloadBits
  <1>1. i - 1 \in Nat
    OBVIOUS
  <1>2. PayloadBits * (i - 1) \in Nat /\ PayloadBits \in Nat
    BY <1>1, WeightType, Widths
  <1>3. PayloadBits * i = PayloadBits * (i - 1) + PayloadBits
    BY <1>2
  <1> QED
    BY <1>2, <1>3, PowerOfSum

\* The sum of i groups depends on i bytes.
LEMMA SumOfPrefix ==
    ASSUME NEW u \in Seq(Byte), NEW w \in Seq(Byte), NEW impl,
           NEW k \in 0 .. Len(u), k <= Len(w), \A i \in 1 .. k : u[i] = w[i]
    PROVE  Sum(u, k, impl) = Sum(w, k, impl)
  <1> DEFINE T == {i \in 0 .. k : Sum(u, i, impl) = Sum(w, i, impl)}
  <1>1. 0 \in T
    BY SumStep
  <1>2. ASSUME NEW i \in 1 .. k, i - 1 \in T PROVE i \in T
    <2>1. i \in 1 .. Len(u) /\ i \in 1 .. Len(w) /\ u[i] = w[i]
      OBVIOUS
    <2>2. Sum(u, i - 1, impl) = Sum(w, i - 1, impl)
      BY <1>2
    <2>3. Sum(u, i, impl) = Sum(w, i, impl)
      BY <2>1, <2>2, SumStep
    <2> QED
      BY <2>3
  <1>3. k \in T
    <2>1. k \in Nat /\ k \in 0 .. k
      OBVIOUS
    <2> HIDE DEF T
    <2>2. 0 .. k \subseteq T
      BY <1>1, <1>2, <2>1, UpTo
    <2> QED
      BY <2>1, <2>2
  <1> QED
    BY <1>3

\* i groups make a number below the weight of the next.
LEMMA SumBound ==
    ASSUME NEW u \in Seq(Byte), NEW k \in 0 .. Len(u)
    PROVE  Sum(u, k, "python") \in 0 .. 2 ^ (PayloadBits * k) - 1
  <1> DEFINE W(i) == 2 ^ (PayloadBits * i)
             S(i) == Sum(u, i, "python")
             T == {i \in 0 .. k : S(i) < W(i)}
  <1>1. 0 \in T
    <2>1. PayloadBits * 0 = 0 /\ 2 ^ 0 = 1
      BY Widths
    <2>2. W(0) = 1 /\ S(0) = 0
      BY <2>1, SumStep
    <2> HIDE DEF W, S
    <2> QED
      BY <2>2
  <1>2. ASSUME NEW i \in 1 .. k, i - 1 \in T PROVE i \in T
    <2>1. i \in 1 .. Len(u) /\ i - 1 \in 0 .. Len(u) /\ i \in Nat \ {0} /\ i - 1 \in Nat
      OBVIOUS
    <2>2. S(i) = S(i - 1) + Payload(u[i]) * W(i - 1) /\ S(i - 1) \in Nat
      BY <2>1, SumStep DEF Kept
    <2>3. S(i - 1) < W(i - 1)
      BY <1>2
    <2>4. Payload(u[i]) \in 0 .. 2 ^ PayloadBits - 1 /\ 2 ^ PayloadBits \in Nat \ {0}
      <3>1. u[i] \in Byte
        BY <2>1
      <3> QED
        BY <3>1, ByteParts
    <2>5. W(i - 1) \in Nat \ {0} /\ W(i) = W(i - 1) * 2 ^ PayloadBits
      BY <2>1, WeightType, NextWeight
    <2> HIDE DEF W, S
    <2>10. S(i - 1) \in 0 .. W(i - 1) - 1
      BY <2>2, <2>3, <2>5
    <2>6. W(i - 1) * Payload(u[i]) + S(i - 1) \in 0 .. W(i - 1) * 2 ^ PayloadBits - 1
      BY <2>10, <2>4, <2>5, DigitBound
    <2>7. S(i - 1) + Payload(u[i]) * W(i - 1) = W(i - 1) * Payload(u[i]) + S(i - 1)
      BY <2>2, <2>4, <2>5
    <2>8. W(i - 1) * 2 ^ PayloadBits \in Nat
      BY <2>4, <2>5
    <2>9. S(i) < W(i)
      BY <2>2, <2>5, <2>6, <2>7, <2>8
    <2> QED
      BY <2>9
  <1>3. k \in T
    <2>1. k \in Nat /\ k \in 0 .. k
      OBVIOUS
    <2> HIDE DEF T
    <2>2. 0 .. k \subseteq T
      BY <1>1, <1>2, <2>1, UpTo
    <2> QED
      BY <2>1, <2>2
  <1>4. S(k) \in Nat /\ W(k) \in Nat
    <2>1. k \in Nat
      OBVIOUS
    <2> QED
      BY <2>1, SumStep, WeightType
  <1> QED
    BY <1>3, <1>4

\* What Rust keeps of the sum is its low LongBits bits.
LEMMA SumWraps ==
    ASSUME NEW u \in Seq(Byte), NEW k \in 0 .. Len(u)
    PROVE  Sum(u, k, "rust") = Sum(u, k, "python") % 2 ^ LongBits
  <1> DEFINE M == 2 ^ LongBits
             T == {i \in 0 .. k : Sum(u, i, "rust") = Sum(u, i, "python") % M}
  <1>0. M \in Nat \ {0}
    BY Widths, PowerType
  <1> HIDE DEF M
  <1>1. 0 \in T
    <2>1. 0 % M = 0
      BY <1>0
    <2> QED
      BY <2>1, SumStep
  <1>2. ASSUME NEW i \in 1 .. k, i - 1 \in T PROVE i \in T
    <2> DEFINE x == Payload(u[i]) * 2 ^ (PayloadBits * (i - 1))
    <2>1. i \in 1 .. Len(u) /\ i - 1 \in 0 .. Len(u) /\ i - 1 \in Nat
      OBVIOUS
    <2>2. x \in Nat
      <3>1. u[i] \in Byte
        BY <2>1
      <3>2. Payload(u[i]) \in Nat
        BY <3>1, ByteParts
      <3>3. 2 ^ (PayloadBits * (i - 1)) \in Nat
        BY <2>1, WeightType
      <3> QED
        BY <3>2, <3>3
    <2>3. /\ Sum(u, i, "rust") = (Sum(u, i - 1, "rust") + x) % M
          /\ Sum(u, i, "python") = Sum(u, i - 1, "python") + x
          /\ Sum(u, i - 1, "python") \in Nat
      BY <2>1, SumStep DEF Kept, M
    <2>4. Sum(u, i - 1, "rust") = Sum(u, i - 1, "python") % M
      BY <1>2
    <2> HIDE DEF x
    <2>5. Sum(u, i, "rust") = Sum(u, i, "python") % M
      BY <1>0, <2>2, <2>3, <2>4, RemainderOfSum
    <2> QED
      BY <2>5
  <1>3. k \in T
    <2>1. k \in Nat /\ k \in 0 .. k
      OBVIOUS
    <2> HIDE DEF T
    <2>2. 0 .. k \subseteq T
      BY <1>1, <1>2, <2>1, UpTo
    <2> QED
      BY <2>1, <2>2
  <1> QED
    BY <1>3 DEF M

\* Below LongBits bits it keeps them all.
LEMMA SumKept ==
    ASSUME NEW u \in Seq(Byte), NEW k \in 0 .. Len(u), NEW impl \in Impl,
           Sum(u, k, "python") < 2 ^ LongBits
    PROVE  Sum(u, k, impl) = Sum(u, k, "python")
  <1>1. 2 ^ LongBits \in Nat \ {0}
    BY Widths, PowerType
  <1>2. Sum(u, k, "python") \in Nat
    BY SumStep
  <1>3. Sum(u, k, "rust") = Sum(u, k, "python")
    BY <1>1, <1>2, SumWraps, DivIsZero
  <1> QED
    BY <1>3 DEF Impl

-----------------------------------------------------------------------------
(* The groups of a number that is written.                                 *)

\* The bytes a varint may have hold its bits, and one byte less does not hold
\* more than them.
LEMMA LimitHolds ==
    ASSUME NEW bits \in Nat \ {0}
    PROVE  /\ ByteLimit(bits) \in Nat \ {0}
           /\ PayloadBits * ByteLimit(bits) >= bits
           /\ PayloadBits * (ByteLimit(bits) - 1) < bits
  <1> DEFINE p == PayloadBits
             a == bits + p - 1
             q == a \div p
             r == a % p
  <1>1. p \in Nat \ {0}
    BY Widths
  <1> HIDE DEF p
  <1>2. a \in Nat
    BY <1>1
  <1>3. a = p * q + r /\ r \in 0 .. p - 1 /\ q \in Nat
    <2> HIDE DEF a
    <2> QED
      BY <1>1, <1>2, DivMod
  <1>4. ByteLimit(bits) = q
    BY DEF ByteLimit, p
  <1> HIDE DEF q, r
  <1>5. p * q > bits - 1 /\ p * q < bits + p
    BY <1>1, <1>3
  <1>6. q # 0
    BY <1>1, <1>5
  <1>7. p * (q - 1) = p * q - p
    BY <1>1, <1>3
  <1> QED
    BY <1>1, <1>3, <1>4, <1>5, <1>6, <1>7 DEF p

\* A width is reached by no more bytes than a wider one.
LEMMA LimitGrows == ByteLimit(IntBits) <= ByteLimit(LongBits)
  <1> DEFINE a == ByteLimit(IntBits)
             b == ByteLimit(LongBits)
             p == PayloadBits
  <1>1. a \in Nat \ {0} /\ b \in Nat \ {0} /\ p \in Nat \ {0}
    BY Widths, LimitHolds
  <1>2. p * (a - 1) < p * b
    <2>1. p * (a - 1) < IntBits /\ p * b >= LongBits
      BY Widths, LimitHolds
    <2>2. p * (a - 1) \in Int /\ p * b \in Int
      BY <1>1
    <2> HIDE DEF a, b, p
    <2> QED
      BY <2>1, <2>2, Widths
  <1> HIDE DEF a, b, p
  <1>3. a - 1 < b
    <2> SUFFICES ASSUME b <= a - 1 PROVE FALSE
      BY <1>1
    <2>1. p * b <= p * (a - 1)
      BY <1>1
    <2> QED
      BY <1>1, <1>2, <2>1
  <1> QED
    BY <1>1, <1>3 DEF a, b

\* Nothing of a number is above groups that hold its bits.
LEMMA NothingAbove ==
    ASSUME NEW bits \in Nat, NEW v \in 0 .. 2 ^ bits - 1, NEW k \in Nat, PayloadBits * k >= bits
    PROVE  Above(v, k) = 0
  <1>1. PayloadBits * k \in Nat /\ 2 ^ (PayloadBits * k) \in Nat \ {0}
    BY WeightType
  <1>2. 2 ^ bits \in Nat /\ 2 ^ bits <= 2 ^ (PayloadBits * k)
    BY <1>1, PowerGrows, PowerType
  <1>3. v \in Nat /\ v < 2 ^ (PayloadBits * k)
    BY <1>1, <1>2
  <1> QED
    BY <1>1, <1>3, DivIsZero DEF Above

\* The groups that are written: as many as hold the number, no more.
LEMMA GroupsOf ==
    ASSUME NEW v \in 0 .. 2 ^ LongBits - 1
    PROVE  /\ Groups(v) \in 1 .. LongBits
           /\ Above(v, Groups(v)) = 0
           /\ Groups(v) = 1 \/ Above(v, Groups(v) - 1) # 0
  <1> DEFINE S == {k \in 1 .. LongBits : Above(v, k) = 0}
  <1>1. LongBits \in S
    <2>1. PayloadBits * LongBits >= LongBits /\ LongBits \in Nat \ {0}
      BY Widths
    <2>2. Above(v, LongBits) = 0
      BY <2>1, NothingAbove
    <2> QED
      BY <2>1, <2>2
  <1>2. S \in SUBSET Nat
    OBVIOUS
  <1>3. PICK m \in S : \A x \in S : m <= x
    <2> HIDE DEF S
    <2> QED
      BY <1>1, <1>2, LeastNat
  <1>4. m = 1 \/ Above(v, m - 1) # 0
    <2> SUFFICES ASSUME m # 1, Above(v, m - 1) = 0 PROVE FALSE
      OBVIOUS
    <2>1. m - 1 \in S
      BY Widths
    <2> QED
      BY <1>3, <2>1
  <1>5. \E k \in 1 .. LongBits : Above(v, k) = 0 /\ (k = 1 \/ Above(v, k - 1) # 0)
    BY <1>4
  <1> QED
    BY <1>5 DEF Groups

\* They are no more than the bytes the reader takes.
LEMMA GroupsLimit ==
    ASSUME NEW bits \in Nat \ {0}, bits <= LongBits, NEW v \in 0 .. 2 ^ bits - 1
    PROVE  /\ v \in 0 .. 2 ^ LongBits - 1
           /\ Groups(v) \in 1 .. ByteLimit(bits)
  <1>1. v \in 0 .. 2 ^ LongBits - 1
    <2>1. 2 ^ bits <= 2 ^ LongBits /\ 2 ^ bits \in Nat /\ 2 ^ LongBits \in Nat
      BY Widths, PowerGrows, PowerType
    <2> QED
      BY <2>1
  <1>2. /\ Groups(v) \in 1 .. LongBits
        /\ Groups(v) = 1 \/ Above(v, Groups(v) - 1) # 0
    BY <1>1, GroupsOf
  <1>3. ByteLimit(bits) \in Nat \ {0} /\ PayloadBits * ByteLimit(bits) >= bits
    BY LimitHolds
  <1> DEFINE g == Groups(v)
             b == ByteLimit(bits)
             p == PayloadBits
  <1>4. ASSUME g > b PROVE FALSE
    <2>1. g - 1 \in Nat /\ g # 1 /\ g - 1 >= b /\ p \in Nat
      BY <1>2, <1>3, <1>4, Widths
    <2>2. p * (g - 1) >= p * b
      <3> HIDE DEF g, b, p
      <3> QED
        BY <1>3, <2>1 DEF b
    <2>3. p * (g - 1) >= bits
      <3>1. p * (g - 1) \in Nat /\ p * b \in Nat
        BY <2>1, <1>3
      <3> QED
        BY <1>3, <2>2, <3>1
    <2>4. Above(v, g - 1) = 0
      BY <2>1, <2>3, NothingAbove
    <2> QED
      BY <1>2, <2>1, <2>4
  <1> QED
    BY <1>1, <1>2, <1>3, <1>4

\* The bytes that are written: payloads, and a continuation bit on all but the
\* last.
LEMMA GroupBytes ==
    ASSUME NEW v \in 0 .. 2 ^ LongBits - 1
    PROVE  /\ WriteVaruint(v) \in Seq(Byte)
           /\ Len(WriteVaruint(v)) = Groups(v)
           /\ \A i \in 1 .. Groups(v) :
                 /\ Payload(WriteVaruint(v)[i]) = Payload(Above(v, i - 1))
                 /\ More(WriteVaruint(v)[i]) <=> i # Groups(v)
  <1> DEFINE g == Groups(v)
             B == 2 ^ PayloadBits
             w(i) == Payload(Above(v, i - 1)) + (IF i < g THEN B ELSE 0)
  <1>1. g \in 1 .. LongBits /\ g \in Nat
    BY GroupsOf, Widths
  <1>2. B \in Nat \ {0} /\ Byte = 0 .. 2 * B - 1
    BY ByteParts
  <1>3. ASSUME NEW i \in 1 .. g
        PROVE  /\ w(i) \in Byte
               /\ Payload(w(i)) = Payload(Above(v, i - 1))
               /\ More(w(i)) <=> i # g
    <2> DEFINE x == Payload(Above(v, i - 1))
    <2>1. x \in 0 .. B - 1
      <3>1. i - 1 \in Nat /\ v \in Nat
        BY <1>1
      <3>2. 2 ^ (PayloadBits * (i - 1)) \in Nat \ {0}
        BY <3>1, WeightType
      <3>3. Above(v, i - 1) \in Nat
        BY <3>1, <3>2, DivMod DEF Above
      <3> QED
        BY <3>3, ByteParts
    <2> HIDE DEF x, B
    <2>2. CASE i < g
      <3>1. w(i) = B * 1 + x
        BY <1>2, <2>1, <2>2 DEF x
      <3>2. w(i) % B = x
        <4> DEFINE q == 1
        <4>1. q \in Nat
          OBVIOUS
        <4> HIDE DEF q
        <4>2. (B * q + x) % B = x
          BY <1>2, <2>1, <4>1, DivModUnique
        <4>3. w(i) = B * q + x
          BY <1>2, <2>1, <3>1 DEF q
        <4> HIDE DEF w
        <4> QED
          BY <4>2, <4>3
      <3>3. w(i) \in Byte /\ w(i) >= B
        BY <1>2, <2>1, <3>1
      <3> QED
        BY <2>2, <1>1, <3>2, <3>3 DEF More, Payload, B, x
    <2>3. CASE i = g
      <3>1. w(i) = x
        BY <1>1, <1>2, <2>1, <2>3 DEF x
      <3>2. w(i) % B = x
        <4>1. x \in Nat /\ x < B
          BY <1>2, <2>1
        <4>2. x % B = x
          BY <4>1, <1>2, DivIsZero
        <4> QED
          BY <3>1, <4>2
      <3>3. w(i) \in Byte /\ ~(w(i) >= B)
        BY <1>2, <2>1, <3>1
      <3> QED
        BY <2>3, <1>1, <3>2, <3>3 DEF More, Payload, B, x
    <2> QED
      BY <1>1, <2>2, <2>3
  <1>4. WriteVaruint(v) = [i \in 1 .. g |-> w(i)]
    BY DEF WriteVaruint
  <1> HIDE DEF g, B, w
  <1>5. WriteVaruint(v) \in Seq(Byte) /\ Len(WriteVaruint(v)) = g
    BY <1>1, <1>3, <1>4
  <1>6. \A i \in 1 .. g : WriteVaruint(v)[i] = w(i)
    BY <1>4
  <1> QED
    BY <1>3, <1>5, <1>6 DEF g

-----------------------------------------------------------------------------
(* Reading a varint: where the loop ends and how.                          *)

\* u begins with the bytes w.
Begins(u, w) == Len(w) <= Len(u) /\ \A i \in 1 .. Len(w) : u[i] = w[i]

\* The least number of a set that has any.
Least(S) == CHOOSE i \in S : \A j \in S : i <= j

\* There is one, as VaruintWithin and ReadAscii choose it.
LEMMA LeastChosen ==
    ASSUME NEW S \in SUBSET Nat, S # {}
    PROVE  Least(S) \in S /\ \A j \in S : Least(S) <= j
  <1>1. \E i \in S : \A j \in S : i <= j
    BY LeastNat
  <1> QED
    BY <1>1 DEF Least

\* Before a written number ends, the sum is what its groups read so far hold.
LEMMA SumOfGroups ==
    ASSUME NEW v \in 0 .. 2 ^ LongBits - 1, NEW u \in Seq(Byte), NEW impl \in Impl,
           Begins(u, WriteVaruint(v)), NEW k \in 0 .. Groups(v)
    PROVE  /\ Sum(u, k, impl) = v % 2 ^ (PayloadBits * k)
           /\ Sum(u, k, impl) \in 0 .. v
  <1> DEFINE g == Groups(v)
             W(i) == 2 ^ (PayloadBits * i)
             S(i) == Sum(u, i, "python")
             B == 2 ^ PayloadBits
             T == {i \in 0 .. k : S(i) = v % W(i)}
  <1>1. g \in 1 .. LongBits /\ g \in Nat /\ k \in Nat /\ g <= Len(u) /\ v \in Nat
    BY GroupsOf, GroupBytes, Widths DEF Begins
  <1>2. B \in Nat \ {0}
    BY ByteParts
  <1>3. 0 \in T
    <2>1. PayloadBits * 0 = 0 /\ 2 ^ 0 = 1
      BY Widths
    <2>2. W(0) = 1 /\ S(0) = 0
      BY <2>1, SumStep
    <2> HIDE DEF W, S
    <2> QED
      BY <1>1, <2>2
  <1>4. ASSUME NEW i \in 1 .. k, i - 1 \in T PROVE i \in T
    <2>1. i \in 1 .. Len(u) /\ i \in 1 .. g /\ i \in Nat \ {0} /\ i - 1 \in Nat
      BY <1>1
    <2>2. Payload(u[i]) = Above(v, i - 1) % B
      <3>1. u[i] = WriteVaruint(v)[i]
        BY <2>1, GroupBytes DEF Begins
      <3> QED
        BY <2>1, <3>1, GroupBytes DEF Payload
    <2>3. S(i) = S(i - 1) + Payload(u[i]) * W(i - 1)
      BY <2>1, SumStep DEF Kept
    <2>4. W(i - 1) \in Nat \ {0} /\ W(i) = W(i - 1) * B
      BY <2>1, WeightType, NextWeight
    <2>5. Above(v, i - 1) = v \div W(i - 1)
      BY DEF Above
    <2>6. S(i - 1) = v % W(i - 1)
      BY <1>4
    <2> HIDE DEF W, S, B
    <2>7. v % W(i) = W(i - 1) * ((v \div W(i - 1)) % B) + (v % W(i - 1))
      BY <1>1, <1>2, <2>4, TwoDivisions
    <2>8. v \div W(i - 1) \in Nat /\ v % W(i - 1) \in Nat
      BY <1>1, <2>4, DivMod
    <2>9. (v \div W(i - 1)) % B \in Nat
      BY <1>2, <2>8, DivMod
    <2>10. S(i) = v % W(i)
      <3> DEFINE a == (v \div W(i - 1)) % B
                 b == W(i - 1)
                 c == v % W(i - 1)
      <3>1. S(i) = c + a * b /\ v % W(i) = b * a + c
        BY <2>2, <2>3, <2>5, <2>6, <2>7
      <3>2. a \in Nat /\ b \in Nat /\ c \in Nat
        BY <2>4, <2>8, <2>9
      <3> HIDE DEF a, b, c
      <3> QED
        BY <3>1, <3>2
    <2> QED
      BY <2>10
  <1>5. S(k) = v % W(k)
    <2>1. k \in 0 .. k
      BY <1>1
    <2> HIDE DEF T
    <2>2. 0 .. k \subseteq T
      BY <1>1, <1>3, <1>4, UpTo
    <2> QED
      BY <2>1, <2>2 DEF T
  <1>6. v % W(k) \in 0 .. v
    <2> DEFINE q == v \div W(k)
               r == v % W(k)
    <2>1. W(k) \in Nat \ {0}
      BY <1>1, WeightType
    <2> HIDE DEF W
    <2>2. v = W(k) * q + r /\ r \in Nat /\ q \in Nat
      BY <1>1, <2>1, DivMod
    <2> HIDE DEF q, r
    <2>3. W(k) * q \in Nat
      BY <2>1, <2>2
    <2> QED
      BY <1>1, <2>2, <2>3 DEF r
  <1>7. S(k) < 2 ^ LongBits
    <2>1. 2 ^ LongBits \in Nat
      BY Widths, PowerType
    <2> HIDE DEF S, W
    <2> QED
      BY <1>1, <1>5, <1>6, <2>1
  <1>8. Sum(u, k, impl) = S(k)
    <2>1. k \in 0 .. Len(u)
      BY <1>1
    <2> QED
      BY <1>7, <2>1, SumKept
  <1> HIDE DEF S, W
  <1> QED
    BY <1>5, <1>6, <1>8 DEF W

\* A number of the width that was written is read, with the bytes of it.
LEMMA ReadBack ==
    ASSUME NEW bits \in Nat \ {0}, bits <= LongBits, NEW v \in 0 .. 2 ^ bits - 1,
           NEW u \in Seq(Byte), NEW impl \in Impl, Begins(u, WriteVaruint(v))
    PROVE  ReadVaruint(u, bits, impl) = Done(v, Groups(v))
  <1> DEFINE g == Groups(v)
             limit == ByteLimit(bits)
             bound == 2 ^ bits
             stops == {i \in 1 .. limit : Stops(u, i, bound, impl)}
  <1>1. v \in 0 .. 2 ^ LongBits - 1 /\ g \in 1 .. limit /\ limit \in Nat /\ bound \in Nat
    BY GroupsLimit, LimitHolds, PowerType
  <1>2. g <= Len(u) /\ Len(u) \in Nat /\ \A i \in 1 .. g : More(u[i]) <=> i # g
    BY <1>1, GroupBytes DEF Begins
  <1>3. \A i \in 0 .. g : Sum(u, i, impl) \in 0 .. v
    BY <1>1, SumOfGroups
  <1>4. Sum(u, g, impl) = v
    <2>1. Above(v, g) = 0 /\ g \in Nat /\ v \in Nat /\ g \in 0 .. g
      BY <1>1, GroupsOf
    <2>2. 2 ^ (PayloadBits * g) \in Nat \ {0}
      BY <2>1, WeightType
    <2>3. v % 2 ^ (PayloadBits * g) = v
      BY <2>1, <2>2, DivIsZero DEF Above
    <2> QED
      BY <1>1, <2>1, <2>3, SumOfGroups
  <1> HIDE DEF g, limit, bound
  <1>5. v < bound /\ v \in Nat
    BY <1>1 DEF bound
  <1>6. \A i \in 1 .. g : Stops(u, i, bound, impl) <=> i = g
    <2> SUFFICES ASSUME NEW i \in 1 .. g PROVE Stops(u, i, bound, impl) <=> i = g
      OBVIOUS
    <2>1. Sum(u, i, impl) \in 0 .. v
      BY <1>1, <1>3
    <2>2. ~(Sum(u, i, impl) >= bound)
      BY <1>1, <1>5, <2>1
    <2>3. ~(i > Len(u))
      BY <1>1, <1>2
    <2> QED
      BY <1>2, <2>2, <2>3 DEF Stops
  <1>7. g \in stops /\ \A j \in stops : g <= j
    BY <1>1, <1>6
  <1>8. Least(stops) = g
    <2>1. stops \in SUBSET Nat
      OBVIOUS
    <2> HIDE DEF stops
    <2>2. Least(stops) \in stops /\ \A j \in stops : Least(stops) <= j
      BY <1>7, <2>1, LeastChosen
    <2>3. Least(stops) \in Nat /\ g \in Nat
      BY <1>7, <2>1, <2>2
    <2>4. Least(stops) <= g /\ g <= Least(stops)
      BY <1>7, <2>2
    <2> HIDE DEF Least
    <2> QED
      BY <2>3, <2>4
  <1>9. ReadVaruint(u, bits, impl) = VaruintWithin(u, limit, bound, impl)
    BY DEF ReadVaruint, limit, bound
  <1>10. VaruintWithin(u, limit, bound, impl) = Done(Sum(u, g, impl), g)
    <2>1. stops # {} /\ ~(g > Len(u)) /\ ~(Sum(u, g, impl) >= bound)
      BY <1>1, <1>2, <1>4, <1>5, <1>7
    <2>2. VaruintWithin(u, limit, bound, impl) =
              IF stops = {} THEN Failed("long", limit)
              ELSE IF Least(stops) > Len(u) THEN Failed("eof", Len(u))
              ELSE IF Sum(u, Least(stops), impl) >= bound THEN Failed("range", Least(stops))
              ELSE Done(Sum(u, Least(stops), impl), Least(stops))
      BY DEF VaruintWithin, Least
    <2> HIDE DEF stops
    <2> QED
      BY <1>8, <2>1, <2>2
  <1> QED
    BY <1>4, <1>9, <1>10 DEF g

\* The shape of a read.
IsRead(r, u) ==
    /\ r = [err |-> r.err, val |-> r.val, used |-> r.used]
    /\ r.used \in 0 .. Len(u)

\* A read of a number of `bits` bits refuses at a byte that is its fault or
\* ends the data, and else returns what its bytes sum up to.
LEMMA VaruintRead ==
    ASSUME NEW bits \in Nat \ {0}, NEW u \in Seq(Byte), NEW impl \in Impl,
           NEW r, r = ReadVaruint(u, bits, impl)
    PROVE  /\ IsRead(r, u)
           /\ r.err \in {"none", "eof", "range", "long"}
           /\ r.err = "eof" => r.used = Len(u)
           /\ r.err = "none" => r.val = Sum(u, r.used, impl) /\ r.val \in 0 .. 2 ^ bits - 1
           /\ r.err # "eof" => /\ r.used <= ByteLimit(bits)
                               /\ \A i \in 1 .. r.used - 1 : More(u[i])
  <1> DEFINE limit == ByteLimit(bits)
             bound == 2 ^ bits
             stops == {i \in 1 .. limit : Stops(u, i, bound, impl)}
             stop == Least(stops)
  <1>1. limit \in Nat \ {0} /\ bound \in Nat \ {0} /\ Len(u) \in Nat
    BY LimitHolds, PowerType
  <1>2. r = VaruintWithin(u, limit, bound, impl)
    BY DEF ReadVaruint
  <1> HIDE DEF limit, bound
  <1>3. r = IF stops = {} THEN Failed("long", limit)
            ELSE IF stop > Len(u) THEN Failed("eof", Len(u))
            ELSE IF Sum(u, stop, impl) >= bound THEN Failed("range", stop)
            ELSE Done(Sum(u, stop, impl), stop)
    BY <1>2 DEF VaruintWithin, Least
  <1>4. ASSUME NEW i \in 1 .. limit, i \notin stops PROVE i <= Len(u) /\ More(u[i])
    BY <1>1, <1>4 DEF Stops
  <1>5. CASE stops = {}
    <2>1. limit <= Len(u) /\ \A i \in 1 .. limit : More(u[i])
      <3>1. limit \in 1 .. limit /\ \A i \in 1 .. limit : i \notin stops
        BY <1>1, <1>5
      <3> QED
        BY <1>4, <3>1
    <2>2. r = Failed("long", limit)
      BY <1>3, <1>5
    <2> QED
      BY <1>1, <2>1, <2>2 DEF Failed, IsRead, limit
  <1>6. CASE stops # {}
    <2>1. stop \in 1 .. limit /\ \A j \in 1 .. limit : j < stop => j \notin stops
      <3>1. stops \in SUBSET Nat
        BY <1>1
      <3>2. stop \in stops /\ \A j \in stops : stop <= j
        <4> HIDE DEF stops
        <4> QED
          BY <1>6, <3>1, LeastChosen
      <3>3. stop \in 1 .. limit
        BY <3>2
      <3>4. ASSUME NEW j \in 1 .. limit, j < stop, j \in stops PROVE FALSE
        <4>1. stop <= j
          BY <3>2, <3>4
        <4> HIDE DEF stop
        <4> QED
          BY <1>1, <3>3, <3>4, <4>1
      <3> QED
        BY <3>3, <3>4
    <2> HIDE DEF stop
    <2>2. stop \in Nat \ {0} /\ stop <= limit
      BY <1>1, <2>1
    <2>3. \A i \in 1 .. stop - 1 : More(u[i])
      BY <1>1, <1>4, <2>1, <2>2
    <2>4. CASE stop > Len(u)
      <3>1. r = Failed("eof", Len(u))
        BY <1>3, <1>6, <2>4
      <3> QED
        BY <1>1, <3>1 DEF Failed, IsRead
    <2>5. CASE ~(stop > Len(u)) /\ Sum(u, stop, impl) >= bound
      <3>1. r = Failed("range", stop)
        BY <1>3, <1>6, <2>5
      <3> QED
        BY <1>1, <2>2, <2>3, <2>5, <3>1 DEF Failed, IsRead, limit
    <2>6. CASE ~(stop > Len(u)) /\ ~(Sum(u, stop, impl) >= bound)
      <3>1. r = Done(Sum(u, stop, impl), stop)
        BY <1>3, <1>6, <2>6
      <3>2. Sum(u, stop, impl) \in Nat
        <4>1. stop \in 0 .. Len(u)
          BY <1>1, <2>2, <2>6
        <4> QED
          BY <4>1, SumStep
      <3>3. Sum(u, stop, impl) \in 0 .. bound - 1
        BY <1>1, <2>6, <3>2
      <3> QED
        BY <1>1, <2>2, <2>3, <2>6, <3>1, <3>3 DEF Done, IsRead, limit, bound
    <2> QED
      BY <2>4, <2>5, <2>6
  <1> QED
    BY <1>5, <1>6

\* The same of a number with a sign, which is in its range and is what its
\* bytes spell; only in the last byte of a varlong may Rust lose bits.
LEMMA SignedRead ==
    ASSUME NEW bits \in Nat \ {0}, bits <= LongBits, NEW u \in Seq(Byte), NEW impl \in Impl,
           NEW r, r = Signed(ReadVaruint(u, bits, impl), bits)
    PROVE  /\ IsRead(r, u)
           /\ r.err \in {"none", "eof", "range", "long"}
           /\ r.err = "eof" => r.used = Len(u)
           /\ r.err # "eof" => /\ r.used <= ByteLimit(bits)
                               /\ \A i \in 1 .. r.used - 1 : More(u[i])
           /\ r.err = "none" =>
                 /\ r.val \in Int /\ Fits(r.val, bits)
                 /\ \/ ToTwosComplement(r.val, bits) = Sum(u, r.used, "python")
                    \/ impl = "rust" /\ r.used >= ByteLimit(LongBits)
  <1> DEFINE s == ReadVaruint(u, bits, impl)
  <1>1. /\ IsRead(s, u)
        /\ s.err \in {"none", "eof", "range", "long"}
        /\ s.err = "eof" => s.used = Len(u)
        /\ s.err = "none" => s.val = Sum(u, s.used, impl) /\ s.val \in 0 .. 2 ^ bits - 1
        /\ s.err # "eof" => /\ s.used <= ByteLimit(bits)
                            /\ \A i \in 1 .. s.used - 1 : More(u[i])
    BY VaruintRead
  <1>2. r = IF s.err = "none" THEN [s EXCEPT !.val = FromTwosComplement(@, bits)] ELSE s
    BY DEF Signed
  <1> HIDE DEF s
  <1>3. CASE s.err # "none"
    BY <1>1, <1>2, <1>3
  <1>4. CASE s.err = "none"
    <2>1. r = [err |-> s.err, val |-> FromTwosComplement(s.val, bits), used |-> s.used]
      BY <1>1, <1>2, <1>4 DEF IsRead
    <2>2. /\ FromTwosComplement(s.val, bits) \in Int
          /\ Fits(FromTwosComplement(s.val, bits), bits)
          /\ ToTwosComplement(FromTwosComplement(s.val, bits), bits) = Sum(u, s.used, impl)
      BY <1>1, <1>4, FromAndTo
    <2>3. CASE impl = "python"
      BY <1>1, <1>4, <2>1, <2>2, <2>3 DEF IsRead
    <2>4. CASE impl = "rust" /\ s.used < ByteLimit(LongBits)
      <3> DEFINE k == s.used
                 b == ByteLimit(LongBits)
                 p == PayloadBits
      <3>1. k \in 0 .. Len(u) /\ k \in Nat /\ b \in Nat \ {0} /\ k <= b - 1 /\ p \in Nat
        BY <1>1, <2>4, LimitHolds, Widths DEF IsRead
      <3>2. p * k <= p * (b - 1)
        <4> HIDE DEF k, b, p
        <4> QED
          BY <3>1
      <3>3. p * k <= LongBits /\ p * k \in Nat /\ LongBits \in Nat
        <4>1. p * (b - 1) < LongBits
          BY LimitHolds, Widths
        <4>2. p * (b - 1) \in Int /\ p * k \in Nat
          <5> HIDE DEF k, b, p
          <5> QED
            BY <3>1
        <4> QED
          BY <3>2, <4>1, <4>2, Widths
      <3>4. 2 ^ (p * k) <= 2 ^ LongBits /\ 2 ^ (p * k) \in Nat /\ 2 ^ LongBits \in Nat
        BY <3>3, PowerGrows, PowerType
      <3>5. Sum(u, k, "python") \in 0 .. 2 ^ (p * k) - 1
        BY <3>1, SumBound
      <3>6. Sum(u, k, "python") < 2 ^ LongBits
        <4> HIDE DEF k, p
        <4> QED
          BY <3>4, <3>5
      <3>7. Sum(u, k, impl) = Sum(u, k, "python")
        BY <3>1, <3>6, SumKept
      <3> QED
        BY <1>1, <1>4, <2>1, <2>2, <3>7 DEF IsRead
    <2>5. CASE impl = "rust" /\ ~(s.used < ByteLimit(LongBits))
      <3>1. s.used >= ByteLimit(LongBits)
        BY <1>1, <2>5, LimitHolds, Widths DEF IsRead
      <3> QED
        BY <1>1, <1>4, <2>1, <2>2, <2>5, <3>1 DEF IsRead
    <2> QED
      BY <2>3, <2>4, <2>5 DEF Impl
  <1> QED
    BY <1>3, <1>4

\* A number with a sign is read back.
LEMMA SignedReadBack ==
    ASSUME NEW bits \in Nat \ {0}, bits <= LongBits, NEW n \in Int, Fits(n, bits),
           NEW u \in Seq(Byte), NEW impl \in Impl,
           Begins(u, WriteVaruint(ToTwosComplement(n, bits)))
    PROVE  /\ WriteVaruint(ToTwosComplement(n, bits)) \in Seq(Byte)
           /\ Signed(ReadVaruint(u, bits, impl), bits) =
                  Done(n, Len(WriteVaruint(ToTwosComplement(n, bits))))
  <1> DEFINE v == ToTwosComplement(n, bits)
  <1>1. v \in 0 .. 2 ^ bits - 1 /\ FromTwosComplement(v, bits) = n
    BY ToAndFrom
  <1> HIDE DEF v
  <1>2. v \in 0 .. 2 ^ LongBits - 1
    BY <1>1, GroupsLimit
  <1>3. ReadVaruint(u, bits, impl) = Done(v, Groups(v))
    BY <1>1, ReadBack DEF v
  <1>4. Signed(Done(v, Groups(v)), bits) = Done(n, Groups(v))
    BY <1>1 DEF Signed, Done
  <1>5. WriteVaruint(v) \in Seq(Byte) /\ Len(WriteVaruint(v)) = Groups(v)
    BY <1>2, GroupBytes
  <1> QED
    BY <1>3, <1>4, <1>5 DEF v

-----------------------------------------------------------------------------
(* Numbers of a fixed size.                                                *)

\* A byte is a digit.
LEMMA Digits ==
    /\ 2 ^ ByteBits \in Nat \ {0}
    /\ Byte = 0 .. 2 ^ ByteBits - 1
    /\ Byte \subseteq Nat
    /\ {0, 1} \subseteq Byte
  <1>1. 2 ^ ByteBits \in Nat \ {0}
    BY Widths, PowerType
  <1>2. Byte = 0 .. 2 ^ ByteBits - 1
    BY DEF Byte, ByteBits
  <1>3. 1 \in Byte
    <2>1. 2 ^ PayloadBits \in Nat \ {0} /\ Byte = 0 .. 2 * 2 ^ PayloadBits - 1
      BY ByteParts
    <2> QED
      BY <2>1
  <1>4. Byte \subseteq Nat /\ 0 \in Byte
    BY <1>1, <1>2
  <1> QED
    BY <1>1, <1>2, <1>3, <1>4

\* What bytes spell is built from the first to the last.
Spells(f, b) ==
    /\ f \in [0 .. Len(b) -> Nat]
    /\ f[0] = 0
    /\ \A i \in 1 .. Len(b) : f[i] = f[i - 1] * 2 ^ ByteBits + b[i]
    /\ Spelled(b) = f[Len(b)]

\* There is one, and its last value is the number Unpacked takes.
LEMMA SpelledSteps ==
    ASSUME NEW b \in Seq(Byte)
    PROVE  \E f : Spells(f, b)
  <1> DEFINE n == Len(b)
             D == 2 ^ ByteBits
             Added(i, v) == v * D + b[i]
             step == [x \in (1 .. n) \X Nat |-> Added(x[1], x[2])]
             Is(f) == f = [i \in 0 .. n |-> IF i = 0 THEN 0 ELSE f[i - 1] * 2 ^ ByteBits + b[i]]
  <1>1. n \in Nat /\ D \in Nat
    BY Digits
  <1>2. ASSUME NEW i \in 1 .. n, NEW v \in Nat PROVE Added(i, v) \in Nat
    <2>1. b[i] \in Nat
      <3>1. b[i] \in Byte
        OBVIOUS
      <3> QED
        BY <3>1, Digits
    <2> HIDE DEF D
    <2> QED
      BY <1>1, <2>1
  <1> HIDE DEF Added, D
  <1>3. step \in Steps(n, Nat)
    BY <1>2 DEF Steps
  <1>4. PICK f : IsRun(f, n, Nat, 0, step)
    <2>1. 0 \in Nat
      OBVIOUS
    <2> HIDE DEF n, step
    <2> QED
      BY <1>1, <1>3, <2>1, Recursion
  <1>5. f \in [0 .. n -> Nat] /\ f[0] = 0
    BY <1>4 DEF IsRun
  <1>6. ASSUME NEW i \in 1 .. n PROVE f[i] = Added(i, f[i - 1])
    <2>1. i - 1 \in 0 .. n
      OBVIOUS
    <2>2. <<i, f[i - 1]>> \in (1 .. n) \X Nat
      BY <1>5, <2>1
    <2>3. f[i] = step[<<i, f[i - 1]>>]
      BY <1>4 DEF IsRun
    <2> QED
      BY <2>2, <2>3
  <1>7. Is(f)
    <2>1. f = [i \in 0 .. n |-> f[i]]
      BY <1>5
    <2>2. \A i \in 0 .. n : f[i] = IF i = 0 THEN 0 ELSE f[i - 1] * 2 ^ ByteBits + b[i]
      BY <1>5, <1>6 DEF Added, D
    <2> QED
      BY <2>1, <2>2
  <1> DEFINE g == CHOOSE x : Is(x)
  <1>8. Is(g)
    <2> HIDE DEF Is
    <2> QED
      BY <1>7
  <1>9. Spelled(b) = g[n]
    BY DEF Spelled
  <1> HIDE DEF g
  <1>10. g[0] = 0 /\ \A i \in 1 .. n : g[i] = Added(i, g[i - 1])
    BY <1>1, <1>8 DEF Added, D
  <1>11. \A i \in 0 .. n : g[i] \in Nat
    <2> DEFINE T == {i \in 0 .. n : g[i] \in Nat}
    <2>1. 0 \in T
      BY <1>10
    <2>2. \A i \in 1 .. n : i - 1 \in T => i \in T
      <3> SUFFICES ASSUME NEW i \in 1 .. n, i - 1 \in T PROVE i \in T
        OBVIOUS
      <3>1. g[i - 1] \in Nat
        OBVIOUS
      <3>2. g[i] \in Nat
        BY <3>1, <1>2, <1>10
      <3> QED
        BY <3>2
    <2> HIDE DEF T, n
    <2>3. 0 .. n \subseteq T
      BY <1>1, <2>1, <2>2, UpTo
    <2> QED
      BY <2>3 DEF T
  <1>12. g \in [0 .. n -> Nat]
    <2>1. g = [i \in 0 .. n |-> g[i]]
      BY <1>8
    <2> QED
      BY <1>11, <2>1
  <1>13. Spells(g, b)
    BY <1>9, <1>10, <1>12 DEF Spells, Added, D
  <1> QED
    BY <1>13

\* The weight of the next digit.
LEMMA NextDigit ==
    ASSUME NEW j \in Nat
    PROVE  /\ ByteBits * j \in Nat /\ 2 ^ (ByteBits * j) \in Nat \ {0}
           /\ 2 ^ (ByteBits * (j + 1)) = 2 ^ (ByteBits * j) * 2 ^ ByteBits
  <1>1. ByteBits \in Nat /\ ByteBits * j \in Nat
    BY Widths
  <1>2. ByteBits * (j + 1) = ByteBits * j + ByteBits
    BY <1>1
  <1> QED
    BY <1>1, <1>2, PowerOfSum, PowerType

\* A number written in bytes is spelled by them.
LEMMA SpelledBack ==
    ASSUME NEW size \in Nat, NEW v \in 0 .. 2 ^ (ByteBits * size) - 1
    PROVE  /\ BigEndian(v, size) \in Seq(Byte)
           /\ Len(BigEndian(v, size)) = size
           /\ Spelled(BigEndian(v, size)) = v
  <1> DEFINE b == BigEndian(v, size)
             D == 2 ^ ByteBits
             P(j) == 2 ^ (ByteBits * j)
  <1>1. D \in Nat \ {0} /\ Byte = 0 .. D - 1 /\ v \in Nat
    <2>1. P(size) \in Nat
      BY NextDigit
    <2> QED
      BY Digits
  <1>2. \A j \in Nat : P(j) \in Nat \ {0} /\ P(j + 1) = P(j) * D
    BY NextDigit
  <1>3. b = [i \in 1 .. size |-> (v \div P(size - i)) % D]
    BY DEF BigEndian
  <1>4. v < P(size) /\ P(0) = 1
    <2>1. ByteBits * 0 = 0 /\ 2 ^ 0 = 1
      BY Widths
    <2>2. P(size) \in Nat /\ v \in 0 .. P(size) - 1
      BY NextDigit
    <2>3. P(0) = 1
      BY <2>1
    <2> HIDE DEF P
    <2> QED
      BY <2>2, <2>3
  <1> HIDE DEF b, D, P
  <1>5. \A j \in Nat : v \div P(j) \in Nat
    BY <1>1, <1>2, DivMod
  <1>6. b \in Seq(Byte) /\ Len(b) = size
    <2>1. \A i \in 1 .. size : (v \div P(size - i)) % D \in Byte
      <3> SUFFICES ASSUME NEW i \in 1 .. size PROVE (v \div P(size - i)) % D \in Byte
        OBVIOUS
      <3>1. size - i \in Nat
        OBVIOUS
      <3>2. v \div P(size - i) \in Nat
        BY <1>5, <3>1
      <3> QED
        BY <1>1, <3>2, DivMod
    <2> QED
      BY <1>3, <2>1
  <1>7. PICK f : Spells(f, b)
    BY <1>6, SpelledSteps
  <1> DEFINE T == {i \in 0 .. size : f[i] = v \div P(size - i)}
  <1>8. 0 \in T
    <2>1. v \div P(size) = 0
      BY <1>1, <1>2, <1>4, DivIsZero
    <2>2. f[0] = 0 /\ size - 0 = size
      BY <1>7 DEF Spells
    <2> QED
      BY <2>1, <2>2
  <1>9. ASSUME NEW i \in 1 .. size, i - 1 \in T PROVE i \in T
    <2> DEFINE j == size - i
               a == v \div P(j)
    <2>1. j \in Nat /\ size - (i - 1) = j + 1 /\ i \in 1 .. Len(b)
      BY <1>6
    <2>2. f[i - 1] = v \div P(j + 1)
      BY <1>9, <2>1
    <2>3. f[i] = f[i - 1] * D + b[i]
      BY <1>7, <2>1 DEF Spells, D
    <2>4. b[i] = a % D
      BY <1>3
    <2> HIDE DEF j
    <2>5. a \in Nat /\ P(j) \in Nat \ {0} /\ P(j + 1) = P(j) * D
      BY <1>2, <1>5, <2>1
    <2>6. v \div P(j + 1) = a \div D
      <3> HIDE DEF a
      <3>1. v \div P(j + 1) = (v \div P(j)) \div D
        BY <1>1, <2>5, DividedAgain
      <3> QED
        BY <3>1 DEF a
    <2> HIDE DEF a
    <2>7. a = D * (a \div D) + (a % D) /\ a \div D \in Nat /\ a % D \in Nat
      BY <1>1, <2>5, DivMod
    <2>8. f[i] = a
      <3> DEFINE q == a \div D
                 r == a % D
      <3>1. a = D * q + r /\ q \in Nat /\ r \in Nat /\ f[i] = q * D + r
        BY <2>2, <2>3, <2>4, <2>6, <2>7
      <3> HIDE DEF q, r
      <3> QED
        BY <1>1, <3>1
    <2> QED
      BY <2>8 DEF a, j
  <1>10. f[size] = v
    <2>1. size \in 0 .. size /\ size - size = 0
      OBVIOUS
    <2> HIDE DEF T
    <2>2. 0 .. size \subseteq T
      BY <1>8, <1>9, UpTo
    <2>3. f[size] = v \div 1
      BY <1>4, <2>1, <2>2 DEF T
    <2> QED
      BY <1>1, <2>3
  <1>11. Spelled(b) = v
    BY <1>6, <1>7, <1>10 DEF Spells
  <1> QED
    BY <1>6, <1>11 DEF b

\* Bytes are what is written for the number they spell.
LEMMA WrittenBack ==
    ASSUME NEW b \in Seq(Byte)
    PROVE  /\ Spelled(b) \in 0 .. 2 ^ (ByteBits * Len(b)) - 1
           /\ BigEndian(Spelled(b), Len(b)) = b
  <1> DEFINE n == Len(b)
             D == 2 ^ ByteBits
             P(j) == 2 ^ (ByteBits * j)
  <1>1. D \in Nat \ {0} /\ Byte = 0 .. D - 1 /\ n \in Nat
    BY Digits
  <1>2. \A j \in Nat : P(j) \in Nat \ {0} /\ P(j + 1) = P(j) * D
    BY NextDigit
  <1>3. P(0) = 1
    <2>1. ByteBits * 0 = 0 /\ 2 ^ 0 = 1
      BY Widths
    <2> QED
      BY <2>1
  <1>4. PICK f : Spells(f, b)
    BY SpelledSteps
  <1>5. /\ f \in [0 .. n -> Nat] /\ f[0] = 0 /\ Spelled(b) = f[n]
        /\ \A i \in 1 .. n : f[i] = f[i - 1] * D + b[i] /\ b[i] \in 0 .. D - 1
    BY <1>1, <1>4 DEF Spells
  <1> DEFINE v == f[n]
             T == {j \in 0 .. n : v \div P(j) = f[n - j]}
             U == {i \in 0 .. n : f[i] < P(i)}
  <1>6. v \in Nat
    BY <1>1, <1>5
  <1>7. BigEndian(v, n) = [i \in 1 .. n |-> (v \div P(n - i)) % D]
    BY DEF BigEndian
  <1> HIDE DEF n, D, P
  <1>8. ASSUME NEW i \in 1 .. n
        PROVE  f[i - 1] \in Nat /\ f[i] \div D = f[i - 1] /\ f[i] % D = b[i]
    <2>1. f[i - 1] \in Nat
      BY <1>1, <1>5
    <2>2. f[i] = D * f[i - 1] + b[i] /\ b[i] \in 0 .. D - 1
      <3>1. f[i] = f[i - 1] * D + b[i] /\ b[i] \in 0 .. D - 1
        BY <1>5
      <3> QED
        BY <1>1, <2>1, <3>1
    <2>3. (D * f[i - 1] + b[i]) \div D = f[i - 1] /\ (D * f[i - 1] + b[i]) % D = b[i]
      BY <1>1, <2>1, <2>2, DivModUnique
    <2> QED
      BY <2>1, <2>2, <2>3
  <1>9. 0 .. n \subseteq T
    <2>1. 0 \in T
      <3>1. v \div 1 = v
        BY <1>6
      <3>2. n - 0 = n /\ 0 \in 0 .. n
        BY <1>1
      <3> QED
        BY <1>3, <3>1, <3>2
    <2>2. ASSUME NEW j \in 1 .. n, j - 1 \in T PROVE j \in T
      <3>1. j - 1 \in Nat /\ (j - 1) + 1 = j /\ n - (j - 1) \in 1 .. n /\ (n - (j - 1)) - 1 = n - j
        BY <1>1
      <3>2. v \div P(j - 1) = f[n - (j - 1)]
        BY <2>2
      <3>3. P(j - 1) \in Nat \ {0} /\ P(j) = P(j - 1) * D
        BY <1>2, <3>1
      <3> HIDE DEF v
      <3>4. v \div P(j) = (v \div P(j - 1)) \div D
        <4> DEFINE c == P(j - 1)
                   d == P(j)
        <4>1. c \in Nat \ {0} /\ d = c * D
          BY <3>3
        <4> HIDE DEF c, d
        <4>2. (v \div c) \div D = v \div d
          BY <1>1, <1>6, <4>1, DividedAgain
        <4> QED
          BY <4>2 DEF c, d
      <3>5. f[n - (j - 1)] \div D = f[n - j]
        BY <1>8, <3>1
      <3> QED
        BY <3>2, <3>4, <3>5
    <2> HIDE DEF T
    <2> QED
      BY <1>1, <2>1, <2>2, UpTo
  <1>10. 0 .. n \subseteq U
    <2>1. 0 \in U
      BY <1>1, <1>3, <1>5
    <2>2. ASSUME NEW i \in 1 .. n, i - 1 \in U PROVE i \in U
      <3> DEFINE x == f[i - 1]
                 c == P(i - 1)
      <3>1. i - 1 \in Nat /\ (i - 1) + 1 = i
        BY <1>1
      <3>2. x \in Nat /\ c \in Nat \ {0} /\ x < c /\ P(i) = c * D
        BY <1>2, <1>8, <2>2, <3>1
      <3>3. f[i] = x * D + b[i] /\ b[i] \in 0 .. D - 1
        BY <1>5
      <3> HIDE DEF x, c
      <3>4. x \in 0 .. c - 1
        BY <3>2
      <3>5. D * x + b[i] \in 0 .. D * c - 1
        BY <1>1, <3>2, <3>3, <3>4, DigitBound
      <3>6. f[i] < P(i)
        <4>1. D * x + b[i] = x * D + b[i] /\ D * c = c * D /\ c * D \in Nat
          BY <1>1, <3>2, <3>3
        <4> QED
          BY <1>1, <3>2, <3>3, <3>5, <4>1
      <3> QED
        BY <3>6
    <2> HIDE DEF U
    <2> QED
      BY <1>1, <2>1, <2>2, UpTo
  <1>11. v \in 0 .. P(n) - 1
    <2>1. n \in 0 .. n /\ P(n) \in Nat
      <3>1. n \in Nat
        BY <1>1
      <3>2. P(n) \in Nat \ {0}
        BY <1>2, <3>1
      <3> QED
        BY <3>1, <3>2
    <2>2. v < P(n)
      BY <1>10, <2>1
    <2> HIDE DEF v
    <2> QED
      BY <1>6, <2>1, <2>2
  <1>12. BigEndian(v, n) = b
    <2>1. b = [i \in 1 .. n |-> b[i]]
      BY DEF n
    <2>2. \A i \in 1 .. n : (v \div P(n - i)) % D = b[i]
      <3> SUFFICES ASSUME NEW i \in 1 .. n PROVE (v \div P(n - i)) % D = b[i]
        OBVIOUS
      <3>1. n - i \in 0 .. n /\ n - (n - i) = i
        BY <1>1
      <3>2. v \div P(n - i) = f[i]
        BY <1>9, <3>1
      <3> QED
        BY <1>8, <3>2
    <2> QED
      BY <1>7, <2>1, <2>2
  <1> QED
    BY <1>5, <1>11, <1>12 DEF n, P

\* The sizes are those of a number of some bits.
LEMMA Sizes ==
    /\ \A fmt \in Formats, impl \in Impl :
          PackedSize(fmt, impl) \in Nat \ {0} /\ AskedSize(fmt) \in Nat \ {0}
    /\ \A size \in Nat \ {0} :
          size * ByteBits \in Nat \ {0} /\ 2 ^ (size * ByteBits) = 2 ^ (ByteBits * size)
  <1>1. \A fmt \in Formats, impl \in Impl :
           PackedSize(fmt, impl) \in Nat \ {0} /\ AskedSize(fmt) \in Nat \ {0}
    BY SizeAssumption DEF PackedSize, AskedSize
  <1>2. ASSUME NEW size \in Nat \ {0}
        PROVE  size * ByteBits \in Nat \ {0} /\ size * ByteBits = ByteBits * size
    BY Widths
  <1> QED
    BY <1>1, <1>2

\* The first bytes of those that begin with w are w.
LEMMA FirstBytes ==
    ASSUME NEW u \in Seq(Byte), NEW w \in Seq(Byte), Begins(u, w)
    PROVE  SubSeq(u, 1, Len(w)) = w
  <1> DEFINE s == SubSeq(u, 1, Len(w))
  <1>1. Len(w) \in Nat /\ Len(u) \in Nat /\ Len(w) <= Len(u) /\ \A i \in 1 .. Len(w) : u[i] = w[i]
    BY DEF Begins
  <1>2. s \in Seq(Byte) /\ Len(s) = Len(w) /\ \A i \in 1 .. Len(w) : s[i] = u[i]
    BY <1>1
  <1> HIDE DEF s
  <1>3. Len(s) = Len(w) /\ \A i \in 1 .. Len(s) : s[i] = w[i]
    BY <1>1, <1>2
  <1>4. s = w
    BY <1>2, <1>3, SeqEqual
  <1> QED
    BY <1>4 DEF s

\* Taking bytes.
LEMMA TakeRead ==
    ASSUME NEW u \in Seq(Byte), NEW n \in Nat, NEW r, r = Take(u, n)
    PROVE  /\ IsRead(r, u)
           /\ r.err \in {"none", "eof"}
           /\ r.err = "eof" => r.used = Len(u)
           /\ r.err = "none" => r.used = n /\ r.val = SubSeq(u, 1, n) /\ n <= Len(u)
           /\ n <= Len(u) => r.err = "none"
  <1>1. Len(u) \in Nat
    OBVIOUS
  <1>2. CASE n > Len(u)
    <2>1. r = [err |-> "eof", val |-> None, used |-> Len(u)]
      BY <1>2 DEF Take, Failed
    <2> QED
      BY <1>1, <1>2, <2>1 DEF IsRead
  <1>3. CASE ~(n > Len(u))
    <2>1. r = [err |-> "none", val |-> SubSeq(u, 1, n), used |-> n]
      BY <1>3 DEF Take, Done
    <2> QED
      BY <1>1, <1>3, <2>1 DEF IsRead
  <1> QED
    BY <1>2, <1>3

\* A read of a fixed size takes the bytes of its format, and the number it
\* returns is of the format and is written as those bytes.
LEMMA ValueRead ==
    ASSUME NEW u \in Seq(Byte), NEW fmt \in Formats, NEW impl \in Impl,
           NEW r, r = ReadValue(u, fmt, impl)
    PROVE  /\ IsRead(r, u)
           /\ r.err \in {"none", "eof", "size"}
           /\ r.err = "eof" => r.used = Len(u)
           /\ r.err = "none" =>
                 /\ InFormat(r.val, fmt, r.used)
                 /\ WriteValue(r.val, fmt, impl) = SubSeq(u, 1, r.used)
  <1> DEFINE t == Take(u, AskedSize(fmt))
             n == AskedSize(fmt)
             size == PackedSize(fmt, impl)
  <1>1. n \in Nat \ {0} /\ size \in Nat \ {0}
    BY Sizes
  <1>2. /\ IsRead(t, u)
        /\ t.err \in {"none", "eof"}
        /\ t.err = "eof" => t.used = Len(u)
        /\ t.err = "none" => t.used = n /\ t.val = SubSeq(u, 1, n) /\ n <= Len(u)
    BY <1>1, TakeRead
  <1>3. r = IF t.err # "none" THEN t
            ELSE IF t.used # size THEN Failed("size", t.used)
            ELSE [t EXCEPT !.val = Unpacked(@, fmt)]
    BY DEF ReadValue
  <1> HIDE DEF t, n, size
  <1>4. CASE t.err # "none"
    BY <1>2, <1>3, <1>4
  <1>5. CASE t.err = "none" /\ t.used # size
    BY <1>2, <1>3, <1>5 DEF Failed, IsRead
  <1>6. CASE t.err = "none" /\ t.used = size
    <2> DEFINE b == SubSeq(u, 1, n)
    <2>1. b \in Seq(Byte) /\ Len(b) = n /\ t.val = b /\ n = size /\ t.used = n
      BY <1>1, <1>2, <1>6
    <2> HIDE DEF b
    <2>2. r = [err |-> "none", val |-> Unpacked(b, fmt), used |-> n]
      BY <1>2, <1>3, <1>6, <2>1 DEF IsRead
    <2> DEFINE bits == n * ByteBits
               v == Spelled(b)
    <2>3. bits \in Nat \ {0} /\ 2 ^ bits = 2 ^ (ByteBits * n)
      BY <1>1, Sizes
    <2>4. v \in 0 .. 2 ^ bits - 1 /\ BigEndian(v, n) = b
      BY <2>1, <2>3, WrittenBack
    <2>5. Unpacked(b, fmt) = IF fmt = "ushort" THEN v ELSE FromTwosComplement(v, bits)
      BY <2>1 DEF Unpacked
    <2>6. \A m : InFormat(m, fmt, n) <=>
                     IF fmt = "ushort" THEN 0 <= m /\ m < 2 ^ bits ELSE Fits(m, bits)
      BY DEF InFormat
    <2>7. \A m : WriteValue(m, fmt, impl) = BigEndian(ToTwosComplement(m, bits), n)
      BY <2>1 DEF WriteValue, size
    <2> HIDE DEF bits, v
    <2>8. 2 ^ bits \in Nat \ {0}
      BY <2>3, PowerType
    <2>9. CASE fmt = "ushort"
      <3>1. v \in Nat /\ 0 <= v /\ v < 2 ^ bits
        BY <2>4, <2>8
      <3>2. ToTwosComplement(v, bits) = v
        BY <3>1 DEF ToTwosComplement
      <3>3. InFormat(v, fmt, n) /\ WriteValue(v, fmt, impl) = b
        BY <2>4, <2>6, <2>7, <2>9, <3>1, <3>2
      <3> QED
        BY <1>2, <1>6, <2>1, <2>2, <2>5, <2>9, <3>3 DEF b, IsRead
    <2>10. CASE fmt # "ushort"
      <3> DEFINE m == FromTwosComplement(v, bits)
      <3>1. Fits(m, bits) /\ ToTwosComplement(m, bits) = v
        BY <2>3, <2>4, FromAndTo
      <3> HIDE DEF m
      <3>2. InFormat(m, fmt, n) /\ WriteValue(m, fmt, impl) = b
        BY <2>4, <2>6, <2>7, <2>10, <3>1
      <3>3. r = [err |-> "none", val |-> m, used |-> n]
        BY <2>2, <2>5, <2>10 DEF m
      <3> QED
        BY <1>2, <1>6, <2>1, <3>2, <3>3 DEF b, IsRead
    <2> QED
      BY <2>9, <2>10
  <1> QED
    BY <1>4, <1>5, <1>6

\* A number of a fixed size is read back by a reader that has its size.
LEMMA ValueBack ==
    ASSUME NEW n \in Int, NEW fmt \in Formats, NEW writer \in Impl, NEW impl \in Impl,
           InFormat(n, fmt, PackedSize(fmt, writer)),
           fmt = "long" => NativeLong = StandardLong \/ (writer = "rust" /\ impl = "rust"),
           NEW u \in Seq(Byte), Begins(u, WriteValue(n, fmt, writer))
    PROVE  ReadValue(u, fmt, impl) = Done(n, Len(WriteValue(n, fmt, writer)))
  <1> DEFINE size == PackedSize(fmt, writer)
             bits == size * ByteBits
             v == ToTwosComplement(n, bits)
             w == WriteValue(n, fmt, writer)
  <1>1. size \in Nat \ {0} /\ AskedSize(fmt) = size /\ PackedSize(fmt, impl) = size
    <2>1. size \in Nat \ {0}
      BY Sizes
    <2> QED
      BY <2>1 DEF PackedSize, AskedSize, Formats, Impl
  <1>2. bits \in Nat \ {0} /\ 2 ^ bits = 2 ^ (ByteBits * size) /\ 2 ^ bits \in Nat \ {0}
    BY <1>1, Sizes, PowerType
  <1>3. w = BigEndian(v, size)
    BY DEF WriteValue
  <1>4. IF fmt = "ushort" THEN 0 <= n /\ n < 2 ^ bits ELSE Fits(n, bits)
    BY DEF InFormat
  <1> HIDE DEF size, bits
  <1>5. v \in 0 .. 2 ^ bits - 1 /\ (fmt = "ushort" => v = n)
        /\ (fmt # "ushort" => FromTwosComplement(v, bits) = n)
    <2>1. CASE fmt = "ushort"
      BY <1>2, <1>4, <2>1 DEF ToTwosComplement
    <2>2. CASE fmt # "ushort"
      BY <1>2, <1>4, <2>2, ToAndFrom
    <2> QED
      BY <2>1, <2>2
  <1> HIDE DEF v
  <1>6. w \in Seq(Byte) /\ Len(w) = size /\ Spelled(w) = v
    BY <1>1, <1>2, <1>3, <1>5, SpelledBack
  <1>7. Begins(u, w)
    OBVIOUS
  <1> HIDE DEF w
  <1>8. Unpacked(w, fmt) = n
    BY <1>5, <1>6 DEF Unpacked, bits
  <1>9. size <= Len(u) /\ SubSeq(u, 1, size) = w
    BY <1>6, <1>7, FirstBytes DEF Begins
  <1>10. Take(u, size) = Done(w, size)
    <2>1. ~(size > Len(u))
      BY <1>1, <1>9
    <2> QED
      BY <1>9, <2>1 DEF Take
  <1>11. ReadValue(u, fmt, impl) = Done(n, size)
    BY <1>1, <1>8, <1>10 DEF ReadValue, Done
  <1> QED
    BY <1>6, <1>11 DEF w

-----------------------------------------------------------------------------
(* Texts and byte strings.                                                 *)

\* A text has no more characters than bytes, and at least one for every two.
LEMMA CharsBound ==
    ASSUME NEW s \in Seq(Byte)
    PROVE  /\ Chars(s) \in Nat /\ Chars(s) <= Len(s)
           /\ WellFormed(s) => Len(s) <= 2 * Chars(s)
  <1> DEFINE A == {i \in DOMAIN s : s[i] \notin Cont}
             C == {i \in DOMAIN s : s[i] \in Cont}
  <1>1. DOMAIN s = 1 .. Len(s) /\ Len(s) \in Nat
    OBVIOUS
  <1>2. IsFiniteSet(DOMAIN s) /\ Cardinality(DOMAIN s) = Len(s)
    BY <1>1, CountTo
  <1>3. IsFiniteSet(A) /\ IsFiniteSet(C) /\ A \cup C = DOMAIN s /\ A \cap C = {}
    BY <1>2, FS_Subset
  <1>4. Cardinality(A) \in Nat /\ Cardinality(C) \in Nat /\ Cardinality(A) = Chars(s)
    BY <1>3, FS_CardinalityType DEF Chars
  <1>5. Len(s) = Cardinality(A) + Cardinality(C)
    <2> HIDE DEF A, C
    <2>1. Cardinality(A \cup C) = Cardinality(A) + Cardinality(C) - Cardinality(A \cap C)
      BY <1>3, FS_Union
    <2>2. Cardinality(A \cap C) = 0
      BY <1>3, FS_EmptySet
    <2> QED
      BY <1>2, <1>3, <1>4, <2>1, <2>2
  <1>6. ASSUME WellFormed(s) PROVE Cardinality(C) <= Cardinality(A)
    <2> DEFINE f == [i \in C |-> i - 1]
    <2>1. ASSUME NEW i \in C PROVE i - 1 \in A
      <3>1. i # 1 /\ i \in 1 .. Len(s)
        BY <1>1, <1>6 DEF WellFormed
      <3>2. i - 1 \in DOMAIN s /\ (i - 1) + 1 = i
        BY <1>1, <3>1
      <3>3. s[i - 1] \in Lead
        BY <1>6, <3>2 DEF WellFormed
      <3> QED
        BY <3>2, <3>3, TextAssumption
    <2>2. f \in [C -> A]
      BY <2>1
    <2>3. \A i \in C, j \in C : f[i] = f[j] => i = j
      BY <1>1
    <2> HIDE DEF f, A, C
    <2>4. f \in Injection(C, A)
      BY <2>2, <2>3 DEF Injection, IsInjective
    <2> QED
      BY <1>3, <2>4, FS_Injection DEF ExistsInjection
  <1> HIDE DEF A, C
  <1>7. WellFormed(s) => Len(s) <= 2 * Chars(s)
    BY <1>4, <1>5, <1>6
  <1> QED
    BY <1>4, <1>5, <1>7

\* What begins with two byte strings in a row: the first, and behind it the
\* second.
LEMMA TwoParts ==
    ASSUME NEW u \in Seq(Byte), NEW v \in Seq(Byte), NEW s \in Seq(Byte),
           NEW w, w = v \o s, Begins(u, w)
    PROVE  /\ w \in Seq(Byte) /\ Len(w) = Len(v) + Len(s)
           /\ Begins(u, v)
           /\ SubSeq(u, Len(v) + 1, Len(u)) \in Seq(Byte)
           /\ Begins(SubSeq(u, Len(v) + 1, Len(u)), s)
  <1> DEFINE a == Len(v)
             b == Len(s)
             n == Len(u)
             t == SubSeq(u, a + 1, n)
  <1>1. a \in Nat /\ b \in Nat /\ n \in Nat
    OBVIOUS
  <1>2. v \o s \in Seq(Byte) /\ Len(v \o s) = a + b
    OBVIOUS
  <1>3. /\ \A i \in 1 .. a : (v \o s)[i] = v[i]
        /\ \A i \in 1 .. b : (v \o s)[a + i] = s[i]
    OBVIOUS
  <1>4. a + b <= n /\ \A i \in 1 .. a + b : u[i] = (v \o s)[i]
    BY <1>2 DEF Begins
  <1>5. t \in Seq(Byte) /\ Len(t) = n - a /\ \A i \in 1 .. n - a : t[i] = u[a + i]
    BY <1>1, <1>4
  <1> HIDE DEF t
  <1>6. Begins(u, v)
    <2>1. a <= n
      BY <1>1, <1>4
    <2>2. ASSUME NEW i \in 1 .. a PROVE u[i] = v[i]
      <3>1. i \in 1 .. a + b
        BY <1>1
      <3> QED
        BY <1>3, <1>4, <3>1
    <2> QED
      BY <2>1, <2>2 DEF Begins
  <1>7. Begins(t, s)
    <2>1. b <= n - a
      BY <1>1, <1>4
    <2>2. ASSUME NEW i \in 1 .. b PROVE t[i] = s[i]
      <3>1. a + i \in 1 .. a + b /\ i \in 1 .. n - a
        BY <1>1, <2>1
      <3> QED
        BY <1>3, <1>4, <1>5, <3>1
    <2> QED
      BY <1>5, <2>1, <2>2 DEF Begins
  <1> QED
    BY <1>2, <1>5, <1>6, <1>7 DEF t

\* The bytes of a byte string are bytes, and a length that is a varint stands
\* before it as it is.
LEMMA BytearrayBytes ==
    ASSUME NEW s \in Seq(Byte)
    PROVE  /\ WriteBytearray(s) \in Seq(Byte)
           /\ Fits(Len(s), IntBits) => WriteBytearray(s) = WriteVarint(Len(s)) \o s
  <1> DEFINE l == Len(s)
             m == 2 ^ IntBits
             k == l % m
  <1>1. l \in Nat /\ m \in Nat \ {0} /\ IntBits \in Nat \ {0} /\ IntBits <= LongBits
    BY Widths, PowerType
  <1>2. k \in 0 .. m - 1
    <2> HIDE DEF l, m
    <2> QED
      BY <1>1, DivMod
  <1> DEFINE n == FromTwosComplement(k, IntBits)
  <1>3. n \in Int /\ Fits(n, IntBits) /\ ToTwosComplement(n, IntBits) = k
    <2> HIDE DEF k
    <2> QED
      BY <1>1, <1>2, FromAndTo
  <1>4. WriteVarint(n) \in Seq(Byte)
    <2>1. k \in 0 .. 2 ^ LongBits - 1
      <3> HIDE DEF k
      <3> QED
        BY <1>1, <1>2, GroupsLimit
    <2>2. WriteVaruint(k) \in Seq(Byte)
      <3> HIDE DEF k
      <3> QED
        BY <2>1, GroupBytes
    <2> HIDE DEF n, k
    <2> QED
      BY <1>3, <2>2 DEF WriteVarint
  <1>5. ASSUME Fits(l, IntBits) PROVE n = l
    <2>1. l < 2 ^ (IntBits - 1) /\ 2 ^ (IntBits - 1) \in Nat /\ m = 2 * 2 ^ (IntBits - 1)
      BY <1>1, <1>5, PowerDoubles DEF Fits
    <2>2. k = l
      <3>1. l < m
        BY <1>1, <2>1
      <3> HIDE DEF l, m
      <3> QED
        BY <1>1, <3>1, DivIsZero
    <2> QED
      BY <1>1, <2>1, <2>2 DEF FromTwosComplement
  <1>6. WriteBytearray(s) = WriteVarint(n) \o s
    BY DEF WriteBytearray
  <1> HIDE DEF n, l
  <1>7. WriteBytearray(s) \in Seq(Byte)
    BY <1>4, <1>6
  <1> QED
    BY <1>5, <1>6, <1>7 DEF l

\* A written varint is read back, one of IntBits and one of LongBits.
LEMMA VarintBack ==
    ASSUME NEW n \in Int, Fits(n, IntBits), NEW u \in Seq(Byte), NEW impl \in Impl,
           Begins(u, WriteVarint(n))
    PROVE  ReadVarint(u, impl) = Done(n, Len(WriteVarint(n)))
  BY Widths, SignedReadBack DEF WriteVarint, ReadVarint

\* A written varlong is read back, whoever reads it.
LEMMA VarlongBack ==
    ASSUME NEW n \in Int, Fits(n, LongBits), NEW u \in Seq(Byte), NEW impl \in Impl,
           Begins(u, WriteVarlong(n))
    PROVE  ReadVarlong(u, impl) = Done(n, Len(WriteVarlong(n)))
  <1>1. LongBits \in Nat \ {0} /\ LongBits <= LongBits
    BY Widths
  <1> QED
    BY <1>1, SignedReadBack DEF WriteVarlong, ReadVarlong

\* Their bytes are bytes.
LEMMA VarintBytes ==
    ASSUME NEW n \in Int
    PROVE  /\ Fits(n, IntBits) => WriteVarint(n) \in Seq(Byte)
           /\ Fits(n, LongBits) => WriteVarlong(n) \in Seq(Byte)
  <1>1. ASSUME NEW bits \in Nat \ {0}, bits <= LongBits, Fits(n, bits)
        PROVE  WriteVaruint(ToTwosComplement(n, bits)) \in Seq(Byte)
    <2> DEFINE v == ToTwosComplement(n, bits)
    <2>1. v \in 0 .. 2 ^ bits - 1
      BY <1>1, ToAndFrom
    <2> HIDE DEF v
    <2>2. v \in 0 .. 2 ^ LongBits - 1
      BY <1>1, <2>1, GroupsLimit
    <2> QED
      BY <2>2, GroupBytes DEF v
  <1> QED
    BY <1>1, Widths DEF WriteVarint, WriteVarlong

\* A byte string behind its length: the length is read, and then it is taken.
LEMMA LengthAndBytes ==
    ASSUME NEW s \in Seq(Byte), Fits(Len(s), IntBits), NEW u \in Seq(Byte), NEW impl \in Impl,
           Begins(u, WriteBytearray(s)), NEW n, n = ReadVarint(u, impl)
    PROVE  /\ n.err = "none" /\ n.val = Len(s)
           /\ Plus(Take(Rest(u, n), n.val), n.used) = Done(s, Len(WriteBytearray(s)))
  <1> DEFINE v == WriteVarint(Len(s))
             w == WriteBytearray(s)
             t == SubSeq(u, Len(v) + 1, Len(u))
  <1>1. Len(s) \in Nat /\ Len(s) \in Int
    OBVIOUS
  <1>2. v \in Seq(Byte) /\ w = v \o s
    BY <1>1, VarintBytes, BytearrayBytes
  <1> HIDE DEF v
  <1>3. Len(w) = Len(v) + Len(s) /\ Begins(u, v) /\ t \in Seq(Byte) /\ Begins(t, s)
    BY <1>2, TwoParts
  <1>4. n = Done(Len(s), Len(v))
    BY <1>1, <1>3, VarintBack DEF v
  <1>5. Rest(u, n) = t
    BY <1>4 DEF Rest, Done
  <1> HIDE DEF t, w
  <1>6. Len(s) <= Len(t) /\ SubSeq(t, 1, Len(s)) = s /\ Len(t) \in Nat
    BY <1>3, FirstBytes DEF Begins
  <1>7. Take(t, Len(s)) = Done(s, Len(s))
    <2>1. ~(Len(s) > Len(t))
      BY <1>1, <1>6
    <2> QED
      BY <1>6, <2>1 DEF Take
  <1>8. Plus(Done(s, Len(s)), Len(v)) = Done(s, Len(s) + Len(v))
    BY DEF Plus, Done
  <1>9. Len(s) + Len(v) = Len(w)
    BY <1>1, <1>2, <1>3
  <1> QED
    BY <1>4, <1>5, <1>7, <1>8, <1>9 DEF Done, w

-----------------------------------------------------------------------------
(* What each reader consumes, of any bytes.                                *)

\* A read that consumes what it may: all there is at the end of the data, and
\* of a prefix that is refused its own bytes (and the bool before it).
InStep(r, u) ==
    /\ IsRead(r, u)
    /\ r.err \in Errors \cup {"none"}
    /\ r.err = "eof" => r.used = Len(u)
    /\ r.err \in {"range", "long", "negative", "limit"} =>
          /\ r.used <= ByteLimit(LongBits) + 1
          /\ \A i \in 2 .. r.used - 1 : More(u[i])

\* The refusals of a text whose bytes were all taken.
TextErrors == {"chars", "encoding"}

\* The same of a number, which has no bool before it.
NumberInStep(r, u) ==
    /\ IsRead(r, u)
    /\ r.err \in {"none", "eof", "range", "long"}
    /\ r.err = "eof" => r.used = Len(u)
    /\ r.err # "eof" => /\ r.used <= ByteLimit(LongBits)
                        /\ \A i \in 1 .. r.used - 1 : More(u[i])

\* Both number readers, of any bytes (base_io.py:452-503, io.rs:55-107).
LEMMA NumberRead ==
    ASSUME NEW u \in Seq(Byte), NEW impl \in Impl
    PROVE  /\ NumberInStep(ReadVarint(u, impl), u) /\ InStep(ReadVarint(u, impl), u)
           /\ NumberInStep(ReadVarlong(u, impl), u) /\ InStep(ReadVarlong(u, impl), u)
           /\ ReadVarint(u, impl).err = "none" => ReadVarint(u, impl).val \in Int
  <1>1. ASSUME NEW bits \in Nat \ {0}, bits <= LongBits, ByteLimit(bits) <= ByteLimit(LongBits),
               NEW r, r = Signed(ReadVaruint(u, bits, impl), bits)
        PROVE  NumberInStep(r, u) /\ InStep(r, u) /\ (r.err = "none" => r.val \in Int)
    <2>1. /\ IsRead(r, u)
          /\ r.err \in {"none", "eof", "range", "long"}
          /\ r.err = "eof" => r.used = Len(u)
          /\ r.err # "eof" => /\ r.used <= ByteLimit(bits)
                              /\ \A i \in 1 .. r.used - 1 : More(u[i])
          /\ r.err = "none" => r.val \in Int
      BY <1>1, SignedRead
    <2>2. ByteLimit(bits) \in Nat /\ ByteLimit(LongBits) \in Nat /\ r.used \in Nat
      BY <2>1, LimitHolds, Widths DEF IsRead
    <2>3. r.used <= ByteLimit(bits) => r.used <= ByteLimit(LongBits) /\ r.used <= ByteLimit(LongBits) + 1
      BY <1>1, <2>2
    <2>4. NumberInStep(r, u)
      BY <2>1, <2>3 DEF NumberInStep
    <2>5. r.err # "eof" => \A i \in 2 .. r.used - 1 : More(u[i])
      BY <2>1, <2>2
    <2>6. InStep(r, u)
      BY <2>1, <2>3, <2>5 DEF InStep, Errors
    <2> QED
      BY <2>1, <2>4, <2>6
  <1>2. /\ IntBits \in Nat \ {0} /\ IntBits <= LongBits /\ ByteLimit(IntBits) <= ByteLimit(LongBits)
        /\ LongBits \in Nat \ {0} /\ LongBits <= LongBits /\ ByteLimit(LongBits) <= ByteLimit(LongBits)
    BY Widths, LimitGrows, LimitHolds
  <1> QED
    BY <1>1, <1>2 DEF ReadVarint, ReadVarlong

\* Bytes taken behind a length that was read.
LEMMA TakenBehind ==
    ASSUME NEW u \in Seq(Byte), NEW n, NumberInStep(n, u), n.val \in Nat,
           NEW r, r = Plus(Take(Rest(u, n), n.val), n.used)
    PROVE  /\ IsRead(r, u) /\ r.err \in {"none", "eof"}
           /\ r.err = "eof" => r.used = Len(u)
           /\ r.err = "none" => r.val \in Seq(Byte)
  <1> DEFINE t == Rest(u, n)
             s == Take(t, n.val)
             k == n.used
  <1>1. k \in 0 .. Len(u) /\ k \in Nat /\ Len(u) \in Nat
    BY DEF NumberInStep, IsRead
  <1>2. t \in Seq(Byte) /\ Len(t) = Len(u) - k
    <2> HIDE DEF k
    <2>1. SubSeq(u, k + 1, Len(u)) \in Seq(Byte) /\ Len(SubSeq(u, k + 1, Len(u))) = Len(u) - k
      BY <1>1
    <2> QED
      BY <2>1 DEF Rest, k
  <1> HIDE DEF t, k
  <1>3. /\ IsRead(s, t) /\ s.err \in {"none", "eof"}
        /\ s.err = "eof" => s.used = Len(t)
        /\ s.err = "none" => s.used = n.val /\ s.val = SubSeq(t, 1, n.val) /\ n.val <= Len(t)
    BY <1>2, TakeRead
  <1>4. r = Plus(s, k)
    BY DEF t, k
  <1> HIDE DEF s
  <1>5. r = [err |-> s.err, val |-> s.val, used |-> s.used + k]
    BY <1>3, <1>4 DEF Plus, IsRead
  <1>6. s.used + k \in 0 .. Len(u) /\ (s.used = Len(t) => s.used + k = Len(u))
    BY <1>1, <1>2, <1>3 DEF IsRead
  <1>7. s.err = "none" => s.val \in Seq(Byte)
    <2> SUFFICES ASSUME s.err = "none" PROVE s.val \in Seq(Byte)
      OBVIOUS
    <2>1. SubSeq(t, 1, n.val) \in Seq(Byte)
      BY <1>2, <1>3
    <2> QED
      BY <1>3, <2>1
  <1> QED
    BY <1>3, <1>5, <1>6, <1>7 DEF IsRead

\* read_bytearray of any bytes is in step and refuses no text (base_io.py:704-713).
LEMMA BytearrayRead ==
    ASSUME NEW u \in Seq(Byte), NEW impl \in Impl
    PROVE  InStep(ReadBytearray(u, impl), u) /\ ReadBytearray(u, impl).err \notin TextErrors
  <1> DEFINE r == ReadBytearray(u, impl)
             n == ReadVarint(u, impl)
             s == Plus(Take(Rest(u, n), n.val), n.used)
  <1>1. NumberInStep(n, u) /\ InStep(n, u) /\ (n.err = "none" => n.val \in Int)
    BY NumberRead
  <1>2. r = IF n.err # "none" THEN n
            ELSE IF n.val < 0 THEN Failed("negative", n.used) ELSE s
    BY DEF ReadBytearray
  <1>3. n.err = "none" /\ ~(n.val < 0) =>
            /\ IsRead(s, u) /\ s.err \in {"none", "eof"}
            /\ s.err = "eof" => s.used = Len(u)
    <2> HIDE DEF n
    <2>1. n.err = "none" /\ ~(n.val < 0) => n.val \in Nat
      BY <1>1
    <2> QED
      BY <1>1, <2>1, TakenBehind
  <1> HIDE DEF r, n, s
  <1>4. n.used \in Nat /\ ByteLimit(LongBits) \in Nat
    BY <1>1, LimitHolds, Widths DEF NumberInStep, IsRead
  <1>5. CASE n.err # "none"
    BY <1>1, <1>2, <1>5 DEF r, NumberInStep, TextErrors
  <1>6. CASE n.err = "none" /\ n.val < 0
    <2>1. r = [err |-> "negative", val |-> None, used |-> n.used]
      BY <1>2, <1>6 DEF Failed
    <2>2. n.used <= ByteLimit(LongBits) + 1 /\ \A i \in 2 .. n.used - 1 : More(u[i])
      BY <1>1, <1>4, <1>6 DEF NumberInStep
    <2> QED
      BY <1>1, <2>1, <2>2 DEF InStep, NumberInStep, IsRead, Errors, TextErrors, r
  <1>7. CASE n.err = "none" /\ ~(n.val < 0)
    BY <1>2, <1>3, <1>7 DEF InStep, Errors, TextErrors, r
  <1> QED
    BY <1>5, <1>6, <1>7

\* read_utf of any bytes is in step (base_io.py:730-760).
LEMMA UtfRead ==
    ASSUME NEW u \in Seq(Byte), NEW impl \in Impl
    PROVE  InStep(ReadUtf(u, impl), u)
  <1> DEFINE r == ReadUtf(u, impl)
             n == ReadVarint(u, impl)
             s == Plus(Take(Rest(u, n), n.val), n.used)
  <1>1. NumberInStep(n, u) /\ InStep(n, u) /\ (n.err = "none" => n.val \in Int)
    BY NumberRead
  <1>2. r = IF n.err # "none" THEN n
            ELSE IF n.val < 0 THEN Failed("negative", n.used)
            ELSE IF n.val > MaxBytes THEN Failed("limit", n.used)
            ELSE Decoded(s, impl)
    BY DEF ReadUtf
  <1>3. n.err = "none" /\ ~(n.val < 0) =>
            /\ IsRead(s, u) /\ s.err \in {"none", "eof"}
            /\ s.err = "eof" => s.used = Len(u)
    <2> HIDE DEF n
    <2>1. n.err = "none" /\ ~(n.val < 0) => n.val \in Nat
      BY <1>1
    <2> QED
      BY <1>1, <2>1, TakenBehind
  <1> HIDE DEF r, n, s
  <1>4. n.used \in Nat /\ ByteLimit(LongBits) \in Nat
    BY <1>1, LimitHolds, Widths DEF NumberInStep, IsRead
  <1>5. CASE n.err # "none"
    BY <1>1, <1>2, <1>5 DEF r
  <1>6. CASE n.err = "none" /\ (n.val < 0 \/ n.val > MaxBytes)
    <2>1. PICK e \in {"negative", "limit"} : r = [err |-> e, val |-> None, used |-> n.used]
      BY <1>2, <1>6 DEF Failed
    <2>2. n.used <= ByteLimit(LongBits) + 1 /\ \A i \in 2 .. n.used - 1 : More(u[i])
      BY <1>1, <1>4, <1>6 DEF NumberInStep
    <2> QED
      BY <1>1, <2>1, <2>2 DEF InStep, NumberInStep, IsRead, Errors, r
  <1>7. CASE n.err = "none" /\ ~(n.val < 0) /\ ~(n.val > MaxBytes)
    <2>1. r = Decoded(s, impl)
      BY <1>2, <1>7
    <2>2. \/ r = s
          \/ r = [err |-> "encoding", val |-> None, used |-> s.used]
          \/ r = [err |-> "chars", val |-> None, used |-> s.used]
      BY <2>1 DEF Decoded, Failed
    <2> QED
      BY <1>3, <1>7, <2>2 DEF InStep, IsRead, Errors, r
  <1> QED
    BY <1>5, <1>6, <1>7

\* read_ascii of any bytes is in step and refuses no text (base_io.py:715-728).
LEMMA AsciiRead ==
    ASSUME NEW u \in Seq(Byte)
    PROVE  InStep(ReadAscii(u), u) /\ ReadAscii(u).err \notin TextErrors
  <1> DEFINE nuls == {i \in DOMAIN u : u[i] = 0}
             nul == Least(nuls)
             r == ReadAscii(u)
  <1>1. r = IF nuls = {} THEN Failed("eof", Len(u)) ELSE Done(SubSeq(u, 1, nul - 1), nul)
    BY DEF ReadAscii, Least
  <1>2. Len(u) \in Nat /\ DOMAIN u = 1 .. Len(u)
    OBVIOUS
  <1>3. nuls # {} => nul \in 0 .. Len(u)
    <2>1. nuls \in SUBSET Nat /\ nuls \subseteq 1 .. Len(u)
      BY <1>2
    <2> HIDE DEF nuls
    <2>2. nuls # {} => nul \in nuls
      BY <2>1, LeastChosen
    <2> HIDE DEF nul
    <2>3. nuls # {} => nul \in 1 .. Len(u)
      BY <2>1, <2>2
    <2> QED
      BY <2>3
  <1> HIDE DEF nuls, nul, r
  <1>4. CASE nuls = {}
    <2>1. r = [err |-> "eof", val |-> None, used |-> Len(u)]
      BY <1>1, <1>4 DEF Failed
    <2> QED
      BY <1>2, <2>1 DEF InStep, IsRead, Errors, TextErrors, r
  <1>5. CASE nuls # {}
    <2>1. r = [err |-> "none", val |-> SubSeq(u, 1, nul - 1), used |-> nul]
      BY <1>1, <1>5 DEF Done
    <2> QED
      BY <1>3, <1>5, <2>1 DEF InStep, IsRead, Errors, TextErrors, r
  <1> QED
    BY <1>4, <1>5

\* read_optional of any bytes is in step: a bool, then a number
\* (base_io.py:762-774).
LEMMA OptionalRead ==
    ASSUME NEW u \in Seq(Byte), NEW impl \in Impl
    PROVE  InStep(ReadOptional(u, impl), u) /\ ReadOptional(u, impl).err \notin TextErrors
  <1> DEFINE r == ReadOptional(u, impl)
             t == Tail(u)
             n == ReadVarint(t, impl)
  <1>1. r = IF u = << >> THEN Failed("eof", 0)
            ELSE IF Head(u) = 0 THEN Done(None, 1) ELSE Plus(n, 1)
    BY DEF ReadOptional
  <1>2. Len(u) \in Nat /\ (u = << >> => Len(u) = 0) /\ (u # << >> => Len(u) >= 1)
    OBVIOUS
  <1>3. CASE u = << >>
    <2>1. r = [err |-> "eof", val |-> None, used |-> 0]
      BY <1>1, <1>3 DEF Failed
    <2> QED
      BY <1>2, <1>3, <2>1, <1>1 DEF InStep, IsRead, Errors, TextErrors
  <1>4. CASE u # << >> /\ Head(u) = 0
    <2>1. r = [err |-> "none", val |-> None, used |-> 1]
      BY <1>1, <1>4 DEF Done
    <2> QED
      BY <1>2, <1>4, <2>1, <1>1 DEF InStep, IsRead, Errors, TextErrors
  <1>5. CASE u # << >> /\ Head(u) # 0
    <2>1. t \in Seq(Byte) /\ Len(t) = Len(u) - 1 /\ \A i \in 1 .. Len(t) : t[i] = u[i + 1]
      BY <1>5
    <2> HIDE DEF t
    <2>2. NumberInStep(n, t)
      BY <2>1, NumberRead
    <2>3. r = Plus(n, 1)
      BY <1>1, <1>5
    <2> HIDE DEF n, r
    <2>4. r = [err |-> n.err, val |-> n.val, used |-> n.used + 1] /\ n.used \in 0 .. Len(t)
      BY <2>2, <2>3 DEF Plus, NumberInStep, IsRead
    <2>5. IsRead(r, u)
      <3>1. n.used + 1 \in 0 .. Len(u)
        BY <1>2, <1>5, <2>1, <2>4
      <3> QED
        BY <2>4, <3>1 DEF IsRead
    <2>6. r.err = "eof" => r.used = Len(u)
      BY <1>2, <2>1, <2>2, <2>4 DEF NumberInStep
    <2>7. r.err # "eof" => r.used <= ByteLimit(LongBits) + 1
      <3>1. ByteLimit(LongBits) \in Nat /\ n.used \in Nat
        BY <2>4, LimitHolds, Widths
      <3> QED
        BY <2>2, <2>4, <3>1 DEF NumberInStep
    <2>8. ASSUME r.err # "eof", NEW i \in 2 .. r.used - 1 PROVE More(u[i])
      <3>1. i - 1 \in 1 .. n.used - 1 /\ i - 1 \in 1 .. Len(t) /\ (i - 1) + 1 = i
        BY <1>2, <2>4, <2>8
      <3>2. More(t[i - 1]) /\ t[i - 1] = u[i]
        BY <2>1, <2>2, <2>4, <2>8, <3>1 DEF NumberInStep
      <3> QED
        BY <3>2
    <2>9. r.err \in Errors \cup {"none"} /\ r.err \notin TextErrors
      BY <2>2, <2>4 DEF NumberInStep, Errors, TextErrors
    <2> QED
      BY <2>5, <2>6, <2>7, <2>8, <2>9 DEF InStep, r
  <1> QED
    BY <1>3, <1>4, <1>5

-----------------------------------------------------------------------------
(* What each reader returns of the bytes its writer wrote.                 *)

\* A byte array whose length is a varint is read back, by either reader.
LEMMA BytearrayBack ==
    ASSUME NEW s \in Seq(Byte), Fits(Len(s), IntBits), NEW u \in Seq(Byte), NEW impl \in Impl,
           Begins(u, WriteBytearray(s))
    PROVE  ReadBytearray(u, impl) = Done(s, Len(WriteBytearray(s)))
  <1> DEFINE n == ReadVarint(u, impl)
             t == Plus(Take(Rest(u, n), n.val), n.used)
  <1>1. n.err = "none" /\ n.val = Len(s) /\ t = Done(s, Len(WriteBytearray(s)))
    BY LengthAndBytes
  <1>2. ReadBytearray(u, impl) =
            IF n.err # "none" THEN n ELSE IF n.val < 0 THEN Failed("negative", n.used) ELSE t
    BY DEF ReadBytearray
  <1>3. ~(Len(s) < 0)
    OBVIOUS
  <1> HIDE DEF n, t
  <1> QED
    BY <1>1, <1>2, <1>3

\* A text that its writer accepts has no more bytes than any reader accepts.
LEMMA TextLength ==
    ASSUME NEW s \in Seq(Byte), WellFormed(s), NEW impl \in Impl, Counted(s, impl) <= MaxChars
    PROVE  Len(s) <= MaxBytes /\ Fits(Len(s), IntBits)
  <1>1. /\ Chars(s) \in Nat /\ Chars(s) <= Len(s) /\ Len(s) <= 2 * Chars(s) /\ Len(s) \in Nat
    BY CharsBound
  <1>2. MaxChars \in Nat /\ MaxBytes \in Nat /\ 2 * MaxChars <= MaxBytes
    BY TextAssumption
  <1>3. Chars(s) <= MaxChars
    BY <1>1, <1>2 DEF Counted, Impl
  <1>4. Len(s) <= MaxBytes
    BY <1>1, <1>2, <1>3
  <1>5. 2 ^ (IntBits - 1) \in Nat
    BY Widths, PowerDoubles
  <1> QED
    BY <1>1, <1>2, <1>4, <1>5, TextAssumption DEF Fits

\* A text is read whole, and refused for its length only after that.
LEMMA UtfBack ==
    ASSUME NEW s \in Seq(Byte), WellFormed(s), Len(s) <= MaxBytes, Fits(Len(s), IntBits),
           NEW u \in Seq(Byte), NEW impl \in Impl, Begins(u, WriteBytearray(s))
    PROVE  ReadUtf(u, impl) =
               IF Counted(s, impl) > MaxChars THEN Failed("chars", Len(WriteBytearray(s)))
               ELSE Done(s, Len(WriteBytearray(s)))
  <1> DEFINE n == ReadVarint(u, impl)
             t == Plus(Take(Rest(u, n), n.val), n.used)
             k == Len(WriteBytearray(s))
  <1>1. n.err = "none" /\ n.val = Len(s) /\ t = Done(s, k)
    BY LengthAndBytes
  <1>2. ReadUtf(u, impl) =
            IF n.err # "none" THEN n
            ELSE IF n.val < 0 THEN Failed("negative", n.used)
            ELSE IF n.val > MaxBytes THEN Failed("limit", n.used)
            ELSE Decoded(t, impl)
    BY DEF ReadUtf
  <1>3. ~(Len(s) < 0) /\ ~(Len(s) > MaxBytes)
    BY TextAssumption
  <1> HIDE DEF n, t, k
  <1>4. ReadUtf(u, impl) = Decoded(Done(s, k), impl)
    BY <1>1, <1>2, <1>3
  <1>5. Decoded(Done(s, k), impl) =
            IF Counted(s, impl) > MaxChars THEN Failed("chars", k) ELSE Done(s, k)
    BY DEF Decoded, Done
  <1> QED
    BY <1>4, <1>5 DEF k

\* The bytes of a text in ASCII are bytes.
LEMMA AsciiBytes ==
    ASSUME NEW s \in Seq(Nat)
    PROVE  WriteAscii(s) \in Seq(Byte)
  <1> DEFINE m == [i \in DOMAIN s |-> IF s[i] \in Byte THEN s[i] ELSE Mark]
  <1>1. 0 \in Byte /\ Mark \in Byte
    BY Digits DEF Mark
  <1>2. m \in Seq(Byte)
    <2>1. DOMAIN s = 1 .. Len(s) /\ Len(s) \in Nat
      OBVIOUS
    <2>2. \A i \in DOMAIN s : m[i] \in Byte
      BY <1>1
    <2>3. m = [i \in 1 .. Len(s) |-> m[i]]
      BY <2>1
    <2> HIDE DEF m
    <2> QED
      BY <2>1, <2>2, <2>3
  <1>3. WriteAscii(s) = m \o <<0>>
    BY DEF WriteAscii
  <1> HIDE DEF m
  <1> QED
    BY <1>1, <1>2, <1>3

\* A text without a NUL is read up to the one behind it.
LEMMA AsciiBack ==
    ASSUME NEW s \in Seq(Nat), \A i \in DOMAIN s : s[i] \in Byte \ {0},
           NEW u \in Seq(Byte), Begins(u, WriteAscii(s))
    PROVE  ReadAscii(u) = Done(s, Len(WriteAscii(s)))
  <1> DEFINE m == [i \in DOMAIN s |-> IF s[i] \in Byte THEN s[i] ELSE Mark]
             nuls == {i \in DOMAIN u : u[i] = 0}
             l == Len(s)
  <1>1. l \in Nat /\ DOMAIN s = 1 .. l
    OBVIOUS
  <1>2. m = s
    <2>1. s = [i \in DOMAIN s |-> s[i]]
      OBVIOUS
    <2> QED
      BY <2>1
  <1>3. s \in Seq(Byte)
    BY <1>1
  <1>4. <<0>> \in Seq(Byte) /\ Len(<<0>>) = 1
    BY Digits
  <1>5. WriteAscii(s) = s \o <<0>>
    BY <1>2 DEF WriteAscii
  <1> HIDE DEF m
  <1>6. Len(WriteAscii(s)) = l + 1 /\ Begins(u, s) /\ Begins(u, s \o <<0>>)
    <2> DEFINE z == <<0>>
    <2>1. z \in Seq(Byte) /\ Len(z) = 1 /\ WriteAscii(s) = s \o z /\ Begins(u, s \o z)
      BY <1>4, <1>5
    <2> HIDE DEF z
    <2> DEFINE w == WriteAscii(s)
    <2>2. Len(w) = Len(s) + Len(z) /\ Begins(u, s)
      <3>1. w = s \o z /\ Begins(u, w)
        BY <2>1
      <3> HIDE DEF w
      <3> QED
        BY <1>3, <2>1, <3>1, TwoParts
    <2> QED
      BY <2>1, <2>2 DEF z
  <1>7. l + 1 <= Len(u) /\ u[l + 1] = 0
    <2>1. (s \o <<0>>)[l + 1] = 0 /\ l + 1 \in 1 .. l + 1
      OBVIOUS
    <2> QED
      BY <1>5, <1>6, <2>1 DEF Begins
  <1>8. \A i \in 1 .. l : u[i] # 0
    BY <1>1, <1>6 DEF Begins
  <1>9. l + 1 \in nuls /\ (\A j \in nuls : l + 1 <= j) /\ nuls \in SUBSET Nat
    <2>1. DOMAIN u = 1 .. Len(u) /\ Len(u) \in Nat
      OBVIOUS
    <2> QED
      BY <1>1, <1>7, <1>8, <2>1
  <1>10. Least(nuls) = l + 1
    <2> HIDE DEF nuls, l
    <2>1. Least(nuls) \in nuls /\ \A j \in nuls : Least(nuls) <= j
      BY <1>9, LeastChosen
    <2>2. Least(nuls) \in Nat /\ Least(nuls) <= l + 1 /\ l + 1 <= Least(nuls)
      BY <1>9, <2>1
    <2> QED
      BY <1>1, <2>2
  <1>11. ReadAscii(u) = IF nuls = {} THEN Failed("eof", Len(u))
                        ELSE Done(SubSeq(u, 1, Least(nuls) - 1), Least(nuls))
    BY DEF ReadAscii, Least
  <1>12. SubSeq(u, 1, l) = s
    BY <1>3, <1>6, FirstBytes
  <1>13. (l + 1) - 1 = l
    BY <1>1
  <1> HIDE DEF nuls, l
  <1> QED
    BY <1>6, <1>9, <1>10, <1>11, <1>12, <1>13

\* An optional number: nothing, or a bool and the number.
LEMMA OptionalBack ==
    ASSUME NEW u \in Seq(Byte), NEW impl \in Impl
    PROVE  /\ Begins(u, <<0>>) => ReadOptional(u, impl) = Done(None, 1)
           /\ \A n \in Int :
                 Fits(n, IntBits) /\ Begins(u, <<1>> \o WriteVarint(n)) =>
                     ReadOptional(u, impl) = Done(n, Len(<<1>> \o WriteVarint(n)))
  <1>1. Len(u) \in Nat
    OBVIOUS
  <1>2. ASSUME Begins(u, << 0 >>) PROVE ReadOptional(u, impl) = Done(None, 1)
    <2>1. Len(u) >= 1 /\ u[1] = 0
      BY <1>2 DEF Begins
    <2>2. u # << >> /\ Head(u) = 0
      BY <2>1
    <2> QED
      BY <2>2 DEF ReadOptional
  <1>3. ASSUME NEW n \in Int, Fits(n, IntBits), Begins(u, << 1 >> \o WriteVarint(n))
        PROVE  ReadOptional(u, impl) = Done(n, Len(<<1>> \o WriteVarint(n)))
    <2> DEFINE w == WriteVarint(n)
               one == <<1>>
               t == SubSeq(u, Len(one) + 1, Len(u))
    <2>1. one \in Seq(Byte) /\ w \in Seq(Byte) /\ Len(one) = 1 /\ one[1] = 1
      BY <1>3, Digits, VarintBytes
    <2>2. Begins(u, one \o w)
      BY <1>3
    <2>3. /\ Len(one \o w) = 1 + Len(w)
          /\ Begins(u, one) /\ t \in Seq(Byte) /\ Begins(t, w)
      <3> DEFINE both == one \o w
      <3>1. both = one \o w /\ Begins(u, both)
        BY <2>2
      <3>2. one \in Seq(Byte) /\ w \in Seq(Byte)
        BY <2>1
      <3> HIDE DEF one, w, both
      <3>3. /\ Len(both) = Len(one) + Len(w)
            /\ Begins(u, one)
            /\ SubSeq(u, Len(one) + 1, Len(u)) \in Seq(Byte)
            /\ Begins(SubSeq(u, Len(one) + 1, Len(u)), w)
        BY <3>1, <3>2, TwoParts
      <3> QED
        BY <2>1, <3>1, <3>3
    <2>10. Len(u) >= 1 /\ u[1] = 1
      <3> HIDE DEF one
      <3> QED
        BY <2>1, <2>3 DEF Begins
    <2>4. u # << >> /\ Head(u) = 1
      BY <2>10
    <2>5. Tail(u) = t
      BY <2>4
    <2> HIDE DEF t
    <2>6. ReadVarint(t, impl) = Done(n, Len(w))
      BY <1>3, <2>3, VarintBack
    <2>7. ReadOptional(u, impl) = Plus(Done(n, Len(w)), 1)
      <3>1. ReadOptional(u, impl) = Plus(ReadVarint(Tail(u), impl), 1)
        BY <2>4 DEF ReadOptional
      <3> QED
        BY <2>5, <2>6, <3>1
    <2>8. Plus(Done(n, Len(w)), 1) = Done(n, Len(w) + 1)
      BY DEF Plus, Done
    <2>9. Len(w) + 1 = 1 + Len(w)
      BY <2>1
    <2> QED
      BY <2>3, <2>7, <2>8, <2>9
  <1> QED
    BY <1>2, <1>3

-----------------------------------------------------------------------------
(* Values in the buffer, and reads of it.                                  *)

\* w is what `who` writes for a value of a kind.
WrittenAs(kind, val, w, who) ==
    \/ kind = "varint" /\ val \in Int /\ Fits(val, IntBits) /\ w = WriteVarint(val)
    \/ kind = "varlong" /\ val \in Int /\ Fits(val, LongBits) /\ w = WriteVarlong(val)
    \/ kind = "bytes" /\ val \in Seq(Byte) /\ w = WriteBytearray(val)
    \/ kind = "ascii" /\ val \in Seq(Nat) /\ w = WriteAscii(val)
    \/ /\ kind = "utf" /\ val \in Seq(Byte) /\ w = WriteBytearray(val)
       /\ WellFormed(val) /\ Counted(val, who) <= MaxChars
    \/ kind = "optional" /\ val = None /\ w = <<0>>
    \/ kind = "optional" /\ val \in Int /\ Fits(val, IntBits) /\ w = <<1>> \o WriteVarint(val)
    \/ kind = "torn" /\ w = <<1>>
    \/ /\ kind \in Formats /\ val \in Int /\ InFormat(val, kind, PackedSize(kind, who))
       /\ w = WriteValue(val, kind, who)

\* The value of frame f stands in the bytes d where f says.
Placed(f, d, who) ==
    /\ who \in Impl
    /\ DOMAIN f = {"kind", "val", "from", "to"}
    /\ f.kind \in Kinds \cup {"torn"}
    /\ f.from \in Nat
    /\ \E w \in Seq(Byte) :
          /\ WrittenAs(f.kind, f.val, w, who)
          /\ f.to = f.from + Len(w) /\ f.to <= Len(d)
          /\ \A i \in 1 .. Len(w) : d[f.from + i] = w[i]

\* r is what a read of a kind gives of u.
IsOutcome(kind, u, impl, r) ==
    \/ kind = "varint" /\ r = ReadVarint(u, impl)
    \/ kind = "varlong" /\ r = ReadVarlong(u, impl)
    \/ kind = "bytes" /\ r = ReadBytearray(u, impl)
    \/ kind = "ascii" /\ r = ReadAscii(u)
    \/ kind = "utf" /\ r = ReadUtf(u, impl)
    \/ kind = "optional" /\ r = ReadOptional(u, impl)
    \/ kind \in Formats /\ r = ReadValue(u, kind, impl)
    \/ /\ kind = "raw"
       /\ \E n \in 0 .. 2 :
             \/ impl = "python" /\ r = Take(u, n)
             \/ impl = "rust" /\ r = IF n > Len(u) THEN Failed("eof", 0) ELSE Take(u, n)

\* The rest of the bytes.
LEMMA RestOf ==
    ASSUME NEW d \in Seq(Byte), NEW n \in 0 .. Len(d)
    PROVE  /\ SubSeq(d, n + 1, Len(d)) \in Seq(Byte)
           /\ Len(SubSeq(d, n + 1, Len(d))) = Len(d) - n
           /\ \A i \in 1 .. Len(d) - n : SubSeq(d, n + 1, Len(d))[i] = d[n + i]
  <1>1. Len(d) \in Nat /\ n \in Nat
    OBVIOUS
  <1> QED
    BY <1>1

\* A value that is written is placed.
LEMMA PlacedNew ==
    ASSUME NEW who \in Impl, NEW kind \in Kinds \cup {"torn"}, NEW val, NEW w \in Seq(Byte),
           WrittenAs(kind, val, w, who), NEW d \in Seq(Byte)
    PROVE  Placed([kind |-> kind, val |-> val, from |-> Len(d), to |-> Len(d) + Len(w)], d \o w, who)
  <1> DEFINE f == [kind |-> kind, val |-> val, from |-> Len(d), to |-> Len(d) + Len(w)]
  <1>1. Len(d \o w) = Len(d) + Len(w) /\ Len(d) \in Nat /\ Len(w) \in Nat
    OBVIOUS
  <1>2. \A i \in 1 .. Len(w) : (d \o w)[Len(d) + i] = w[i]
    OBVIOUS
  <1>3. f.kind = kind /\ f.val = val /\ f.from = Len(d) /\ f.to = Len(d) + Len(w)
    OBVIOUS
  <1>4. DOMAIN f = {"kind", "val", "from", "to"}
    OBVIOUS
  <1> HIDE DEF f
  <1>5. f.to = f.from + Len(w) /\ f.to <= Len(d \o w) /\ f.from \in Nat
    BY <1>1, <1>3
  <1>6. Placed(f, d \o w, who)
    BY <1>2, <1>3, <1>4, <1>5 DEF Placed
  <1> QED
    BY <1>6 DEF f

\* It stays where it is when bytes are added.
LEMMA PlacedLonger ==
    ASSUME NEW who, NEW f, NEW d \in Seq(Byte), Placed(f, d, who), NEW b \in Seq(Byte)
    PROVE  Placed(f, d \o b, who)
  <1>1. PICK w \in Seq(Byte) :
            /\ WrittenAs(f.kind, f.val, w, who)
            /\ f.to = f.from + Len(w) /\ f.to <= Len(d)
            /\ \A i \in 1 .. Len(w) : d[f.from + i] = w[i]
    BY DEF Placed
  <1> DEFINE e == d \o b
  <1>2. /\ Len(d) \in Nat /\ Len(w) \in Nat /\ f.from \in Nat
        /\ Len(e) >= Len(d) /\ Len(e) \in Nat
        /\ \A i \in 1 .. Len(d) : e[i] = d[i]
    BY DEF Placed
  <1> HIDE DEF e
  <1>3. f.to <= Len(e)
    BY <1>1, <1>2
  <1>4. ASSUME NEW i \in 1 .. Len(w) PROVE e[f.from + i] = w[i]
    <2>1. f.from + i \in 1 .. Len(d)
      BY <1>1, <1>2
    <2> QED
      BY <1>1, <1>2, <2>1
  <1> QED
    BY <1>1, <1>3, <1>4 DEF Placed, e

\* Where the i-th of m bytes behind a goes when the first n of k are deleted.
LEMMA Moved ==
    ASSUME NEW n \in Nat, NEW a \in Nat, a >= n, NEW m \in Nat, NEW k \in Nat, a + m <= k,
           NEW i \in 1 .. m
    PROVE  (a - n) + i \in 1 .. (k - n) /\ n + ((a - n) + i) = a + i
  OBVIOUS

\* Where a byte between the second and the last of m bytes behind a is.
LEMMA Between ==
    ASSUME NEW a \in Nat, NEW k \in Nat, NEW m \in 0 .. k, NEW i \in a + 2 .. (a + m) - 1
    PROVE  i - a \in 2 .. m - 1 /\ i - a \in 1 .. k /\ a + (i - a) = i
  OBVIOUS

\* It moves with its bytes when those before it are deleted.
LEMMA PlacedShifted ==
    ASSUME NEW who, NEW f, NEW d \in Seq(Byte), Placed(f, d, who),
           NEW n \in 0 .. Len(d), f.from >= n
    PROVE  Placed([f EXCEPT !.from = @ - n, !.to = @ - n], SubSeq(d, n + 1, Len(d)), who)
  <1> DEFINE g == [f EXCEPT !.from = @ - n, !.to = @ - n]
             e == SubSeq(d, n + 1, Len(d))
  <1>1. PICK w \in Seq(Byte) :
            /\ WrittenAs(f.kind, f.val, w, who)
            /\ f.to = f.from + Len(w) /\ f.to <= Len(d)
            /\ \A i \in 1 .. Len(w) : d[f.from + i] = w[i]
    BY DEF Placed
  <1>2. Len(d) \in Nat /\ Len(w) \in Nat /\ f.from \in Nat /\ n \in Nat
    BY DEF Placed
  <1>3. Len(e) = Len(d) - n /\ \A i \in 1 .. Len(d) - n : e[i] = d[n + i]
    BY RestOf
  <1>4. DOMAIN f = {"kind", "val", "from", "to"}
    BY DEF Placed
  <1>5. /\ DOMAIN g = {"kind", "val", "from", "to"}
        /\ g.kind = f.kind /\ g.val = f.val /\ g.from = f.from - n /\ g.to = f.to - n
    BY <1>4
  <1> HIDE DEF e, g
  <1>6. g.from \in Nat /\ g.to = g.from + Len(w) /\ g.to <= Len(e)
    BY <1>1, <1>2, <1>3, <1>5
  <1>7. ASSUME NEW i \in 1 .. Len(w) PROVE e[g.from + i] = w[i]
    <2>1. f.from >= n /\ f.from + Len(w) <= Len(d) /\ g.from = f.from - n
      BY <1>1, <1>5
    <2>2. (f.from - n) + i \in 1 .. (Len(d) - n) /\ n + ((f.from - n) + i) = f.from + i
      BY <1>2, <2>1, Moved
    <2>3. g.from + i \in 1 .. (Len(d) - n) /\ n + (g.from + i) = f.from + i
      BY <2>1, <2>2
    <2>4. e[g.from + i] = d[n + (g.from + i)]
      BY <1>3, <2>3
    <2>5. d[f.from + i] = w[i]
      BY <1>1
    <2> QED
      BY <2>3, <2>4, <2>5
  <1>8. who \in Impl /\ g.kind \in Kinds \cup {"torn"}
    BY <1>5 DEF Placed
  <1>9. Placed(g, e, who)
    BY <1>1, <1>5, <1>6, <1>7, <1>8 DEF Placed
  <1> QED
    BY <1>9 DEF e, g

\* A read from where it is placed begins with its bytes.
LEMMA PlacedBegins ==
    ASSUME NEW who, NEW f, NEW d \in Seq(Byte), Placed(f, d, who)
    PROVE  LET u == SubSeq(d, f.from + 1, Len(d))
           IN  /\ f.from \in 0 .. Len(d) /\ f.to \in f.from .. Len(d)
               /\ u \in Seq(Byte)
               /\ \E w \in Seq(Byte) : /\ WrittenAs(f.kind, f.val, w, who)
                                       /\ Begins(u, w)
                                       /\ f.to = f.from + Len(w)
  <1> DEFINE u == SubSeq(d, f.from + 1, Len(d))
  <1>1. PICK w \in Seq(Byte) :
            /\ WrittenAs(f.kind, f.val, w, who)
            /\ f.to = f.from + Len(w) /\ f.to <= Len(d)
            /\ \A i \in 1 .. Len(w) : d[f.from + i] = w[i]
    BY DEF Placed
  <1>2. Len(d) \in Nat /\ Len(w) \in Nat /\ f.from \in Nat
    BY DEF Placed
  <1>3. f.from \in 0 .. Len(d) /\ f.to \in f.from .. Len(d)
    BY <1>1, <1>2
  <1>4. /\ u \in Seq(Byte) /\ Len(u) = Len(d) - f.from
        /\ \A i \in 1 .. Len(d) - f.from : u[i] = d[f.from + i]
    BY <1>3, RestOf
  <1> HIDE DEF u
  <1>5. Len(w) <= Len(u) /\ Len(w) <= Len(d) - f.from
    BY <1>1, <1>2, <1>4
  <1>6. ASSUME NEW i \in 1 .. Len(w) PROVE u[i] = w[i]
    <2>1. i \in 1 .. Len(d) - f.from
      BY <1>2, <1>5
    <2> QED
      BY <1>1, <1>4, <2>1
  <1>7. Begins(u, w)
    BY <1>5, <1>6 DEF Begins
  <1> QED
    BY <1>1, <1>3, <1>4, <1>7 DEF u

\* Every read is in step.
LEMMA OutcomeInStep ==
    ASSUME NEW kind, NEW u \in Seq(Byte), NEW impl \in Impl, NEW r, IsOutcome(kind, u, impl, r)
    PROVE  /\ kind \in Kinds /\ IsRead(r, u) /\ r.err \in Errors \cup {"none"}
           /\ kind # "raw" => InStep(r, u)
           /\ kind = "raw" => r.err \in {"none", "eof"}
           /\ kind = "raw" /\ impl = "python" /\ r.err = "eof" => r.used = Len(u)
           /\ r.err \in TextErrors => kind = "utf"
  <1>0. kind \in Kinds
    BY DEF IsOutcome, Kinds, Numeric
  <1>1. CASE kind = "varint" /\ r = ReadVarint(u, impl)
    BY <1>0, <1>1, NumberRead DEF NumberInStep, InStep, TextErrors
  <1>2. CASE kind = "varlong" /\ r = ReadVarlong(u, impl)
    BY <1>0, <1>2, NumberRead DEF NumberInStep, InStep, TextErrors
  <1>3. CASE kind = "bytes" /\ r = ReadBytearray(u, impl)
    BY <1>0, <1>3, BytearrayRead DEF InStep
  <1>4. CASE kind = "ascii" /\ r = ReadAscii(u)
    BY <1>0, <1>4, AsciiRead DEF InStep
  <1>5. CASE kind = "utf" /\ r = ReadUtf(u, impl)
    BY <1>0, <1>5, UtfRead DEF InStep
  <1>6. CASE kind = "optional" /\ r = ReadOptional(u, impl)
    BY <1>0, <1>6, OptionalRead DEF InStep
  <1>7. CASE kind \in Formats /\ r = ReadValue(u, kind, impl)
    <2>1. /\ IsRead(r, u)
          /\ r.err \in {"none", "eof", "size"}
          /\ r.err = "eof" => r.used = Len(u)
      BY <1>7, ValueRead
    <2>2. kind # "raw"
      BY <1>7 DEF Formats
    <2> QED
      BY <1>0, <2>1, <2>2 DEF InStep, Errors, TextErrors
  <1>8. CASE kind = "raw"
    <2>1. PICK n \in 0 .. 2 :
             \/ impl = "python" /\ r = Take(u, n)
             \/ impl = "rust" /\ r = IF n > Len(u) THEN Failed("eof", 0) ELSE Take(u, n)
      BY <1>8 DEF IsOutcome, Formats
    <2>2. CASE r = Take(u, n)
      <3>1. n \in Nat
        OBVIOUS
      <3>2. /\ IsRead(r, u) /\ r.err \in {"none", "eof"}
            /\ r.err = "eof" => r.used = Len(u)
        BY <2>2, <3>1, TakeRead
      <3> QED
        BY <1>0, <1>8, <3>2 DEF Errors, TextErrors
    <2>3. CASE impl = "rust" /\ r = Failed("eof", 0)
      <3>1. r = [err |-> "eof", val |-> None, used |-> 0] /\ Len(u) \in Nat
        BY <2>3 DEF Failed
      <3> QED
        BY <1>0, <1>8, <2>3, <3>1 DEF IsRead, Errors, TextErrors
    <2> QED
      BY <2>1, <2>2, <2>3
  <1> QED
    BY <1>1, <1>2, <1>3, <1>4, <1>5, <1>6, <1>7, <1>8 DEF IsOutcome

\* Python's Buffer.read consumes all there is when the data ends in it.
LEMMA RawInStep ==
    ASSUME NEW u \in Seq(Byte), NEW r, IsOutcome("raw", u, "python", r), r.err = "eof"
    PROVE  r.used = Len(u)
  <1>1. "python" \in Impl
    BY DEF Impl
  <1> DEFINE kind == "raw"
             impl == "python"
  <1>2. impl \in Impl /\ IsOutcome(kind, u, impl, r)
    BY <1>1
  <1>3. kind = "raw" /\ impl = "python"
    OBVIOUS
  <1> HIDE DEF kind, impl
  <1> QED
    BY <1>2, <1>3, OutcomeInStep

\* Values the two sides do not agree about (Disputed).
Contested(kind, val, who, impl) ==
    \/ kind = "ascii" /\ \E i \in DOMAIN val : val[i] \notin Byte \ {0}
    \/ kind = "bytes" /\ ~Fits(Len(val), IntBits)
    \/ kind = "utf" /\ impl = "rust" /\ Len(val) > MaxChars
    \/ /\ kind = "long" /\ NativeLong # StandardLong
       /\ who = "python" \/ impl = "python"

\* Each kind is one kind.
LEMMA KindsDiffer ==
    ASSUME NEW kind, NEW u, NEW impl, NEW r, IsOutcome(kind, u, impl, r)
    PROVE  /\ kind = "varint" => r = ReadVarint(u, impl)
           /\ kind = "varlong" => r = ReadVarlong(u, impl)
           /\ kind = "bytes" => r = ReadBytearray(u, impl)
           /\ kind = "ascii" => r = ReadAscii(u)
           /\ kind = "utf" => r = ReadUtf(u, impl)
           /\ kind = "optional" => r = ReadOptional(u, impl)
           /\ kind \in Formats => r = ReadValue(u, kind, impl)
           /\ kind # "torn"
  BY DEF IsOutcome, Formats

\* A text that was written and is read is consumed whole, returned or refused.
LEMMA TextBack ==
    ASSUME NEW val, NEW w, NEW who \in Impl, WrittenAs("utf", val, w, who),
           NEW u \in Seq(Byte), Begins(u, w), NEW impl \in Impl,
           NEW r, r = ReadUtf(u, impl)
    PROVE  /\ val \in Seq(Byte)
           /\ r = IF Counted(val, impl) > MaxChars THEN Failed("chars", Len(w))
                  ELSE Done(val, Len(w))
  <1>1. /\ val \in Seq(Byte) /\ w = WriteBytearray(val)
        /\ WellFormed(val) /\ Counted(val, who) <= MaxChars
    BY DEF WrittenAs, Formats
  <1>2. Len(val) <= MaxBytes /\ Fits(Len(val), IntBits)
    BY <1>1, TextLength
  <1> QED
    BY <1>1, <1>2, UtfBack

\* What was written is read back by who agrees about it.
LEMMA ValueReadBack ==
    ASSUME NEW kind, NEW val, NEW w \in Seq(Byte), NEW who \in Impl, WrittenAs(kind, val, w, who),
           NEW u \in Seq(Byte), Begins(u, w), NEW impl \in Impl,
           NEW r, IsOutcome(kind, u, impl, r), ~Contested(kind, val, who, impl)
    PROVE  r = Done(val, Len(w))
  <1>1. CASE kind = "varint" /\ val \in Int /\ Fits(val, IntBits) /\ w = WriteVarint(val)
    BY <1>1, KindsDiffer, VarintBack
  <1>2. CASE kind = "varlong" /\ val \in Int /\ Fits(val, LongBits) /\ w = WriteVarlong(val)
    BY <1>2, KindsDiffer, VarlongBack
  <1>3. CASE kind = "bytes" /\ val \in Seq(Byte) /\ w = WriteBytearray(val)
    <2>1. Fits(Len(val), IntBits)
      BY <1>3 DEF Contested
    <2> QED
      BY <1>3, <2>1, KindsDiffer, BytearrayBack
  <1>4. CASE kind = "ascii" /\ val \in Seq(Nat) /\ w = WriteAscii(val)
    <2>1. \A i \in DOMAIN val : val[i] \in Byte \ {0}
      BY <1>4 DEF Contested
    <2> QED
      BY <1>4, <2>1, KindsDiffer, AsciiBack
  <1>5. CASE kind = "utf"
    <2>1. r = ReadUtf(u, impl) /\ WrittenAs("utf", val, w, who)
      BY <1>5, KindsDiffer
    <2>2. /\ val \in Seq(Byte)
          /\ r = IF Counted(val, impl) > MaxChars THEN Failed("chars", Len(w))
                 ELSE Done(val, Len(w))
      BY <2>1, TextBack
    <2>3. Counted(val, who) <= MaxChars
      BY <2>1 DEF WrittenAs, Formats
    <2>4. Chars(val) \in Nat /\ Chars(val) <= Len(val) /\ Len(val) \in Nat /\ MaxChars \in Nat
      BY <2>2, CharsBound, TextAssumption
    <2>5. impl = "rust" => Len(val) <= MaxChars
      BY <1>5, <2>4 DEF Contested
    <2>6. ~(Counted(val, impl) > MaxChars)
      BY <2>3, <2>4, <2>5 DEF Counted, Impl
    <2> QED
      BY <2>2, <2>6
  <1>6. CASE kind = "optional" /\ val = None /\ w = <<0>>
    <2>1. r = Done(None, 1)
      BY <1>6, KindsDiffer, OptionalBack
    <2>2. Len(w) = 1
      BY <1>6
    <2> QED
      BY <1>6, <2>1, <2>2
  <1>7. CASE /\ kind = "optional" /\ val \in Int /\ Fits(val, IntBits)
             /\ w = <<1>> \o WriteVarint(val)
    BY <1>7, KindsDiffer, OptionalBack
  <1>8. CASE kind = "torn"
    BY <1>8, KindsDiffer
  <1>9. CASE /\ kind \in Formats /\ val \in Int /\ InFormat(val, kind, PackedSize(kind, who))
             /\ w = WriteValue(val, kind, who)
    <2>1. kind = "long" => NativeLong = StandardLong \/ (who = "rust" /\ impl = "rust")
      BY DEF Contested, Impl
    <2> QED
      BY <1>9, <2>1, KindsDiffer, ValueBack
  <1> QED
    BY <1>1, <1>2, <1>3, <1>4, <1>5, <1>6, <1>7, <1>8, <1>9 DEF WrittenAs

\* The bytes of a read are the first of what was unread.
LEMMA ReadBytes ==
    ASSUME NEW d \in Seq(Byte), NEW n \in 0 .. Len(d), NEW k \in 0 .. Len(d) - n
    PROVE  LET u == SubSeq(d, n + 1, Len(d))
               b == SubSeq(d, n + 1, n + k)
           IN  /\ b \in Seq(Byte) /\ Len(b) = k /\ b = SubSeq(u, 1, k)
               /\ \A i \in 1 .. k : u[i] = b[i]
  <1> DEFINE u == SubSeq(d, n + 1, Len(d))
             b == SubSeq(d, n + 1, n + k)
             c == SubSeq(u, 1, k)
  <1>1. Len(d) \in Nat /\ n \in Nat /\ k \in Nat /\ n + k <= Len(d)
    OBVIOUS
  <1>2. u \in Seq(Byte) /\ Len(u) = Len(d) - n /\ \A i \in 1 .. Len(d) - n : u[i] = d[n + i]
    BY RestOf
  <1>3. b \in Seq(Byte) /\ Len(b) = k /\ \A i \in 1 .. k : b[i] = d[n + i]
    BY <1>1
  <1> HIDE DEF u, b
  <1>4. c \in Seq(Byte) /\ Len(c) = k /\ \A i \in 1 .. k : c[i] = u[i]
    BY <1>1, <1>2
  <1> HIDE DEF c
  <1>5. ASSUME NEW i \in 1 .. k PROVE u[i] = b[i]
    <2>1. i \in 1 .. Len(d) - n
      BY <1>1
    <2> QED
      BY <1>2, <1>3, <2>1
  <1>6. \A i \in 1 .. Len(b) : b[i] = c[i]
    BY <1>3, <1>4, <1>5
  <1>7. b = c
    BY <1>3, <1>4, <1>6, SeqEqual
  <1> QED
    BY <1>3, <1>5, <1>7 DEF u, b, c

\* b are the bytes that the read r of u consumed.
BytesOf(b, r, u) ==
    /\ b \in Seq(Byte) /\ Len(b) = r.used /\ b = SubSeq(u, 1, r.used)
    /\ \A i \in 1 .. r.used : u[i] = b[i]

\* val is the number that the bytes b of a kind spell.
NumberOf(kind, val, b, impl) ==
    LET bits == IF kind = "varint" THEN IntBits ELSE LongBits
    IN  IF kind \in Formats
        THEN InFormat(val, kind, Len(b)) /\ WriteValue(val, kind, impl) = b
        ELSE /\ Fits(val, bits)
             /\ \/ ToTwosComplement(val, bits) = Sum(b, Len(b), "python")
                \/ impl = "rust" /\ Len(b) = ByteLimit(LongBits)

\* A number that is read is what its bytes spell.
LEMMA NumberOfBytes ==
    ASSUME NEW kind \in Numeric \cup Formats, NEW u \in Seq(Byte), NEW impl \in Impl,
           NEW r, IsOutcome(kind, u, impl, r), r.err = "none",
           NEW b, BytesOf(b, r, u)
    PROVE  NumberOf(kind, r.val, b, impl)
  <1>0. /\ b \in Seq(Byte) /\ Len(b) = r.used /\ b = SubSeq(u, 1, r.used)
        /\ \A i \in 1 .. r.used : u[i] = b[i]
    BY DEF BytesOf
  <1> DEFINE bits == IF kind = "varint" THEN IntBits ELSE LongBits
  <1>1. CASE kind \in Formats
    BY <1>0, <1>1, KindsDiffer, ValueRead DEF NumberOf
  <1>2. CASE kind \notin Formats
    <2>1. bits \in Nat \ {0} /\ bits <= LongBits /\ ByteLimit(bits) <= ByteLimit(LongBits)
      <3>1. LongBits \in Nat \ {0} /\ IntBits \in Nat \ {0} /\ IntBits <= LongBits
        BY Widths
      <3>2. ByteLimit(LongBits) \in Nat
        BY <3>1, LimitHolds
      <3>3. CASE kind = "varint"
        BY <3>1, <3>3, LimitGrows
      <3>4. CASE kind # "varint"
        <4>1. bits = LongBits
          BY <3>4
        <4> HIDE DEF bits
        <4> QED
          BY <3>1, <3>2, <4>1
      <3> QED
        BY <3>3, <3>4
    <2>2. r = Signed(ReadVaruint(u, bits, impl), bits)
      BY <1>2, KindsDiffer DEF Numeric, ReadVarint, ReadVarlong
    <2> HIDE DEF bits
    <2>3. /\ IsRead(r, u) /\ r.used <= ByteLimit(bits) /\ Fits(r.val, bits)
          /\ \/ ToTwosComplement(r.val, bits) = Sum(u, r.used, "python")
             \/ impl = "rust" /\ r.used >= ByteLimit(LongBits)
      BY <2>1, <2>2, SignedRead
    <2>4. r.used \in 0 .. Len(u) /\ r.used \in Nat
      BY <2>3 DEF IsRead
    <2>5. Sum(u, r.used, "python") = Sum(b, r.used, "python")
      <3> DEFINE k == r.used
      <3>1. k \in 0 .. Len(u) /\ k <= Len(b) /\ \A i \in 1 .. k : u[i] = b[i]
        BY <1>0, <2>4
      <3> HIDE DEF k
      <3>2. Sum(u, k, "python") = Sum(b, k, "python")
        BY <1>0, <3>1, SumOfPrefix
      <3> QED
        BY <3>2 DEF k
    <2>6. r.used >= ByteLimit(LongBits) => r.used = ByteLimit(LongBits)
      <3>1. ByteLimit(bits) \in Nat /\ ByteLimit(LongBits) \in Nat
        BY <2>1, LimitHolds, Widths
      <3> QED
        BY <2>1, <2>3, <2>4, <3>1
    <2> QED
      BY <1>0, <1>2, <2>3, <2>5, <2>6 DEF bits, NumberOf
  <1> QED
    BY <1>1, <1>2

-----------------------------------------------------------------------------
(* The invariant of a buffer: every value that was written stands, as its  *)
(* author's bytes, where its frame says, and the last read is what its     *)
(* reader gives of the bytes it began at.                                  *)

LastRead(l, d, impl) ==
    \/ l = NoRead
    \/ /\ l.from \in 0 .. Len(d)
       /\ \E r : /\ IsOutcome(l.kind, SubSeq(d, l.from + 1, Len(d)), impl, r)
                 /\ l.to = l.from + r.used /\ l.err = r.err /\ l.val = r.val

BufferInv ==
    /\ author \in Impl \cup {"network"} /\ reader \in Impl
    /\ data \in Seq(Byte)
    /\ pos \in 0 .. Len(data)
    /\ \A f \in frames : Placed(f, data, author)
    /\ LastRead(last, data, reader)

\* It holds of an empty buffer.
LEMMA InitBuffer == Init => BufferInv
  BY DEF Init, BufferInv, LastRead

\* What a writer writes is bytes.
LEMMA WrittenBytes ==
    ASSUME NEW kind, NEW val, NEW w, NEW who \in Impl, WrittenAs(kind, val, w, who)
    PROVE  w \in Seq(Byte) /\ kind \in Kinds \cup {"torn"}
  <1>0. kind \in Kinds \cup {"torn"}
    BY DEF WrittenAs, Kinds, Numeric
  <1>1. CASE val \in Int /\ Fits(val, IntBits) /\ w = WriteVarint(val)
    BY <1>0, <1>1, VarintBytes
  <1>2. CASE val \in Int /\ Fits(val, LongBits) /\ w = WriteVarlong(val)
    BY <1>0, <1>2, VarintBytes
  <1>3. CASE val \in Seq(Byte) /\ w = WriteBytearray(val)
    BY <1>0, <1>3, BytearrayBytes
  <1>4. CASE val \in Seq(Nat) /\ w = WriteAscii(val)
    BY <1>0, <1>4, AsciiBytes
  <1>5. CASE w = <<0>> \/ w = <<1>>
    <2>1. 0 \in Byte /\ 1 \in Byte
      BY Digits
    <2>2. <<0>> \in Seq(Byte) /\ <<1>> \in Seq(Byte)
      BY <2>1
    <2> QED
      BY <1>0, <1>5, <2>2
  <1>6. CASE val \in Int /\ Fits(val, IntBits) /\ w = <<1>> \o WriteVarint(val)
    <2>1. WriteVarint(val) \in Seq(Byte) /\ <<1>> \in Seq(Byte)
      BY <1>6, Digits, VarintBytes
    <2> QED
      BY <1>0, <1>6, <2>1
  <1>7. CASE /\ kind \in Formats /\ val \in Int /\ InFormat(val, kind, PackedSize(kind, who))
             /\ w = WriteValue(val, kind, who)
    <2> DEFINE size == PackedSize(kind, who)
               bits == size * ByteBits
               v == ToTwosComplement(val, bits)
    <2>1. size \in Nat \ {0}
      BY <1>7, Sizes
    <2>2. bits \in Nat \ {0} /\ 2 ^ bits = 2 ^ (ByteBits * size) /\ 2 ^ bits \in Nat \ {0}
      BY <2>1, Sizes, PowerType
    <2>3. w = BigEndian(v, size)
      BY <1>7 DEF WriteValue
    <2>4. IF kind = "ushort" THEN 0 <= val /\ val < 2 ^ bits ELSE Fits(val, bits)
      BY <1>7 DEF InFormat
    <2> HIDE DEF size, bits
    <2>5. v \in 0 .. 2 ^ bits - 1
      <3>1. CASE kind = "ushort"
        BY <1>7, <2>2, <2>4, <3>1 DEF ToTwosComplement
      <3>2. CASE kind # "ushort"
        BY <1>7, <2>2, <2>4, <3>2, ToAndFrom
      <3> QED
        BY <3>1, <3>2
    <2> HIDE DEF v
    <2>6. BigEndian(v, size) \in Seq(Byte)
      BY <2>1, <2>2, <2>5, SpelledBack
    <2> QED
      BY <1>0, <2>3, <2>6
  <1> QED
    BY <1>1, <1>2, <1>3, <1>4, <1>5, <1>6, <1>7 DEF WrittenAs

\* Writing a value keeps it.
LEMMA WriteKeeps ==
    ASSUME BufferInv, NEW kind, NEW val, NEW w, WrittenAs(kind, val, w, author),
           Write(kind, val, w)
    PROVE  BufferInv'
  <1>1. author \in Impl
    BY DEF Write
  <1>2. w \in Seq(Byte) /\ kind \in Kinds \cup {"torn"}
    BY <1>1, WrittenBytes
  <1>3. /\ data' = data \o w /\ last' = NoRead
        /\ author' = author /\ reader' = reader /\ pos' = pos
        /\ frames' = frames \cup {[kind |-> kind, val |-> val, from |-> Len(data),
                                   to |-> Len(data) + Len(w)]}
    BY DEF Write, Store
  <1>4. data \in Seq(Byte) /\ pos \in 0 .. Len(data)
    BY DEF BufferInv
  <1>5. data \o w \in Seq(Byte) /\ pos \in 0 .. Len(data \o w)
    BY <1>2, <1>4
  <1>6. ASSUME NEW f \in frames' PROVE Placed(f, data \o w, author)
    <2>1. CASE f \in frames
      <3>1. Placed(f, data, author)
        BY <2>1 DEF BufferInv
      <3> QED
        BY <1>2, <1>4, <3>1, PlacedLonger
    <2>2. CASE f \notin frames
      <3>1. f = [kind |-> kind, val |-> val, from |-> Len(data), to |-> Len(data) + Len(w)]
        BY <1>3, <2>2
      <3> QED
        BY <1>1, <1>2, <1>4, <3>1, PlacedNew
    <2> QED
      BY <2>1, <2>2
  <1> QED
    BY <1>3, <1>5, <1>6 DEF BufferInv, LastRead

\* A read keeps it.
LEMMA ReadKeeps ==
    ASSUME BufferInv, NEW kind, NEW r, IsOutcome(kind, unread, reader, r), Read(kind, r)
    PROVE  BufferInv'
  <1>1. data \in Seq(Byte) /\ pos \in 0 .. Len(data) /\ reader \in Impl
    BY DEF BufferInv
  <1>2. unread \in Seq(Byte) /\ Len(unread) = Len(data) - pos
    BY <1>1, RestOf DEF unread
  <1>3. IsRead(r, unread)
    BY <1>1, <1>2, OutcomeInStep
  <1>4. /\ pos' = pos + r.used /\ data' = data /\ frames' = frames
        /\ author' = author /\ reader' = reader
        /\ last' = [kind |-> kind, from |-> pos, to |-> pos + r.used, err |-> r.err, val |-> r.val]
    BY DEF Read
  <1>5. pos' \in 0 .. Len(data)
    <2>1. r.used \in 0 .. Len(data) - pos
      BY <1>2, <1>3 DEF IsRead
    <2> QED
      BY <1>1, <1>4, <2>1
  <1>6. /\ last'.kind = kind /\ last'.from = pos /\ last'.to = pos + r.used
        /\ last'.err = r.err /\ last'.val = r.val
    BY <1>4
  <1>7. LastRead(last', data, reader)
    BY <1>1, <1>6 DEF LastRead, unread
  <1> QED
    BY <1>1, <1>4, <1>5, <1>7 DEF BufferInv

\* Deleting what was read, or all, keeps it, and so does going back.
LEMMA ClearKeeps ==
    ASSUME BufferInv, ClearRead \/ ClearAll \/ Reset
    PROVE  BufferInv'
  <1>1. data \in Seq(Byte) /\ pos \in 0 .. Len(data) /\ reader \in Impl
    BY DEF BufferInv
  <1>2. CASE ClearRead
    <2>1. unread \in Seq(Byte) /\ Len(unread) = Len(data) - pos
      BY <1>1, RestOf DEF unread
    <2>2. /\ data' = unread /\ pos' = 0 /\ frames' = Shifted(pos) /\ last' = NoRead
          /\ author' = author /\ reader' = reader
      BY <1>2 DEF ClearRead
    <2>3. ASSUME NEW g \in Shifted(pos) PROVE Placed(g, unread, author)
      <3>1. PICK f \in frames :
                f.from >= pos /\ g = [f EXCEPT !.from = @ - pos, !.to = @ - pos]
        BY DEF Shifted
      <3>2. Placed(f, data, author)
        BY DEF BufferInv
      <3>3. Placed([f EXCEPT !.from = @ - pos, !.to = @ - pos], SubSeq(data, pos + 1, Len(data)), author)
        BY <1>1, <3>1, <3>2, PlacedShifted
      <3> QED
        BY <3>1, <3>3 DEF unread
    <2>4. pos' \in 0 .. Len(unread)
      BY <1>1, <2>1, <2>2
    <2> HIDE DEF unread
    <2> QED
      BY <2>1, <2>2, <2>3, <2>4 DEF BufferInv, LastRead
  <1>3. CASE ClearAll
    BY <1>3 DEF ClearAll, BufferInv, LastRead
  <1>4. CASE Reset
    <2>1. pos' \in 0 .. Len(data)
      BY <1>1, <1>4 DEF Reset
    <2> QED
      BY <1>4, <2>1 DEF Reset, BufferInv, LastRead
  <1> QED
    BY <1>2, <1>3, <1>4

\* Bytes that arrive in an empty buffer keep it.
LEMMA ArriveKeeps ==
    ASSUME BufferInv, NEW s \in Noise, Arrive(s)
    PROVE  BufferInv'
  <1>1. data \in Seq(Byte) /\ pos \in 0 .. Len(data) /\ s \in Seq(Byte)
    BY InputAssumption DEF BufferInv
  <1>2. /\ data' = data \o s /\ last' = NoRead /\ frames' = frames
        /\ author' = author /\ reader' = reader /\ pos' = pos
    BY DEF Arrive, Store
  <1>3. data \o s \in Seq(Byte) /\ pos \in 0 .. Len(data \o s)
    BY <1>1
  <1>4. \A f \in frames : Placed(f, data \o s, author)
    <2> SUFFICES ASSUME NEW f \in frames PROVE Placed(f, data \o s, author)
      OBVIOUS
    <2>1. Placed(f, data, author)
      BY DEF BufferInv
    <2> QED
      BY <1>1, <2>1, PlacedLonger
  <1> QED
    BY <1>2, <1>3, <1>4 DEF BufferInv, LastRead

\* Every step keeps it.
LEMMA NextBuffer ==
    ASSUME BufferInv, [Next]_vars
    PROVE  BufferInv'
  <1>0. Numbers \subseteq Int /\ Fixed \subseteq Int /\ Strings \subseteq Seq(Nat)
    BY InputAssumption
  <1>1. ASSUME NEW n \in Numbers, AddVarint(n) PROVE BufferInv'
    <2>1. WrittenAs("varint", n, WriteVarint(n), author)
      BY <1>0, <1>1 DEF AddVarint, WrittenAs
    <2> QED
      BY <1>1, <2>1, WriteKeeps DEF AddVarint
  <1>2. ASSUME NEW n \in Numbers, AddVarlong(n) PROVE BufferInv'
    <2>1. WrittenAs("varlong", n, WriteVarlong(n), author)
      BY <1>0, <1>2 DEF AddVarlong, WrittenAs
    <2> QED
      BY <1>2, <2>1, WriteKeeps DEF AddVarlong
  <1>3. ASSUME NEW n \in Numbers, AddOptional(n) PROVE BufferInv'
    <2>1. WrittenAs("optional", n, <<1>> \o WriteVarint(n), author)
      BY <1>0, <1>3 DEF AddOptional, WrittenAs
    <2> QED
      BY <1>3, <2>1, WriteKeeps DEF AddOptional
  <1>4. ASSUME NEW n \in Numbers, TornOptional(n) PROVE BufferInv'
    <2>1. WrittenAs("torn", None, <<1>>, author)
      BY DEF WrittenAs
    <2> QED
      BY <1>4, <2>1, WriteKeeps DEF TornOptional
  <1>5. ASSUME NEW n \in Fixed, NEW fmt \in Formats, AddValue(n, fmt) PROVE BufferInv'
    <2>1. WrittenAs(fmt, n, WriteValue(n, fmt, author), author)
      BY <1>0, <1>5 DEF AddValue, WrittenAs
    <2> QED
      BY <1>5, <2>1, WriteKeeps DEF AddValue
  <1>6. ASSUME NEW s \in Strings, Latin1(s) PROVE s \in Seq(Byte)
    <2>1. s \in Seq(Nat)
      BY <1>0
    <2> QED
      BY <1>6, <2>1 DEF Latin1
  <1>7. ASSUME NEW s \in Strings, AddBytearray(s) PROVE BufferInv'
    <2>1. WrittenAs("bytes", s, WriteBytearray(s), author)
      BY <1>6, <1>7 DEF AddBytearray, WrittenAs
    <2> QED
      BY <1>7, <2>1, WriteKeeps DEF AddBytearray
  <1>8. ASSUME NEW s \in Strings, AddAscii(s) PROVE BufferInv'
    <2>1. WrittenAs("ascii", s, WriteAscii(s), author)
      BY <1>0 DEF WrittenAs
    <2> QED
      BY <1>8, <2>1, WriteKeeps DEF AddAscii
  <1>9. ASSUME NEW s \in Strings, AddUtf(s) PROVE BufferInv'
    <2>1. WrittenAs("utf", s, WriteBytearray(s), author)
      BY <1>6, <1>9 DEF AddUtf, WrittenAs
    <2> QED
      BY <1>9, <2>1, WriteKeeps DEF AddUtf
  <1>10. ASSUME AddNothing PROVE BufferInv'
    <2>1. WrittenAs("optional", None, <<0>>, author)
      BY DEF WrittenAs
    <2> QED
      BY <1>10, <2>1, WriteKeeps DEF AddNothing
  <1>11. ASSUME GetVarint \/ GetVarlong \/ GetBytearray \/ GetAscii \/ GetUtf \/ GetOptional
         PROVE  BufferInv'
    <2>1. /\ IsOutcome("varint", unread, reader, ReadVarint(unread, reader))
          /\ IsOutcome("varlong", unread, reader, ReadVarlong(unread, reader))
          /\ IsOutcome("bytes", unread, reader, ReadBytearray(unread, reader))
          /\ IsOutcome("ascii", unread, reader, ReadAscii(unread))
          /\ IsOutcome("utf", unread, reader, ReadUtf(unread, reader))
          /\ IsOutcome("optional", unread, reader, ReadOptional(unread, reader))
      BY DEF IsOutcome
    <2> HIDE DEF unread
    <2> QED
      BY <1>11, <2>1, ReadKeeps
      DEF GetVarint, GetVarlong, GetBytearray, GetAscii, GetUtf, GetOptional
  <1>12. ASSUME NEW fmt \in Formats, GetValue(fmt) PROVE BufferInv'
    <2>1. IsOutcome(fmt, unread, reader, ReadValue(unread, fmt, reader))
      BY DEF IsOutcome
    <2> QED
      BY <1>12, <2>1, ReadKeeps DEF GetValue
  <1>13. ASSUME NEW n \in 0 .. 2, GetRaw(n) PROVE BufferInv'
    <2>1. IsOutcome("raw", unread, reader, Take(unread, n))
      BY <1>13 DEF GetRaw, IsOutcome
    <2> QED
      BY <1>13, <2>1, ReadKeeps DEF GetRaw
  <1>14. ASSUME NEW n \in 0 .. 2, GetRawRust(n) PROVE BufferInv'
    <2> DEFINE r == IF n > Len(unread) THEN Failed("eof", 0) ELSE Take(unread, n)
    <2>1. IsOutcome("raw", unread, reader, r)
      BY <1>14 DEF GetRawRust, IsOutcome
    <2>2. Read("raw", r)
      BY <1>14 DEF GetRawRust
    <2> HIDE DEF r
    <2> QED
      BY <2>1, <2>2, ReadKeeps
  <1>15. CASE UNCHANGED vars
    BY <1>15 DEF vars, BufferInv
  <1> QED
    BY <1>1, <1>2, <1>3, <1>4, <1>5, <1>7, <1>8, <1>9, <1>10, <1>11, <1>12, <1>13, <1>14, <1>15,
       ArriveKeeps, ClearKeeps
    DEF Next

-----------------------------------------------------------------------------
(* Theorems.                                                               *)

\* The inductive invariant holds: every value that was written stands in the
\* data where its frame says, and the last read is what its reader gives of the
\* bytes from where it began.
LEMMA BufferSafe == Spec => []BufferInv
  BY InitBuffer, NextBuffer, PTL DEF Spec

\* The last read, if there was one: its bytes, and what it gave.
LEMMA LastOutcome ==
    ASSUME BufferInv, last # NoRead
    PROVE  LET u == SubSeq(data, last.from + 1, Len(data))
           IN  /\ last.from \in 0 .. Len(data) /\ u \in Seq(Byte)
               /\ Len(u) = Len(data) - last.from
               /\ \A i \in 1 .. Len(u) : u[i] = data[last.from + i]
               /\ \E r : /\ IsOutcome(last.kind, u, reader, r)
                         /\ last.to = last.from + r.used
                         /\ last.err = r.err /\ last.val = r.val
                         /\ r.used \in 0 .. Len(data) - last.from
                         /\ last.to \in last.from .. Len(data)
  <1> DEFINE u == SubSeq(data, last.from + 1, Len(data))
  <1>1. /\ data \in Seq(Byte) /\ reader \in Impl /\ last.from \in 0 .. Len(data)
        /\ Len(data) \in Nat
    BY DEF BufferInv, LastRead
  <1>2. PICK r : /\ IsOutcome(last.kind, u, reader, r)
                 /\ last.to = last.from + r.used /\ last.err = r.err /\ last.val = r.val
    BY DEF BufferInv, LastRead
  <1>3. /\ u \in Seq(Byte) /\ Len(u) = Len(data) - last.from
        /\ \A i \in 1 .. Len(data) - last.from : u[i] = data[last.from + i]
    BY <1>1, RestOf
  <1> HIDE DEF u
  <1>4. r.used \in 0 .. Len(data) - last.from
    BY <1>1, <1>2, <1>3, OutcomeInStep DEF IsRead
  <1>5. last.to \in last.from .. Len(data)
    BY <1>1, <1>2, <1>4
  <1> QED
    BY <1>1, <1>2, <1>3, <1>4, <1>5 DEF u

\* The offsets of frames and of reads stay inside the buffer, and the position
\* with them, whatever is written, read, cleared or reset (buffer.py:40-120).
THEOREM BufferTypeOK == Spec => []TypeOK
  <1>1. BufferInv => TypeOK
    <2> SUFFICES ASSUME BufferInv PROVE TypeOK
      OBVIOUS
    <2>1. /\ author \in Impl \cup {"network"} /\ reader \in Impl
          /\ data \in Seq(Byte) /\ pos \in 0 .. Len(data)
      BY DEF BufferInv
    <2>2. ASSUME NEW f \in frames
          PROVE  /\ f.kind \in Kinds \cup {"torn"}
                 /\ f.from \in 0 .. Len(data) /\ f.to \in f.from .. Len(data)
      <3>1. Placed(f, data, author)
        BY DEF BufferInv
      <3> QED
        BY <2>1, <3>1, PlacedBegins DEF Placed
    <2>3. /\ last.kind \in Kinds \cup {"none"}
          /\ last.err \in Errors \cup {"none"}
          /\ last.from \in 0 .. Len(data) /\ last.to \in last.from .. Len(data)
      <3>1. CASE last = NoRead
        BY <2>1, <3>1 DEF NoRead
      <3>2. CASE last # NoRead
        <4> DEFINE u == SubSeq(data, last.from + 1, Len(data))
        <4>1. /\ last.from \in 0 .. Len(data) /\ u \in Seq(Byte)
              /\ \E r : /\ IsOutcome(last.kind, u, reader, r)
                        /\ last.err = r.err /\ last.to \in last.from .. Len(data)
          BY <3>2, LastOutcome
        <4> HIDE DEF u
        <4> QED
          BY <2>1, <4>1, OutcomeInStep
      <3> QED
        BY <3>1, <3>2
    <2> QED
      BY <2>1, <2>2, <2>3 DEF TypeOK
  <1> QED
    BY <1>1, BufferSafe, PTL

\* A read that was asked for a frame: the frame's bytes and what it gave of them.
LEMMA AskedOutcome ==
    ASSUME BufferInv, NEW f \in frames, AskedFor(f)
    PROVE  LET u == SubSeq(data, f.from + 1, Len(data))
           IN  /\ author \in Impl /\ reader \in Impl /\ u \in Seq(Byte)
               /\ \E r : \E w \in Seq(Byte) :
                     /\ WrittenAs(f.kind, f.val, w, author) /\ Begins(u, w)
                     /\ IsOutcome(f.kind, u, reader, r)
                     /\ f.to = f.from + Len(w) /\ last.to = f.from + r.used
                     /\ last.err = r.err /\ last.val = r.val
  <1> DEFINE u == SubSeq(data, f.from + 1, Len(data))
  <1>1. Placed(f, data, author) /\ data \in Seq(Byte) /\ reader \in Impl
    BY DEF BufferInv
  <1>2. last.kind = f.kind /\ last.from = f.from /\ author \in Impl
        /\ f.kind \in Kinds \cup {"torn"}
    BY <1>1 DEF AskedFor, Placed
  <1>3. last # NoRead
    BY <1>2 DEF NoRead, Kinds, Numeric, Formats
  <1>4. \E r : /\ IsOutcome(f.kind, u, reader, r)
               /\ last.to = f.from + r.used /\ last.err = r.err /\ last.val = r.val
    BY <1>2, <1>3, LastOutcome
  <1>5. /\ u \in Seq(Byte)
        /\ \E w \in Seq(Byte) : /\ WrittenAs(f.kind, f.val, w, author) /\ Begins(u, w)
                                /\ f.to = f.from + Len(w)
    BY <1>1, PlacedBegins
  <1> HIDE DEF u
  <1> QED
    BY <1>1, <1>2, <1>4, <1>5 DEF u

\* What was written is read back, of all widths, in all pairs of
\* implementations, whatever was read, cleared or reset before
\* (base_io.py, io.rs, buffer.py, buffer.rs).
THEOREM WrittenIsReadBack == Spec => []RoundTrip
  <1>1. BufferInv => RoundTrip
    <2> SUFFICES ASSUME BufferInv, NEW f \in frames, AskedFor(f), ~Disputed(f)
                 PROVE  last.err = "none" /\ last.val = f.val /\ last.to = f.to
      BY DEF RoundTrip
    <2> DEFINE u == SubSeq(data, f.from + 1, Len(data))
    <2>1. author \in Impl /\ reader \in Impl /\ u \in Seq(Byte)
      BY AskedOutcome
    <2>2. PICK r : \E w \in Seq(Byte) :
              /\ WrittenAs(f.kind, f.val, w, author) /\ Begins(u, w)
              /\ IsOutcome(f.kind, u, reader, r)
              /\ f.to = f.from + Len(w) /\ last.to = f.from + r.used
              /\ last.err = r.err /\ last.val = r.val
      BY AskedOutcome
    <2>5. PICK w \in Seq(Byte) :
              /\ WrittenAs(f.kind, f.val, w, author) /\ Begins(u, w)
              /\ IsOutcome(f.kind, u, reader, r)
              /\ f.to = f.from + Len(w) /\ last.to = f.from + r.used
              /\ last.err = r.err /\ last.val = r.val
      BY <2>2
    <2>3. ~Contested(f.kind, f.val, author, reader)
      BY DEF Contested, Disputed
    <2> HIDE DEF u
    <2>4. r = Done(f.val, Len(w))
      BY <2>1, <2>3, <2>5, ValueReadBack
    <2> QED
      BY <2>4, <2>5 DEF Done
  <1> QED
    BY <1>1, BufferSafe, PTL

\* A number that is read is in the range of its type and is the number its
\* bytes spell, of any bytes at all (base_io.py:452-481, io.rs:60-110).
THEOREM NumbersAreExact == Spec => []NumbersExact
  <1>1. BufferInv => NumbersExact
    <2> SUFFICES ASSUME BufferInv, last.kind \in Numeric \cup Formats, last.err = "none"
                 PROVE  LET bits == IF last.kind = "varint" THEN IntBits ELSE LongBits
                            bytes == SubSeq(data, last.from + 1, last.to)
                        IN  IF last.kind \in Formats
                            THEN /\ InFormat(last.val, last.kind, Len(bytes))
                                 /\ WriteValue(last.val, last.kind, reader) = bytes
                            ELSE /\ Fits(last.val, bits)
                                 /\ \/ ToTwosComplement(last.val, bits) =
                                           Sum(bytes, Len(bytes), "python")
                                    \/ reader = "rust" /\ Len(bytes) = ByteLimit(LongBits)
      BY DEF NumbersExact
    <2> DEFINE u == SubSeq(data, last.from + 1, Len(data))
               b == SubSeq(data, last.from + 1, last.to)
    <2>1. data \in Seq(Byte) /\ reader \in Impl
      BY DEF BufferInv
    <2>2. last # NoRead
      BY DEF NoRead, Numeric, Formats
    <2>3. last.from \in 0 .. Len(data) /\ u \in Seq(Byte)
      BY <2>2, LastOutcome
    <2>4. PICK r : /\ IsOutcome(last.kind, u, reader, r)
                   /\ last.to = last.from + r.used
                   /\ last.err = r.err /\ last.val = r.val
                   /\ r.used \in 0 .. Len(data) - last.from
      BY <2>2, LastOutcome
    <2>5. /\ b \in Seq(Byte) /\ Len(b) = r.used /\ b = SubSeq(u, 1, r.used)
          /\ \A i \in 1 .. r.used : u[i] = b[i]
      <3> DEFINE k == r.used
                 n == last.from
      <3>1. n \in 0 .. Len(data) /\ k \in 0 .. Len(data) - n /\ last.to = n + k
        BY <2>3, <2>4
      <3> HIDE DEF k, n
      <3>2. LET v == SubSeq(data, n + 1, Len(data))
                c == SubSeq(data, n + 1, n + k)
            IN  /\ c \in Seq(Byte) /\ Len(c) = k /\ c = SubSeq(v, 1, k)
                /\ \A i \in 1 .. k : v[i] = c[i]
        BY <2>1, <3>1, ReadBytes
      <3> QED
        BY <3>1, <3>2 DEF n, k
    <2> HIDE DEF u, b
    <2>6. BytesOf(b, r, u)
      BY <2>5 DEF BytesOf
    <2>7. NumberOf(last.kind, r.val, b, reader)
      <3> DEFINE kind == last.kind
      <3>1. kind \in Numeric \cup Formats /\ IsOutcome(kind, u, reader, r) /\ r.err = "none"
        BY <2>4
      <3> HIDE DEF kind
      <3>2. u \in Seq(Byte)
        BY <2>3
      <3>3. NumberOf(kind, r.val, b, reader)
        BY <2>1, <2>6, <3>1, <3>2, NumberOfBytes
      <3> QED
        BY <3>3 DEF kind
    <2> QED
      BY <2>4, <2>7 DEF b, NumberOf
  <1> QED
    BY <1>1, BufferSafe, PTL

\* A refusal consumes what its docstring says, of any bytes and of every value
\* that was written (base_io.py:739-744, buffer.py:57-61).
THEOREM RefusalsInStep == Spec => []RefusalInStep
  <1>1. BufferInv => RefusalInStep
    <2> SUFFICES ASSUME BufferInv PROVE RefusalInStep
      OBVIOUS
    <2>1. CASE last = NoRead
      BY <2>1 DEF NoRead, RefusalInStep
    <2>2. CASE last # NoRead
      <3> DEFINE u == SubSeq(data, last.from + 1, Len(data))
      <3>1. /\ last.from \in 0 .. Len(data) /\ u \in Seq(Byte)
            /\ Len(u) = Len(data) - last.from
            /\ \A i \in 1 .. Len(u) : u[i] = data[last.from + i]
        BY <2>2, LastOutcome
      <3>2. PICK r : /\ IsOutcome(last.kind, u, reader, r)
                     /\ last.to = last.from + r.used
                     /\ last.err = r.err /\ last.val = r.val
                     /\ r.used \in 0 .. Len(data) - last.from
        BY <2>2, LastOutcome
      <3>3. reader \in Impl /\ Len(data) \in Nat
        BY DEF BufferInv
      <3> HIDE DEF u
      <3>4. /\ last.kind # "raw" => InStep(r, u)
            /\ last.kind = "raw" => r.err \in {"none", "eof"}
            /\ last.kind = "raw" /\ reader = "python" /\ r.err = "eof" => r.used = Len(u)
            /\ r.err \in TextErrors => last.kind = "utf"
        <4>1. u \in Seq(Byte) /\ reader \in Impl /\ IsOutcome(last.kind, u, reader, r)
          BY <3>1, <3>2, <3>3
        <4> DEFINE kind == last.kind
        <4>2. IsOutcome(kind, u, reader, r)
          BY <4>1
        <4> HIDE DEF kind
        <4>3. kind # "raw" => InStep(r, u)
          BY <4>1, <4>2, OutcomeInStep
        <4>4. kind = "raw" => r.err \in {"none", "eof"}
          BY <4>1, <4>2, OutcomeInStep
        <4>5. ASSUME kind = "raw", reader = "python", r.err = "eof"
              PROVE  r.used = Len(u)
          BY <4>1, <4>2, <4>5, RawInStep
        <4>6. r.err \in TextErrors => kind = "utf"
          BY <4>1, <4>2, OutcomeInStep
        <4> QED
          BY <4>3, <4>4, <4>5, <4>6 DEF kind
      <3>5. last.err = "eof" /\ (last.kind # "raw" \/ reader = "python") => last.to = Len(data)
        <4>1. r.err = "eof" /\ (last.kind # "raw" \/ reader = "python") => r.used = Len(u)
          BY <3>4 DEF InStep
        <4> QED
          BY <3>1, <3>2, <3>3, <4>1
      <3>6. ASSUME last.err \in {"chars", "encoding"}, NEW f \in frames, AskedFor(f)
            PROVE  last.to = f.to
        <4> DEFINE v == SubSeq(data, f.from + 1, Len(data))
        <4>1. f.kind = "utf"
          BY <3>2, <3>4, <3>6 DEF AskedFor, TextErrors
        <4>2. author \in Impl /\ v \in Seq(Byte)
          BY <3>6, AskedOutcome
        <4>7. PICK x : \E w \in Seq(Byte) :
                  /\ WrittenAs(f.kind, f.val, w, author) /\ Begins(v, w)
                  /\ IsOutcome(f.kind, v, reader, x)
                  /\ f.to = f.from + Len(w) /\ last.to = f.from + x.used
          BY <3>6, AskedOutcome
        <4>3. PICK w \in Seq(Byte) :
                  /\ WrittenAs(f.kind, f.val, w, author) /\ Begins(v, w)
                  /\ IsOutcome(f.kind, v, reader, x)
                  /\ f.to = f.from + Len(w) /\ last.to = f.from + x.used
          BY <4>7
        <4> HIDE DEF v
        <4>4. x = ReadUtf(v, reader) /\ WrittenAs("utf", f.val, w, author)
          BY <4>1, <4>3, KindsDiffer
        <4>5. x = IF Counted(f.val, reader) > MaxChars THEN Failed("chars", Len(w))
                  ELSE Done(f.val, Len(w))
          BY <3>3, <4>2, <4>3, <4>4, TextBack
        <4>6. x.used = Len(w)
          BY <4>5 DEF Failed, Done
        <4> QED
          BY <4>3, <4>6
      <3>7. ASSUME last.err \in {"range", "long", "negative", "limit"}
            PROVE  /\ last.to - last.from <= ByteLimit(LongBits) + 1
                   /\ \A i \in last.from + 2 .. last.to - 1 : More(data[i])
        <4>1. /\ r.used <= ByteLimit(LongBits) + 1
              /\ \A i \in 2 .. r.used - 1 : More(u[i])
          BY <3>2, <3>4, <3>7 DEF InStep
        <4>2. last.to - last.from = r.used
          BY <3>1, <3>2, <3>3
        <4>3. ASSUME NEW i \in last.from + 2 .. last.to - 1 PROVE More(data[i])
          <5> DEFINE j == i - last.from
          <5>0. /\ last.from \in Nat /\ Len(u) \in Nat /\ r.used \in 0 .. Len(u)
                /\ i \in last.from + 2 .. (last.from + r.used) - 1
            BY <3>1, <3>2, <3>3
          <5>1. j \in 2 .. r.used - 1 /\ j \in 1 .. Len(u) /\ last.from + j = i
            BY <5>0, Between
          <5> HIDE DEF j
          <5>2. More(u[j])
            BY <4>1, <5>1
          <5>3. u[j] = data[last.from + j]
            BY <3>1, <5>1
          <5> QED
            BY <5>1, <5>2, <5>3
        <4> QED
          BY <4>1, <4>2, <4>3
      <3> QED
        BY <3>5, <3>6, <3>7 DEF RefusalInStep
    <2> QED
      BY <2>1, <2>2
  <1> QED
    BY <1>1, BufferSafe, PTL
=============================================================================
