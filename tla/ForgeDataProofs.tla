-------------------------- MODULE ForgeDataProofs --------------------------
(***************************************************************************)
(* Proofs about the mod list of a Forge server, for all widths of bytes    *)
(* and characters and every content, cut anywhere.                         *)
(***************************************************************************)
EXTENDS ForgeData, FiniteSetTheorems, SequenceTheorems, WellFoundedInduction, TLAPS

-----------------------------------------------------------------------------
(* Induction over an interval, for sets in the place of predicates.        *)

\* A set of naturals that is not empty has a least element.
LEMMA LeastNat ==
    ASSUME NEW S \in SUBSET Nat, S # {}
    PROVE  \E m \in S : \A x \in S : m <= x
  <1>1. IsWellFoundedOn(OpToRel(<, Nat), Nat)
    BY NatLessThanWellFounded
  <1>2. PICK m \in S : \A y \in S : <<y, m>> \notin OpToRel(<, Nat)
    BY <1>1, WFMin
  <1>3. \A y \in S : ~(y < m)
    BY <1>2 DEF OpToRel
  <1> QED
    BY <1>3

\* A set that has 0 and, with each number below n, the next one has them all.
LEMMA UpTo ==
    ASSUME NEW n \in Nat, NEW T, 0 \in T,
           \A i \in 1 .. n : i - 1 \in T => i \in T
    PROVE  0 .. n \subseteq T
  <1> DEFINE Missing == {i \in 0 .. n : i \notin T}
  <1> SUFFICES ASSUME Missing # {} PROVE FALSE
    OBVIOUS
  <1>0. Missing \in SUBSET Nat
    OBVIOUS
  <1>1. PICK m \in Missing : \A x \in Missing : m <= x
    <2> HIDE DEF Missing
    <2> QED
      BY <1>0, LeastNat
  <1>2. m \in 1 .. n /\ m - 1 \in 0 .. n
    BY <1>1
  <1>3. m - 1 \in T
    BY <1>1, <1>2
  <1> QED
    BY <1>1, <1>2, <1>3

\* A function may be defined by its value at 0 and a step.
Steps(n, V) == [(1 .. n) \X V -> V]
IsRun(f, n, V, a, step) ==
    /\ f \in [0 .. n -> V]
    /\ f[0] = a /\ \A i \in 1 .. n : f[i] = step[<<i, f[i - 1]>>]

\* There is such a function for every step: the recursions of Char and
\* FlattenSeq are defined by their equations.
LEMMA Recursion ==
    ASSUME NEW n \in Nat, NEW V, NEW a \in V, NEW step \in Steps(n, V)
    PROVE  \E f : IsRun(f, n, V, a, step)
  <1> DEFINE Partial(m, f) ==
                 f[0] = a /\ \A i \in 1 .. m : f[i] = step[<<i, f[i - 1]>>]
             T == {m \in 0 .. n : \E f \in [0 .. m -> V] : Partial(m, f)}
  <1>1. 0 \in T
    <2> DEFINE f == [i \in 0 .. 0 |-> a]
    <2>1. f \in [0 .. 0 -> V] /\ Partial(0, f)
      OBVIOUS
    <2> HIDE DEF f
    <2> QED
      BY <2>1
  <1>2. ASSUME NEW m \in 1 .. n, m - 1 \in T PROVE m \in T
    <2>1. PICK f \in [0 .. m - 1 -> V] : Partial(m - 1, f)
      BY <1>2
    <2> DEFINE g == [i \in 0 .. m |-> IF i = m THEN step[<<m, f[m - 1]>>] ELSE f[i]]
    <2>2. m - 1 \in 0 .. m - 1 /\ f[m - 1] \in V
      OBVIOUS
    <2>3. step[<<m, f[m - 1]>>] \in V
      BY <2>2 DEF Steps
    <2>4. g \in [0 .. m -> V]
      BY <2>3
    <2>5. ASSUME NEW i \in 1 .. m PROVE g[i] = step[<<i, g[i - 1]>>]
      <3>1. g[i - 1] = f[i - 1]
        OBVIOUS
      <3>2. CASE i = m
        <4>1. g[m] = step[<<m, f[m - 1]>>]
          OBVIOUS
        <4>2. g[m - 1] = f[m - 1]
          BY <3>1, <3>2
        <4> HIDE DEF g
        <4> QED
          BY <3>2, <4>1, <4>2
      <3>3. CASE i # m
        BY <2>1, <3>1, <3>3
      <3> QED
        BY <3>2, <3>3
    <2>6. g[0] = a
      BY <2>1
    <2> HIDE DEF g
    <2> QED
      BY <2>4, <2>5, <2>6
  <1>3. n \in T
    <2> HIDE DEF T
    <2> QED
      BY <1>1, <1>2, UpTo
  <1> QED
    BY <1>3 DEF IsRun

-----------------------------------------------------------------------------
(* Division and powers of two.                                             *)

\* A number is its quotient and its remainder.
LEMMA Division ==
    ASSUME NEW a \in Int, NEW b \in Int, b > 0
    PROVE  a = b * (a \div b) + (a % b)
  OBVIOUS

\* They are the remainder below the divisor and the quotient.
LEMMA DivMod ==
    ASSUME NEW a \in Nat, NEW b \in Nat \ {0}
    PROVE  /\ a = b * (a \div b) + (a % b)
           /\ a % b \in 0 .. b - 1 /\ a % b \in Nat
           /\ a \div b \in Nat
  <1>1. a \in Int /\ b \in Int /\ b > 0
    OBVIOUS
  <1>2. a = b * (a \div b) + (a % b)
    BY <1>1, Division
  <1>3. a % b \in 0 .. b - 1
    OBVIOUS
  <1>4. a \div b \in Nat
    OBVIOUS
  <1> QED
    BY <1>2, <1>3, <1>4

\* And of no other two.
LEMMA DivModUnique ==
    ASSUME NEW b \in Nat \ {0}, NEW q \in Nat, NEW r \in 0 .. b - 1
    PROVE  (b * q + r) \div b = q /\ (b * q + r) % b = r
  OBVIOUS

\* Digits in base b below c blocks make a number below b * c.
LEMMA DigitBound ==
    ASSUME NEW b \in Nat \ {0}, NEW c \in Nat \ {0}, NEW r \in 0 .. b - 1, NEW s \in 0 .. c - 1
    PROVE  b * s + r \in 0 .. b * c - 1
  <1>1. b * s <= b * (c - 1)
    OBVIOUS
  <1>2. b * (c - 1) = b * c - b
    OBVIOUS
  <1>3. b * s \in Nat
    OBVIOUS
  <1> QED
    BY <1>1, <1>2, <1>3

\* Dividing by b and then by c is dividing by b * c, and the remainder is the
\* remainder of the first division and, above it, that of the second.
LEMMA TwoDivisions ==
    ASSUME NEW b \in Nat \ {0}, NEW c \in Nat \ {0},
           NEW r \in 0 .. b - 1, NEW qq \in Nat, NEW rr \in 0 .. c - 1
    PROVE  /\ b * c \in Nat \ {0} /\ b * rr + r \in 0 .. b * c - 1
           /\ b * (c * qq + rr) + r = (b * c) * qq + (b * rr + r)
  <1>1. b * c \in Nat \ {0}
    OBVIOUS
  <1>2. b * (c * qq + rr) + r = (b * c) * qq + (b * rr + r)
    OBVIOUS
  <1>3. b * rr + r \in 0 .. b * c - 1
    BY DigitBound
  <1> QED
    BY <1>1, <1>2, <1>3

\* A smaller number divided is 0, and 0 divided is a smaller number.
LEMMA DivIsZero ==
    ASSUME NEW a \in Nat, NEW b \in Nat \ {0}
    PROVE  (a \div b = 0 <=> a < b) /\ (a < b => a % b = a)
  <1>1. a = b * (a \div b) + (a % b) /\ a % b \in 0 .. b - 1 /\ a \div b \in Nat
    BY DivMod
  <1>2. CASE a < b
    <2>1. a = b * 0 + a /\ a \in 0 .. b - 1
      BY <1>2
    <2> QED
      BY <1>2, <2>1, DivModUnique
  <1>3. CASE a \div b = 0
    BY <1>1, <1>3
  <1> QED
    BY <1>2, <1>3

\* There are n numbers from 1 to n.
LEMMA CountTo ==
    ASSUME NEW n \in Nat
    PROVE  IsFiniteSet(1 .. n) /\ Cardinality(1 .. n) = n
  BY FS_Interval

\* The subsets of two disjoint sets together are the pairs of their subsets.
LEMMA PowerOfSum ==
    ASSUME NEW m \in Nat, NEW n \in Nat
    PROVE  2 ^ (m + n) = 2 ^ m * 2 ^ n
  <1> DEFINE A == 1 .. m
             B == m + 1 .. m + n
             C == 1 .. m + n
             f == [X \in SUBSET C |-> <<X \cap A, X \cap B>>]
  <1>1. /\ IsFiniteSet(A) /\ Cardinality(A) = m
        /\ IsFiniteSet(B) /\ Cardinality(B) = n
        /\ IsFiniteSet(C) /\ Cardinality(C) = m + n
    <2>1. IsFiniteSet(A) /\ Cardinality(A) = m
      BY FS_Interval
    <2>2. IsFiniteSet(B) /\ Cardinality(B) = n
      BY FS_Interval
    <2>3. IsFiniteSet(C) /\ Cardinality(C) = m + n
      <3>1. m + n \in Nat
        OBVIOUS
      <3> QED
        BY <3>1, CountTo
    <2> QED
      BY <2>1, <2>2, <2>3
  <1>2. C = A \cup B /\ A \cap B = {}
    OBVIOUS
  <1> HIDE DEF A, B, C
  <1>3. /\ IsFiniteSet(SUBSET A) /\ Cardinality(SUBSET A) = 2 ^ m
        /\ IsFiniteSet(SUBSET B) /\ Cardinality(SUBSET B) = 2 ^ n
        /\ IsFiniteSet(SUBSET C) /\ Cardinality(SUBSET C) = 2 ^ (m + n)
    BY <1>1, FS_SUBSET
  <1>4. Cardinality((SUBSET A) \X (SUBSET B)) = 2 ^ m * 2 ^ n
    <2>1. Cardinality((SUBSET A) \X (SUBSET B)) = Cardinality(SUBSET A) * Cardinality(SUBSET B)
      BY <1>3, FS_Product
    <2> QED
      BY <1>3, <2>1
  <1>5. f \in Bijection(SUBSET C, (SUBSET A) \X (SUBSET B))
    <2>1. f \in [SUBSET C -> (SUBSET A) \X (SUBSET B)]
      OBVIOUS
    <2>2. ASSUME NEW X \in SUBSET C, NEW Y \in SUBSET C, f[X] = f[Y]
          PROVE  X = Y
      <3>1. X \cap A = Y \cap A /\ X \cap B = Y \cap B
        BY <2>2
      <3> QED
        BY <1>2, <3>1
    <2>3. ASSUME NEW t \in (SUBSET A) \X (SUBSET B)
          PROVE  \E X \in SUBSET C : f[X] = t
      <3> DEFINE X == t[1] \cup t[2]
      <3>1. t = <<t[1], t[2]>> /\ t[1] \in SUBSET A /\ t[2] \in SUBSET B
        OBVIOUS
      <3>2. X \in SUBSET C /\ X \cap A = t[1] /\ X \cap B = t[2]
        BY <1>2, <3>1
      <3> HIDE DEF X
      <3>3. f[X] = t
        BY <3>1, <3>2
      <3> QED
        BY <3>2, <3>3
    <2> QED
      BY <2>1, <2>2, <2>3 DEF Bijection, Injection, Surjection, IsInjective
  <1>6. Cardinality((SUBSET A) \X (SUBSET B)) = Cardinality(SUBSET C)
    BY <1>3, <1>5, FS_Bijection DEF ExistsBijection
  <1> QED
    BY <1>3, <1>4, <1>6

\* A power of two is at least 1 and grows with its exponent.
LEMMA PowerType ==
    ASSUME NEW n \in Nat
    PROVE  2 ^ n \in Nat \ {0}
  <1>1. IsFiniteSet(1 .. n) /\ Cardinality(1 .. n) = n
    BY CountTo
  <1>2. IsFiniteSet(SUBSET (1 .. n)) /\ Cardinality(SUBSET (1 .. n)) = 2 ^ n
    BY <1>1, FS_SUBSET
  <1>3. 2 ^ n \in Nat
    BY <1>2, FS_CardinalityType
  <1>4. {} \in SUBSET (1 .. n)
    OBVIOUS
  <1>5. 2 ^ n # 0
    BY <1>2, <1>4, FS_EmptySet
  <1> QED
    BY <1>3, <1>5

-----------------------------------------------------------------------------
(* Flattened sequences: FlattenSeq by its two equations.                   *)

\* The flattened first elements of s, one more at each step.
FlatRun(F, s, V) ==
    /\ F \in [0 .. Len(s) -> Seq(V)]
    /\ F[0] = << >> /\ \A i \in 1 .. Len(s) : F[i] = F[i - 1] \o s[i]

\* Nothing put before a sequence.
LEMMA NothingBefore ==
    ASSUME NEW V, NEW w \in Seq(V)
    PROVE  << >> \o w = w
  BY ConcatEmptySeq

\* FlattenSeq ends where they end.
LEMMA FlatOf ==
    ASSUME NEW V, NEW s \in Seq(Seq(V))
    PROVE  \E F : FlatRun(F, s, V) /\ FlattenSeq(s) = F[Len(s)]
  <1> DEFINE n == Len(s)
             W == Seq(V)
             step == [x \in (1 .. n) \X W |-> x[2] \o s[x[1]]]
  <1>1. n \in Nat /\ << >> \in W /\ \A i \in 1 .. n : s[i] \in Seq(V)
    OBVIOUS
  <1>2. step \in Steps(n, W)
    <2>1. ASSUME NEW i \in 1 .. n, NEW w \in W PROVE w \o s[i] \in W
      <3>1. w \in Seq(V) /\ s[i] \in Seq(V)
        BY <1>1
      <3> QED
        BY <3>1, ConcatProperties
    <2> HIDE DEF W
    <2> QED
      BY <2>1 DEF Steps
  <1>3. PICK F : IsRun(F, n, W, << >>, step)
    <2> HIDE DEF n, W, step
    <2> QED
      BY <1>1, <1>2, Recursion
  <1>4. FlatRun(F, s, V)
    <2>1. F \in [0 .. n -> W] /\ F[0] = << >>
      BY <1>3 DEF IsRun
    <2>2. ASSUME NEW i \in 1 .. n PROVE F[i] = F[i - 1] \o s[i]
      <3>1. i - 1 \in 0 .. n
        BY <1>1
      <3>2. F[i] = step[<<i, F[i - 1]>>]
        BY <1>3 DEF IsRun
      <3>3. <<i, F[i - 1]>> \in (1 .. n) \X W
        BY <2>1, <3>1
      <3> HIDE DEF W
      <3> QED
        BY <3>2, <3>3
    <2> QED
      BY <2>1, <2>2 DEF FlatRun
  <1>5. CASE n = 0
    <2>1. s = << >> /\ FlattenSeq(s) = s
      BY <1>5 DEF FlattenSeq
    <2> QED
      BY <1>4, <1>5, <2>1 DEF FlatRun
  <1>6. CASE n # 0
    <2> DEFINE Is(f) == f = [i \in 1 .. n |-> IF i = 1 THEN s[i] ELSE f[i - 1] \o s[i]]
               G == [i \in 1 .. n |-> F[i]]
    <2>1. Is(G)
      <3>1. ASSUME NEW i \in 1 .. n PROVE F[i] = IF i = 1 THEN s[i] ELSE G[i - 1] \o s[i]
        <4>1. F[i] = F[i - 1] \o s[i] /\ F[0] = << >> /\ s[i] \in Seq(V)
          BY <1>1, <1>4 DEF FlatRun
        <4>2. CASE i = 1
          <5>1. F[i - 1] = << >>
            BY <4>1, <4>2
          <5>2. << >> \o s[i] = s[i]
            BY <4>1, NothingBefore
          <5> QED
            BY <4>1, <4>2, <5>1, <5>2
        <4>3. CASE i # 1
          <5>1. i - 1 \in 1 .. n
            BY <4>3
          <5>2. G[i - 1] = F[i - 1]
            BY <5>1
          <5> QED
            BY <4>1, <4>3, <5>2
        <4> QED
          BY <4>2, <4>3
      <3> QED
        BY <3>1
    <2> DEFINE g == CHOOSE f : Is(f)
    <2>2. Is(g)
      <3> HIDE DEF Is, G
      <3> QED
        BY <2>1
    <2>3. FlattenSeq(s) = g[n]
      BY <1>6 DEF FlattenSeq
    <2> HIDE DEF g
    <2> DEFINE T == {i \in 0 .. n : i = 0 \/ g[i] = F[i]}
    <2>4. 0 \in T
      BY <1>1
    <2>5. ASSUME NEW i \in 1 .. n, i - 1 \in T PROVE i \in T
      <3>1. g[i] = IF i = 1 THEN s[i] ELSE g[i - 1] \o s[i]
        BY <2>2
      <3>2. F[i] = F[i - 1] \o s[i] /\ F[0] = << >> /\ s[i] \in Seq(V)
        BY <1>1, <1>4 DEF FlatRun
      <3>3. CASE i = 1
        <4>1. F[i - 1] = << >> /\ g[i] = s[i]
          BY <3>1, <3>2, <3>3
        <4>2. << >> \o s[i] = s[i]
          BY <3>2, NothingBefore
        <4>3. g[i] = F[i]
          BY <3>2, <4>1, <4>2
        <4> QED
          BY <4>3
      <3>4. CASE i # 1
        <4>1. g[i - 1] = F[i - 1]
          BY <2>5, <3>4
        <4>2. g[i] = F[i]
          BY <3>1, <3>2, <3>4, <4>1
        <4> QED
          BY <4>2
      <3> QED
        BY <3>3, <3>4
    <2>6. 0 .. n \subseteq T
      <3> HIDE DEF T, n
      <3> QED
        BY <1>1, <2>4, <2>5, UpTo
    <2>7. n \in 1 .. n /\ n \in T
      BY <1>1, <1>6, <2>6
    <2>8. g[n] = F[n]
      BY <1>6, <2>7
    <2> QED
      BY <1>4, <2>3, <2>8
  <1> QED
    BY <1>5, <1>6

\* s stands at the beginning of t.
Begins(s, t) == Len(s) <= Len(t) /\ \A q \in 1 .. Len(s) : t[q] = s[q]

\* Where two sequences are the same, so is what was flattened so far.
LEMMA FlatAlike ==
    ASSUME NEW V, NEW s \in Seq(Seq(V)), NEW t \in Seq(Seq(V)), Begins(s, t),
           NEW F, NEW G, FlatRun(F, s, V), FlatRun(G, t, V)
    PROVE  F[Len(s)] = G[Len(s)]
  <1> DEFINE n == Len(s)
             T == {i \in 0 .. n : F[i] = G[i]}
  <1>1. n \in Nat /\ \A i \in 1 .. n : i \in 1 .. Len(t)
    BY DEF Begins
  <1>2. 0 \in T
    BY <1>1 DEF FlatRun
  <1>3. ASSUME NEW i \in 1 .. n, i - 1 \in T PROVE i \in T
    <2>1. F[i - 1] = G[i - 1]
      BY <1>3
    <2>2. F[i] = F[i - 1] \o s[i] /\ G[i] = G[i - 1] \o t[i] /\ s[i] = t[i]
      BY <1>1 DEF FlatRun, Begins
    <2>3. F[i] = G[i]
      BY <2>1, <2>2
    <2> QED
      BY <2>3
  <1>4. 0 .. n \subseteq T
    <2> HIDE DEF T, n
    <2> QED
      BY <1>1, <1>2, <1>3, UpTo
  <1> QED
    BY <1>1, <1>4

\* A flattened sequence, and one with one element more.
LEMMA Flattened ==
    ASSUME NEW V, NEW s \in Seq(Seq(V))
    PROVE  /\ FlattenSeq(s) \in Seq(V)
           /\ Len(s) = 0 => FlattenSeq(s) = << >>
           /\ \A t \in Seq(V) : FlattenSeq(Append(s, t)) = FlattenSeq(s) \o t
  <1>1. PICK F : FlatRun(F, s, V) /\ FlattenSeq(s) = F[Len(s)]
    BY FlatOf
  <1>2. Len(s) \in 0 .. Len(s)
    OBVIOUS
  <1>3. FlattenSeq(s) \in Seq(V) /\ (Len(s) = 0 => FlattenSeq(s) = << >>)
    BY <1>1, <1>2 DEF FlatRun
  <1>4. ASSUME NEW t \in Seq(V) PROVE FlattenSeq(Append(s, t)) = FlattenSeq(s) \o t
    <2> DEFINE u == Append(s, t)
    <2>1. /\ u \in Seq(Seq(V)) /\ Len(u) = Len(s) + 1 /\ u[Len(u)] = t
          /\ \A i \in 1 .. Len(s) : s[i] = u[i]
      <3> DEFINE W == Seq(V)
      <3>1. s \in Seq(W) /\ t \in W
        OBVIOUS
      <3> HIDE DEF W
      <3>2. /\ u \in Seq(W) /\ Len(u) = Len(s) + 1 /\ u[Len(u)] = t
            /\ \A i \in 1 .. Len(s) : s[i] = u[i]
        BY <3>1, AppendProperties
      <3> QED
        BY <3>2 DEF W
    <2> HIDE DEF u
    <2>2. PICK G : FlatRun(G, u, V) /\ FlattenSeq(u) = G[Len(u)]
      BY <2>1, FlatOf
    <2>3. F[Len(s)] = G[Len(s)]
      <3>1. Begins(s, u)
        <4>1. Len(s) <= Len(u)
          BY <2>1
        <4> QED
          BY <2>1, <4>1 DEF Begins
      <3>2. FlatRun(F, s, V)
        BY <1>1
      <3>3. FlatRun(G, u, V)
        BY <2>2
      <3>4. u \in Seq(Seq(V))
        BY <2>1
      <3> QED
        BY <3>1, <3>2, <3>3, <3>4, FlatAlike
    <2>4. Len(u) \in 1 .. Len(u) /\ Len(u) - 1 = Len(s)
      BY <2>1
    <2>5. G[Len(u)] = G[Len(s)] \o t
      BY <2>1, <2>2, <2>4 DEF FlatRun
    <2> QED
      BY <1>1, <2>2, <2>3, <2>5 DEF u
  <1> QED
    BY <1>3, <1>4

-----------------------------------------------------------------------------
(* A stream of bytes as one number, the first byte its lowest digits.      *)

\* The widths as numbers.
LEMMA Widths ==
    /\ ByteBits \in Nat \ {0} /\ CharBits \in Nat \ {0}
    /\ ByteBits < CharBits /\ CharBits < 2 * ByteBits
    /\ 2 ^ ByteBits \in Nat \ {0} /\ 2 ^ CharBits \in Nat \ {0}
    /\ 2 ^ 0 = 1 /\ 2 ^ 1 = 2
  <1>1. /\ ByteBits \in Nat \ {0} /\ CharBits \in Nat \ {0}
        /\ ByteBits < CharBits /\ CharBits < 2 * ByteBits
    BY WidthAssumption
  <1>2. 2 ^ ByteBits \in Nat \ {0} /\ 2 ^ CharBits \in Nat \ {0}
    BY <1>1, PowerType
  <1>3. 2 ^ 0 = 1 /\ 2 ^ 1 = 2
    OBVIOUS
  <1> QED
    BY <1>1, <1>2, <1>3

\* A number that is known to be a quotient and a remainder.
LEMMA DigitsOf ==
    ASSUME NEW b \in Nat \ {0}, NEW q \in Nat, NEW r \in 0 .. b - 1, NEW x, x = b * q + r
    PROVE  x \div b = q /\ x % b = r
  BY DivModUnique

\* The quotient of a division by a product.
LEMMA DividedTwice ==
    ASSUME NEW a \in Nat, NEW b \in Nat \ {0}, NEW c \in Nat \ {0}
    PROVE  a \div (b * c) = (a \div b) \div c
  <1> DEFINE q == a \div b
             r == a % b
             qq == q \div c
             rr == q % c
  <1>1. a = b * q + r /\ r \in 0 .. b - 1 /\ q \in Nat
    BY DivMod
  <1>2. q = c * qq + rr /\ rr \in 0 .. c - 1 /\ qq \in Nat
    BY <1>1, DivMod
  <1> HIDE DEF r, rr
  <1>3. a \div (b * c) = qq
    <2> HIDE DEF q, qq
    <2>1. r \in 0 .. b - 1
      BY <1>1
    <2>2. qq \in Nat
      BY <1>2
    <2>3. rr \in 0 .. c - 1
      BY <1>2
    <2> DEFINE d == b * c
               t == b * rr + r
    <2>4. d \in Nat \ {0} /\ t \in 0 .. d - 1 /\ b * (c * qq + rr) + r = d * qq + t
      BY <2>1, <2>2, <2>3, TwoDivisions
    <2>5. a = b * (c * qq + rr) + r
      BY <1>1, <1>2, Zenon
    <2>6. a = d * qq + t
      BY <2>4, <2>5, Zenon
    <2> HIDE DEF d, t
    <2>7. (d * qq + t) \div d = qq /\ (d * qq + t) % d = t
      BY <2>2, <2>4, DivModUnique
    <2>8. a \div d = qq
      BY <2>6, <2>7, Zenon
    <2> QED
      BY <2>8 DEF d
  <1> QED
    BY <1>3

\* The remainder of a division by a product.
LEMMA RestOfProduct ==
    ASSUME NEW a \in Nat, NEW b \in Nat \ {0}, NEW c \in Nat \ {0}
    PROVE  a % (b * c) = b * ((a \div b) % c) + (a % b)
  <1> DEFINE q == a \div b
             r == a % b
             qq == q \div c
             rr == q % c
  <1>1. a = b * q + r /\ r \in 0 .. b - 1 /\ q \in Nat
    BY DivMod
  <1>2. q = c * qq + rr /\ rr \in 0 .. c - 1 /\ qq \in Nat
    BY <1>1, DivMod
  <1> HIDE DEF qq
  <1>3. a % (b * c) = b * rr + r
    <2> HIDE DEF q, r, rr
    <2>1. r \in 0 .. b - 1
      BY <1>1
    <2>2. qq \in Nat
      BY <1>2
    <2>3. rr \in 0 .. c - 1
      BY <1>2
    <2> DEFINE d == b * c
               t == b * rr + r
    <2>4. d \in Nat \ {0} /\ t \in 0 .. d - 1 /\ b * (c * qq + rr) + r = d * qq + t
      BY <2>1, <2>2, <2>3, TwoDivisions
    <2>5. a = b * (c * qq + rr) + r
      BY <1>1, <1>2, Zenon
    <2>6. a = d * qq + t
      BY <2>4, <2>5, Zenon
    <2> HIDE DEF d, t
    <2>7. (d * qq + t) \div d = qq /\ (d * qq + t) % d = t
      BY <2>2, <2>4, DivModUnique
    <2>8. a % d = t
      BY <2>6, <2>7, Zenon
    <2> QED
      BY <2>8 DEF d, t
  <1> QED
    BY <1>3

\* A number shifted to the right, and the bits that fall out.
LEMMA ShiftType ==
    ASSUME NEW x \in Nat, NEW m \in Nat
    PROVE  x \div 2 ^ m \in Nat /\ x % 2 ^ m \in Nat /\ x % 2 ^ m \in 0 .. 2 ^ m - 1
  <1>1. 2 ^ m \in Nat \ {0}
    BY PowerType
  <1> DEFINE w == 2 ^ m
  <1> HIDE DEF w
  <1>2. x \div w \in Nat /\ x % w \in Nat /\ x % w \in 0 .. w - 1
    BY <1>1, DivMod DEF w
  <1> QED
    BY <1>2 DEF w

\* The lower m + l bits of a number are its lower m bits and the l bits above,
LEMMA BothParts ==
    ASSUME NEW x \in Nat, NEW m \in Nat, NEW l \in Nat
    PROVE  x % 2 ^ (m + l) = 2 ^ m * ((x \div 2 ^ m) % 2 ^ l) + (x % 2 ^ m)
  <1> DEFINE b == 2 ^ m
             c == 2 ^ l
  <1>1. b \in Nat \ {0} /\ c \in Nat \ {0}
    BY PowerType
  <1>2. 2 ^ (m + l) = b * c
    BY PowerOfSum
  <1> HIDE DEF b, c
  <1>3. x % (b * c) = b * ((x \div b) % c) + (x % b)
    BY <1>1, RestOfProduct, Zenon
  <1> QED
    BY <1>2, <1>3 DEF b, c

\* and it is shifted by m + l when it is shifted by m and by l.
LEMMA WithoutParts ==
    ASSUME NEW x \in Nat, NEW m \in Nat, NEW l \in Nat
    PROVE  x \div 2 ^ (m + l) = (x \div 2 ^ m) \div 2 ^ l
  <1> DEFINE b == 2 ^ m
             c == 2 ^ l
  <1>1. b \in Nat \ {0} /\ c \in Nat \ {0}
    BY PowerType
  <1>2. 2 ^ (m + l) = b * c
    BY PowerOfSum
  <1> HIDE DEF b, c
  <1>3. x \div (b * c) = (x \div b) \div c
    BY <1>1, DividedTwice, Zenon
  <1> QED
    BY <1>2, <1>3 DEF b, c

\* Its lower m bits are those of its lower m + l bits, and so are the others.
LEMMA UpperPart ==
    ASSUME NEW x \in Nat, NEW m \in Nat, NEW l \in Nat
    PROVE  /\ (x % 2 ^ (m + l)) \div 2 ^ m = (x \div 2 ^ m) % 2 ^ l
           /\ (x % 2 ^ (m + l)) % 2 ^ m = x % 2 ^ m
  <1> DEFINE b == 2 ^ m
             q == (x \div 2 ^ m) % 2 ^ l
             r == x % 2 ^ m
             y == x % 2 ^ (m + l)
  <1>1. b \in Nat \ {0}
    BY PowerType
  <1>2. r \in 0 .. b - 1
    BY ShiftType
  <1>3. q \in Nat
    <2>1. x \div 2 ^ m \in Nat
      BY ShiftType
    <2> QED
      BY <2>1, ShiftType
  <1>4. y = b * q + r
    BY BothParts
  <1> HIDE DEF b, q, r, y
  <1>5. y \div b = q /\ y % b = r
    BY <1>1, <1>2, <1>3, <1>4, DigitsOf, Zenon
  <1> QED
    BY <1>5 DEF b, q, r, y

\* N is the number whose digits are the bytes.
IsStream(N, bytes) ==
    /\ N \in Nat
    /\ \A i \in 1 .. Len(bytes) : (N \div 2 ^ (ByteBits * (i - 1))) % 2 ^ ByteBits = bytes[i]
    /\ N \div 2 ^ (ByteBits * Len(bytes)) = 0

\* The weight of a byte.
LEMMA ByteWeight ==
    ASSUME NEW i \in Nat \ {0}
    PROVE  /\ 2 ^ (ByteBits * i) = 2 ^ (ByteBits * (i - 1)) * 2 ^ ByteBits
           /\ 2 ^ (ByteBits * i) \in Nat \ {0} /\ 2 ^ (ByteBits * (i - 1)) \in Nat \ {0}
  <1>1. /\ ByteBits * i \in Nat /\ ByteBits * (i - 1) \in Nat /\ ByteBits \in Nat
        /\ ByteBits * i = ByteBits * (i - 1) + ByteBits
    BY Widths
  <1> QED
    BY <1>1, PowerOfSum, PowerType

\* Every sequence of bytes has such a number.
LEMMA StreamOf ==
    ASSUME NEW bytes \in Seq(Byte)
    PROVE  \E N : IsStream(N, bytes)
  <1> DEFINE n == Len(bytes)
             base == 2 ^ ByteBits
             step == [x \in (1 .. n) \X Nat |-> base * x[2] + bytes[n - x[1] + 1]]
  <1>1. n \in Nat /\ base \in Nat \ {0} /\ 0 \in Nat
    BY Widths
  <1>2. ASSUME NEW i \in 1 .. n PROVE bytes[i] \in Nat /\ bytes[i] \in 0 .. base - 1
    <2>1. bytes[i] \in Byte
      OBVIOUS
    <2>2. bytes[i] \in 0 .. base - 1
      BY <2>1 DEF Byte
    <2> HIDE DEF base
    <2> QED
      BY <1>1, <2>2
  <1> HIDE DEF n, base
  <1>3. step \in Steps(n, Nat)
    <2>1. ASSUME NEW j \in 1 .. n, NEW v \in Nat PROVE base * v + bytes[n - j + 1] \in Nat
      <3>1. n - j + 1 \in 1 .. n
        BY <1>1
      <3>2. bytes[n - j + 1] \in Nat /\ base * v \in Nat
        BY <1>1, <1>2, <3>1
      <3> QED
        BY <3>2
    <2> QED
      BY <2>1 DEF Steps
  <1>4. PICK G : IsRun(G, n, Nat, 0, step)
    <2> HIDE DEF step
    <2> QED
      BY <1>1, <1>3, Recursion
  <1> DEFINE N == G[n]
  <1>5. G \in [0 .. n -> Nat] /\ G[0] = 0 /\ N \in Nat
    BY <1>1, <1>4 DEF IsRun
  <1>6. ASSUME NEW i \in 1 .. n
        PROVE  /\ G[n - (i - 1)] = base * G[n - i] + bytes[i]
               /\ G[n - (i - 1)] \div base = G[n - i] /\ G[n - (i - 1)] % base = bytes[i]
    <2> DEFINE j == n - (i - 1)
    <2>1. j \in 1 .. n /\ j - 1 \in 0 .. n /\ j - 1 = n - i /\ n - j + 1 = i
      BY <1>1
    <2> HIDE DEF j
    <2>2. G[j] = step[<<j, G[j - 1]>>] /\ G[j - 1] \in Nat
      BY <1>4, <1>5, <2>1 DEF IsRun
    <2>3. step[<<j, G[j - 1]>>] = base * G[j - 1] + bytes[n - j + 1]
      BY <2>1, <2>2
    <2>4. G[j] = base * G[n - i] + bytes[i] /\ G[n - i] \in Nat
      BY <2>1, <2>2, <2>3
    <2>5. G[j] \div base = G[n - i] /\ G[j] % base = bytes[i]
      <3> DEFINE x == G[j]
                 y == G[n - i]
                 r == bytes[i]
      <3>1. base \in Nat \ {0}
        BY <1>1
      <3>2. y \in Nat
        BY <2>4
      <3>3. r \in 0 .. base - 1
        BY <1>2
      <3>4. x = base * y + r
        BY <2>4
      <3> HIDE DEF x, y, r
      <3>5. x \div base = y /\ x % base = r
        BY <3>1, <3>2, <3>3, <3>4, DigitsOf, Zenon
      <3> QED
        BY <3>5 DEF x, y, r
    <2> QED
      BY <2>4, <2>5 DEF j
  <1> HIDE DEF N, step
  <1> DEFINE T == {i \in 0 .. n : N \div 2 ^ (ByteBits * i) = G[n - i]}
  <1>7. 0 \in T
    <2>1. ByteBits * 0 = 0 /\ 2 ^ 0 = 1 /\ N \div 1 = N /\ n - 0 = n
      BY <1>1, <1>5, Widths
    <2>2. N \div 2 ^ (ByteBits * 0) = G[n - 0]
      BY <2>1 DEF N
    <2> QED
      BY <1>1, <2>2
  <1>8. ASSUME NEW i \in 1 .. n, i - 1 \in T PROVE i \in T
    <2> DEFINE w == 2 ^ (ByteBits * (i - 1))
    <2>1. N \div w = G[n - (i - 1)]
      BY <1>8
    <2>2. w \in Nat \ {0} /\ 2 ^ (ByteBits * i) = w * base
      BY ByteWeight DEF base
    <2> HIDE DEF w
    <2>3. N \div 2 ^ (ByteBits * i) = (N \div w) \div base
      <3>1. w \in Nat \ {0} /\ 2 ^ (ByteBits * i) = w * base
        BY <2>2
      <3>2. base \in Nat \ {0}
        BY <1>1
      <3>3. N \in Nat
        BY <1>5
      <3>4. N \div (w * base) = (N \div w) \div base
        BY <3>1, <3>2, <3>3, DividedTwice, Zenon
      <3> QED
        BY <3>1, <3>4
    <2>4. N \div 2 ^ (ByteBits * i) = G[n - i]
      BY <1>6, <2>1, <2>3
    <2> QED
      BY <2>4
  <1>9. 0 .. n \subseteq T
    <2> HIDE DEF T
    <2> QED
      BY <1>1, <1>7, <1>8, UpTo
  <1>10. ASSUME NEW i \in 1 .. n
         PROVE  (N \div 2 ^ (ByteBits * (i - 1))) % base = bytes[i]
    <2>1. i - 1 \in T
      <3>1. i - 1 \in 0 .. n
        BY <1>1
      <3> HIDE DEF T
      <3> QED
        BY <1>9, <3>1
    <2>2. N \div 2 ^ (ByteBits * (i - 1)) = G[n - (i - 1)]
      BY <2>1
    <2> QED
      BY <1>6, <2>2
  <1>11. N \div 2 ^ (ByteBits * n) = 0
    <2>1. n \in T
      <3>1. n \in 0 .. n
        BY <1>1
      <3> HIDE DEF T
      <3> QED
        BY <1>9, <3>1
    <2>2. N \div 2 ^ (ByteBits * n) = G[n - n] /\ n - n = 0
      BY <1>1, <2>1
    <2> QED
      BY <1>5, <2>2
  <1>12. IsStream(N, bytes)
    BY <1>5, <1>10, <1>11 DEF IsStream, n, base
  <1> QED
    BY <1>12

\* Bit k of the bytes is bit k of the number.
LEMMA BitsOf ==
    ASSUME NEW bytes \in Seq(Byte), NEW N, IsStream(N, bytes), NEW k \in Nat
    PROVE  BitOf(bytes, k) = (N \div 2 ^ k) % 2
  <1> DEFINE n == Len(bytes)
             q == k \div ByteBits
             r == k % ByteBits
  <1>1. /\ n \in Nat /\ q \in Nat /\ r \in 0 .. ByteBits - 1
        /\ k = ByteBits * q + r /\ N \in Nat
    <2>1. /\ k = ByteBits * (k \div ByteBits) + (k % ByteBits)
          /\ k % ByteBits \in 0 .. ByteBits - 1 /\ k \div ByteBits \in Nat
      BY Widths, DivMod
    <2> QED
      BY <2>1 DEF IsStream
  <1>2. BitOf(bytes, k) = IF q >= n THEN 0 ELSE (bytes[q + 1] \div 2 ^ r) % 2
    BY DEF BitOf
  <1> HIDE DEF n, q, r
  <1>3. CASE q >= n
    <2> DEFINE a == ByteBits * n
               d == k - a
    <2>1. a \in Nat /\ d \in Nat /\ k = a + d
      <3>1. ByteBits * q >= ByteBits * n
        BY <1>1, <1>3, Widths
      <3>2. ByteBits * n \in Nat /\ ByteBits * q \in Nat
        BY <1>1, Widths
      <3> QED
        BY <1>1, <3>1, <3>2
    <2>2. N \div 2 ^ a = 0
      BY DEF IsStream, n
    <2> HIDE DEF a, d
    <2>3. N \div 2 ^ (a + d) = (N \div 2 ^ a) \div 2 ^ d
      <3>1. N \in Nat /\ a \in Nat /\ d \in Nat
        BY <1>1, <2>1
      <3> QED
        BY <3>1, WithoutParts, Zenon
    <2>4. 0 \div 2 ^ d = 0
      <3>1. 2 ^ d \in Nat \ {0}
        BY <2>1, PowerType
      <3> QED
        BY <3>1, DivIsZero
    <2> QED
      BY <1>2, <1>3, <2>1, <2>2, <2>3, <2>4
  <1>4. CASE q < n
    <2> DEFINE a == ByteBits * q
               X == N \div 2 ^ a
               y == bytes[q + 1]
               l == ByteBits - r
    <2>1. /\ a \in Nat /\ k = a + r /\ r \in Nat
          /\ l \in Nat \ {0} /\ l - 1 \in Nat /\ ByteBits = r + l /\ l = 1 + (l - 1)
      BY <1>1, Widths
    <2>2. X % 2 ^ ByteBits = y
      <3>1. q + 1 \in 1 .. n /\ (q + 1) - 1 = q
        BY <1>1, <1>4
      <3> QED
        BY <3>1 DEF IsStream, n
    <2>3. X \in Nat /\ N \div 2 ^ k = X \div 2 ^ r
      <3> HIDE DEF a
      <3>1. N \in Nat /\ a \in Nat /\ r \in Nat
        BY <1>1, <2>1
      <3>2. N \div 2 ^ (a + r) = (N \div 2 ^ a) \div 2 ^ r
        BY <3>1, WithoutParts, Zenon
      <3>3. N \div 2 ^ a \in Nat
        BY <3>1, ShiftType, Zenon
      <3> QED
        BY <2>1, <3>2, <3>3
    <2> HIDE DEF a, X, y, l
    <2>4. y \div 2 ^ r = (X \div 2 ^ r) % 2 ^ l /\ X \div 2 ^ r \in Nat
      <3>1. X \in Nat /\ r \in Nat /\ l \in Nat
        BY <2>1, <2>3
      <3>2. X \in Nat
        BY <3>1
      <3>3. r \in Nat
        BY <3>1
      <3>4. l \in Nat
        BY <3>1
      <3>5. (X % 2 ^ (r + l)) \div 2 ^ r = (X \div 2 ^ r) % 2 ^ l
        BY <3>2, <3>3, <3>4, UpperPart, Zenon
      <3>6. X \div 2 ^ r \in Nat
        BY <3>2, <3>3, ShiftType, Zenon
      <3> QED
        BY <2>1, <2>2, <3>5, <3>6
    <2>5. ((X \div 2 ^ r) % 2 ^ l) % 2 = (X \div 2 ^ r) % 2
      <3> DEFINE z == X \div 2 ^ r
      <3>1. z \in Nat
        BY <2>4
      <3> HIDE DEF z
      <3> DEFINE h == l - 1
                 one == 1
      <3>2. h \in Nat /\ one \in Nat /\ l = one + h /\ 2 ^ one = 2
        BY <2>1, Widths
      <3> HIDE DEF h, one
      <3>3. (z % 2 ^ (one + h)) % 2 ^ one = z % 2 ^ one
        BY <3>1, <3>2, UpperPart, Zenon
      <3>4. (z % 2 ^ l) % 2 = z % 2
        BY <3>2, <3>3
      <3> QED
        BY <3>4 DEF z
    <2>6. BitOf(bytes, k) = (y \div 2 ^ r) % 2
      BY <1>1, <1>2, <1>4 DEF y
    <2> QED
      BY <2>3, <2>4, <2>5, <2>6
  <1> QED
    BY <1>1, <1>3, <1>4

\* A character is CharBits bits of the number.
LEMMA CharOf ==
    ASSUME NEW bytes \in Seq(Byte), NEW N, IsStream(N, bytes), NEW from \in Nat
    PROVE  Char(bytes, from) = (N \div 2 ^ from) % 2 ^ CharBits
  <1> DEFINE x == N \div 2 ^ from
             G == [b \in 0 .. CharBits |-> x % 2 ^ b]
             Added(b, v) == v + BitOf(bytes, from + b - 1) * 2 ^ (b - 1)
             Is(f) == f = [b \in 0 .. CharBits |->
                 IF b = 0 THEN 0 ELSE Added(b, f[b - 1])]
  <1>1. N \in Nat /\ x \in Nat /\ CharBits \in Nat
    <2>1. N \in Nat /\ 2 ^ from \in Nat \ {0}
      BY PowerType DEF IsStream
    <2> QED
      BY <2>1, Widths, DivMod
  <1>2. x % 2 ^ 0 = 0
    BY <1>1, Widths
  <1>3. ASSUME NEW b \in 1 .. CharBits
        PROVE  x % 2 ^ b = Added(b, x % 2 ^ (b - 1))
    <2> DEFINE m == b - 1
    <2>1. m \in Nat /\ b = m + 1 /\ from + m \in Nat /\ from + b - 1 = from + m
      OBVIOUS
    <2> HIDE DEF m
    <2>2. BitOf(bytes, from + m) = (N \div 2 ^ (from + m)) % 2
      BY <2>1, BitsOf
    <2>3. N \div 2 ^ (from + m) = x \div 2 ^ m
      BY <1>1, <2>1, WithoutParts
    <2> HIDE DEF x
    <2> DEFINE one == 1
    <2>8. one \in Nat /\ one = 1 /\ 2 ^ one = 2
      BY Widths
    <2> HIDE DEF one
    <2>4. x % 2 ^ (m + one) = 2 ^ m * ((x \div 2 ^ m) % 2 ^ one) + (x % 2 ^ m) /\ x % 2 ^ m \in Nat
      <3>1. x \in Nat /\ m \in Nat /\ one \in Nat
        BY <1>1, <2>1, <2>8
      <3>2. x % 2 ^ (m + one) = 2 ^ m * ((x \div 2 ^ m) % 2 ^ one) + (x % 2 ^ m)
        BY <3>1, BothParts, Zenon
      <3>3. x % 2 ^ m \in Nat
        BY <3>1, ShiftType, Zenon
      <3> QED
        BY <3>2, <3>3
    <2> DEFINE bit == BitOf(bytes, from + m)
               w == 2 ^ m
               low == x % 2 ^ m
    <2>5. bit = (x \div 2 ^ m) % 2 ^ one /\ x % 2 ^ b = w * bit + low
      BY <2>1, <2>2, <2>3, <2>4, <2>8
    <2>6. bit \in Nat /\ w \in Nat /\ low \in Nat
      <3>1. w \in Nat \ {0}
        BY <2>1, PowerType
      <3>2. x \div 2 ^ m \in Nat
        BY <1>1, <2>1, ShiftType
      <3>3. ((x \div 2 ^ m) % 2) \in Nat
        BY <3>2
      <3> QED
        BY <2>2, <2>3, <2>4, <3>1, <3>3
    <2> HIDE DEF bit, w, low
    <2>7. w * bit + low = low + bit * w
      BY <2>6
    <2> QED
      BY <2>1, <2>5, <2>7 DEF bit, w, low, m
  <1> HIDE DEF x, Added
  <1>4. Is(G)
    <2>1. ASSUME NEW b \in 0 .. CharBits
          PROVE  x % 2 ^ b = IF b = 0 THEN 0 ELSE Added(b, G[b - 1])
      <3>1. CASE b = 0
        BY <1>2, <3>1
      <3>2. CASE b # 0
        <4>1. b \in 1 .. CharBits /\ b - 1 \in 0 .. CharBits
          BY <1>1, <3>2
        <4>2. G[b - 1] = x % 2 ^ (b - 1)
          BY <4>1
        <4> QED
          BY <1>3, <3>2, <4>1, <4>2
      <3> QED
        BY <3>1, <3>2
    <2> QED
      BY <2>1
  <1> DEFINE g == CHOOSE f : Is(f)
  <1>5. Is(g)
    <2> HIDE DEF Is, G
    <2> QED
      BY <1>4
  <1>6. Char(bytes, from) = g[CharBits]
    BY DEF Char, Added
  <1> HIDE DEF g
  <1> DEFINE T == {b \in 0 .. CharBits : g[b] = x % 2 ^ b}
  <1>7. 0 \in T
    BY <1>1, <1>2, <1>5
  <1>8. ASSUME NEW b \in 1 .. CharBits, b - 1 \in T PROVE b \in T
    <2>0. b \in 0 .. CharBits /\ b # 0
      BY <1>1
    <2>1. g[b] = Added(b, g[b - 1])
      BY <1>5, <2>0
    <2>2. g[b - 1] = x % 2 ^ (b - 1)
      BY <1>8
    <2>3. g[b] = x % 2 ^ b
      BY <1>3, <2>1, <2>2
    <2> QED
      BY <2>3
  <1>9. 0 .. CharBits \subseteq T
    <2> HIDE DEF T
    <2> QED
      BY <1>1, <1>7, <1>8, UpTo
  <1>10. g[CharBits] = x % 2 ^ CharBits
    BY <1>1, <1>9
  <1> QED
    BY <1>6, <1>10 DEF x

-----------------------------------------------------------------------------
(* What the server wrote, piece by piece.                                  *)

\* The first i of several sequences, flattened.
Leading(W, i) == FlattenSeq([m \in 1 .. i |-> W[m]])

\* Each piece is appended to those before it.
LEMMA LeadingStep ==
    ASSUME NEW V, NEW n \in Nat, NEW W \in [1 .. n -> Seq(V)]
    PROVE  /\ Leading(W, 0) = << >>
           /\ \A i \in 0 .. n : Leading(W, i) \in Seq(V)
           /\ \A i \in 1 .. n : Leading(W, i) = Leading(W, i - 1) \o W[i]
  <1> DEFINE Y == Seq(V)
             P(i) == [m \in 1 .. i |-> W[m]]
  <1>1. ASSUME NEW i \in 0 .. n PROVE P(i) \in Seq(Y) /\ Len(P(i)) = i
    <2>1. i \in Nat /\ \A m \in 1 .. i : W[m] \in Y
      OBVIOUS
    <2> HIDE DEF Y
    <2> QED
      BY <2>1
  <1>2. ASSUME NEW i \in 1 .. n PROVE P(i) = Append(P(i - 1), W[i])
    <2>1. i \in 0 .. n /\ i - 1 \in 0 .. n /\ W[i] \in Y
      OBVIOUS
    <2>2. P(i) \in Seq(Y) /\ P(i - 1) \in Seq(Y) /\ Len(P(i)) = i /\ Len(P(i - 1)) = i - 1
      BY <1>1, <2>1
    <2> DEFINE s == P(i)
               t == P(i - 1)
               u == Append(t, W[i])
    <2>3. \A q \in 1 .. i - 1 : s[q] = W[q] /\ t[q] = W[q]
      OBVIOUS
    <2>4. s[i] = W[i]
      OBVIOUS
    <2> HIDE DEF Y, s, t
    <2>5. s \in Seq(Y) /\ t \in Seq(Y) /\ Len(s) = i /\ Len(t) = i - 1
      BY <2>2 DEF s, t
    <2>6. /\ u \in Seq(Y) /\ Len(u) = i /\ u[i] = W[i]
          /\ \A q \in 1 .. i - 1 : u[q] = t[q]
      BY <2>1, <2>5, AppendProperties
    <2> HIDE DEF u
    <2>7. \A q \in 1 .. i : s[q] = u[q]
      BY <2>3, <2>4, <2>6
    <2>8. s = u
      BY <2>5, <2>6, <2>7, SeqEqual
    <2> QED
      BY <2>8 DEF s, t, u
  <1> HIDE DEF P
  <1>3. Leading(W, 0) = << >>
    <2>1. P(0) \in Seq(Y) /\ Len(P(0)) = 0
      BY <1>1
    <2>2. FlattenSeq(P(0)) = << >>
      BY <2>1, Flattened
    <2> QED
      BY <2>2 DEF Leading, P
  <1>4. ASSUME NEW i \in 0 .. n PROVE Leading(W, i) \in Seq(V)
    <2>1. P(i) \in Seq(Seq(V))
      BY <1>1
    <2>2. FlattenSeq(P(i)) \in Seq(V)
      BY <2>1, Flattened
    <2> QED
      BY <2>2 DEF Leading, P
  <1>5. ASSUME NEW i \in 1 .. n PROVE Leading(W, i) = Leading(W, i - 1) \o W[i]
    <2>1. i - 1 \in 0 .. n /\ W[i] \in Seq(V)
      OBVIOUS
    <2>2. P(i - 1) \in Seq(Seq(V))
      BY <1>1, <2>1
    <2>3. FlattenSeq(Append(P(i - 1), W[i])) = FlattenSeq(P(i - 1)) \o W[i]
      BY <2>1, <2>2, Flattened
    <2>4. FlattenSeq(P(i)) = FlattenSeq(P(i - 1)) \o W[i]
      BY <1>2, <2>3
    <2> QED
      BY <2>4 DEF Leading, P
  <1> QED
    BY <1>3, <1>4, <1>5

\* What stands at the beginning stays there when more is appended.
LEMMA BeginsConcat ==
    ASSUME NEW V, NEW s \in Seq(V), NEW t \in Seq(V), NEW u \in Seq(V), Begins(s, t)
    PROVE  Begins(s, t \o u)
  <1>1. /\ Len(t \o u) = Len(t) + Len(u)
        /\ \A q \in 1 .. Len(t) + Len(u) :
              (t \o u)[q] = IF q <= Len(t) THEN t[q] ELSE u[q - Len(t)]
    BY ConcatProperties
  <1>2. Len(s) \in Nat /\ Len(t) \in Nat /\ Len(u) \in Nat
    OBVIOUS
  <1> QED
    BY <1>1, <1>2 DEF Begins

\* The pieces together begin with the first i of them.
LEMMA LeadingPrefix ==
    ASSUME NEW V, NEW n \in Nat, NEW W \in [1 .. n -> Seq(V)], NEW i \in 0 .. n
    PROVE  Begins(Leading(W, i), Leading(W, n))
  <1> DEFINE F(k) == Leading(W, k)
             T == {k \in 0 .. n - i : Begins(F(i), F(i + k))}
  <1>1. /\ \A k \in 0 .. n : F(k) \in Seq(V)
        /\ \A k \in 1 .. n : F(k) = F(k - 1) \o W[k]
    BY LeadingStep
  <1> HIDE DEF F
  <1>2. 0 \in T
    <2>1. i + 0 = i /\ F(i) \in Seq(V) /\ 0 \in 0 .. n - i
      BY <1>1
    <2>2. Begins(F(i), F(i))
      <3>1. Len(F(i)) \in Nat
        BY <2>1
      <3> QED
        BY <3>1 DEF Begins
    <2> QED
      BY <2>1, <2>2
  <1>3. ASSUME NEW k \in 1 .. n - i, k - 1 \in T PROVE k \in T
    <2> DEFINE a == i + (k - 1)
    <2>1. Begins(F(i), F(a))
      BY <1>3
    <2>2. a \in 0 .. n /\ i + k \in 1 .. n /\ (i + k) - 1 = a
      OBVIOUS
    <2> HIDE DEF a
    <2>3. F(i) \in Seq(V) /\ F(a) \in Seq(V) /\ W[i + k] \in Seq(V)
      BY <1>1, <2>2
    <2>4. F(i + k) = F(a) \o W[i + k]
      BY <1>1, <2>2
    <2>5. Begins(F(i), F(i + k))
      BY <2>1, <2>3, <2>4, BeginsConcat
    <2> QED
      BY <2>5
  <1>4. 0 .. n - i \subseteq T
    <2>1. n - i \in Nat
      OBVIOUS
    <2> HIDE DEF T
    <2> QED
      BY <1>2, <1>3, <2>1, UpTo
  <1>5. n - i \in T /\ i + (n - i) = n
    <2>1. n - i \in 0 .. n - i
      OBVIOUS
    <2> HIDE DEF T
    <2> QED
      BY <1>4, <2>1
  <1> QED
    BY <1>5 DEF F

\* Channels take three bytes each, the first of them the name.
LEMMA ChannelLayout ==
    ASSUME NEW names \in Seq(Nat)
    PROVE  /\ ChannelBytes(names) \in Seq(Nat)
           /\ Len(ChannelBytes(names)) = 3 * Len(names)
           /\ \A j \in 1 .. Len(names) : ChannelBytes(names)[3 * (j - 1) + 1] = names[j]
  <1> DEFINE n == Len(names)
             W == [i \in 1 .. n |-> <<names[i], Version, 1>>]
             F(i) == Leading(W, i)
  <1>1. n \in Nat /\ DOMAIN names = 1 .. n /\ n \in 0 .. n
    OBVIOUS
  <1>2. ASSUME NEW i \in 1 .. n
        PROVE  W[i] \in Seq(Nat) /\ Len(W[i]) = 3 /\ W[i][1] = names[i]
    <2>1. names[i] \in Nat /\ Version \in Nat /\ 1 \in Nat
      BY DEF Version
    <2> QED
      BY <2>1
  <1>3. W \in [1 .. n -> Seq(Nat)]
    <2>1. \A i \in 1 .. n : <<names[i], Version, 1>> \in Seq(Nat)
      BY <1>2
    <2> QED
      BY <2>1
  <1>4. ChannelBytes(names) = F(n)
    <2>1. W = [i \in 1 .. n |-> W[i]]
      BY <1>3
    <2>2. FlattenSeq(W) = F(n)
      BY <2>1 DEF Leading
    <2> QED
      BY <1>1, <2>2 DEF ChannelBytes
  <1> HIDE DEF n, W
  <1>5. /\ F(0) = << >>
        /\ \A i \in 0 .. n : F(i) \in Seq(Nat)
        /\ \A i \in 1 .. n : F(i) = F(i - 1) \o W[i]
    BY <1>1, <1>3, LeadingStep
  <1>6. \A i \in 0 .. n : Begins(F(i), F(n))
    BY <1>1, <1>3, LeadingPrefix
  <1> HIDE DEF F
  <1> DEFINE T == {i \in 0 .. n : Len(F(i)) = 3 * i}
  <1>7. 0 \in T
    BY <1>1, <1>5
  <1>8. ASSUME NEW i \in 1 .. n PROVE
          /\ Len(F(i)) = Len(F(i - 1)) + 3
          /\ F(i)[Len(F(i - 1)) + 1] = names[i]
    <2>0. i - 1 \in 0 .. n
      BY <1>1
    <2>1. i - 1 \in 0 .. n /\ F(i) = F(i - 1) \o W[i]
      BY <1>5, <2>0
    <2>2. F(i - 1) \in Seq(Nat) /\ W[i] \in Seq(Nat) /\ Len(W[i]) = 3 /\ W[i][1] = names[i]
      BY <1>2, <1>5, <2>1
    <2> DEFINE a == F(i - 1)
               b == W[i]
    <2> HIDE DEF a, b
    <2>3. a \in Seq(Nat) /\ b \in Seq(Nat) /\ Len(b) = 3 /\ Len(a) \in Nat
      BY <2>2 DEF a, b
    <2>4. /\ Len(a \o b) = Len(a) + Len(b)
          /\ \A q \in 1 .. Len(a) + Len(b) :
                (a \o b)[q] = IF q <= Len(a) THEN a[q] ELSE b[q - Len(a)]
      BY <2>3, ConcatProperties
    <2>5. Len(a \o b) = Len(a) + 3 /\ (a \o b)[Len(a) + 1] = b[1]
      BY <2>3, <2>4
    <2> QED
      BY <2>1, <2>2, <2>5 DEF a, b
  <1>9. 0 .. n \subseteq T
    <2>1. ASSUME NEW i \in 1 .. n, i - 1 \in T PROVE i \in T
      <3>1. Len(F(i - 1)) = 3 * (i - 1) /\ Len(F(i)) = Len(F(i - 1)) + 3
        BY <1>8, <2>1
      <3>2. i \in 0 .. n /\ 3 * (i - 1) + 3 = 3 * i
        BY <1>1
      <3> QED
        BY <3>1, <3>2
    <2> HIDE DEF T
    <2> QED
      BY <1>1, <1>7, <2>1, UpTo
  <1>10. \A i \in 0 .. n : Len(F(i)) = 3 * i
    BY <1>9
  <1>11. ASSUME NEW j \in 1 .. n PROVE F(n)[3 * (j - 1) + 1] = names[j]
    <2>1. j - 1 \in 0 .. n /\ j \in 0 .. n /\ Len(F(j)) = 3 * j /\ Len(F(j - 1)) = 3 * (j - 1)
      BY <1>1, <1>10
    <2>2. F(j)[3 * (j - 1) + 1] = names[j]
      BY <1>8, <2>1
    <2>3. 3 * (j - 1) + 1 \in 1 .. Len(F(j))
      BY <1>1, <2>1
    <2> QED
      BY <1>6, <2>1, <2>2, <2>3 DEF Begins
  <1> QED
    BY <1>1, <1>4, <1>5, <1>10, <1>11 DEF n

\* s stands in t behind position p.
Stands(t, p, s) == \A q \in 1 .. Len(s) : t[p + q] = s[q]

\* A piece stands behind those before it.
LEMMA LeadingPlace ==
    ASSUME NEW V, NEW n \in Nat, NEW W \in [1 .. n -> Seq(V)], NEW i \in 1 .. n
    PROVE  /\ Len(Leading(W, i)) = Len(Leading(W, i - 1)) + Len(W[i])
           /\ Len(Leading(W, i)) <= Len(Leading(W, n))
           /\ Stands(Leading(W, n), Len(Leading(W, i - 1)), W[i])
  <1> DEFINE a == Leading(W, i - 1)
             b == W[i]
             c == Leading(W, i)
             d == Leading(W, n)
  <1>1. i - 1 \in 0 .. n /\ i \in 0 .. n
    OBVIOUS
  <1>2. a \in Seq(V) /\ b \in Seq(V) /\ c = a \o b
    BY <1>1, LeadingStep
  <1>3. Begins(c, d)
    BY <1>1, LeadingPrefix
  <1> HIDE DEF a, b, c, d
  <1>4. /\ Len(a) \in Nat /\ Len(b) \in Nat /\ Len(a \o b) = Len(a) + Len(b)
        /\ \A q \in 1 .. Len(a) + Len(b) : (a \o b)[q] = IF q <= Len(a) THEN a[q] ELSE b[q - Len(a)]
    BY <1>2, ConcatProperties
  <1>5. Len(c) = Len(a) + Len(b) /\ Len(c) <= Len(d)
    BY <1>2, <1>3, <1>4 DEF Begins
  <1>6. ASSUME NEW q \in 1 .. Len(b) PROVE d[Len(a) + q] = b[q]
    <2>1. Len(a) + q \in 1 .. Len(a) + Len(b) /\ ~(Len(a) + q <= Len(a)) /\ (Len(a) + q) - Len(a) = q
      BY <1>4
    <2>2. c[Len(a) + q] = b[q]
      BY <1>2, <1>4, <2>1
    <2> QED
      BY <1>3, <1>5, <2>1, <2>2 DEF Begins
  <1> QED
    BY <1>5, <1>6 DEF Stands, a, b, c, d

\* Three sequences behind one another.
LEMMA ThreeJoined ==
    ASSUME NEW V, NEW a \in Seq(V), NEW b \in Seq(V), NEW c \in Seq(V)
    PROVE  /\ a \o b \o c \in Seq(V)
           /\ Len(a \o b \o c) = Len(a) + Len(b) + Len(c)
           /\ \A q \in 1 .. Len(a) : (a \o b \o c)[q] = a[q]
           /\ \A q \in 1 .. Len(b) : (a \o b \o c)[Len(a) + q] = b[q]
           /\ \A q \in 1 .. Len(c) : (a \o b \o c)[Len(a) + Len(b) + q] = c[q]
  <1> DEFINE d == a \o b
             e == d \o c
  <1>1. /\ d \in Seq(V) /\ Len(d) = Len(a) + Len(b)
        /\ \A q \in 1 .. Len(a) + Len(b) : d[q] = IF q <= Len(a) THEN a[q] ELSE b[q - Len(a)]
    BY ConcatProperties
  <1>2. Len(a) \in Nat /\ Len(b) \in Nat /\ Len(c) \in Nat
    OBVIOUS
  <1> HIDE DEF d
  <1>3. /\ e \in Seq(V) /\ Len(e) = Len(d) + Len(c)
        /\ \A q \in 1 .. Len(d) + Len(c) : e[q] = IF q <= Len(d) THEN d[q] ELSE c[q - Len(d)]
    <2>1. d \in Seq(V)
      BY <1>1
    <2>2. d \o c \in Seq(V) /\ Len(d \o c) = Len(d) + Len(c)
      BY <2>1, ConcatProperties
    <2>3. \A q \in 1 .. Len(d) + Len(c) : (d \o c)[q] = IF q <= Len(d) THEN d[q] ELSE c[q - Len(d)]
      BY <2>1, ConcatProperties, Zenon
    <2> QED
      BY <2>2, <2>3
  <1> HIDE DEF e
  <1>4. \A q \in 1 .. Len(a) : e[q] = a[q]
    BY <1>1, <1>2, <1>3
  <1>5. \A q \in 1 .. Len(b) : e[Len(a) + q] = b[q]
    BY <1>1, <1>2, <1>3
  <1>6. ASSUME NEW q \in 1 .. Len(c) PROVE e[Len(a) + Len(b) + q] = c[q]
    <2> DEFINE p == Len(a) + Len(b) + q
    <2>1. p \in 1 .. Len(d) + Len(c) /\ ~(p <= Len(d)) /\ p - Len(d) = q
      BY <1>1, <1>2
    <2> HIDE DEF p
    <2>2. e[p] = c[q]
      BY <1>3, <2>1
    <2> QED
      BY <2>2 DEF p
  <1>7. Len(e) = Len(a) + Len(b) + Len(c)
    BY <1>1, <1>3
  <1> QED
    BY <1>3, <1>4, <1>5, <1>6, <1>7 DEF d, e

Mods == Seq([server : BOOLEAN, channels : Seq(Nat)])

\* Flags, id and, but for a mod of the server only, version.
HeadSize(mod) == IF mod.server THEN 2 ELSE 3

\* Mod m, with its channels, stands in w behind position p.
ModStands(w, p, m, mod) ==
    /\ w[p + 1] % 2 = 1 <=> mod.server
    /\ w[p + 1] \div 2 = Len(mod.channels)
    /\ w[p + 2] = m
    /\ \A j \in 1 .. Len(mod.channels) :
          w[p + HeadSize(mod) + 3 * (j - 1) + 1] = mod.channels[j]

\* An even or odd number, halved.
LEMMA Halved ==
    ASSUME NEW n \in Nat
    PROVE  /\ (2 * n + 1) % 2 = 1 /\ (2 * n + 1) \div 2 = n
           /\ (2 * n + 0) % 2 = 0 /\ (2 * n + 0) \div 2 = n
  OBVIOUS

\* What ModBytes writes.
LEMMA ModLayout ==
    ASSUME NEW m \in Nat, NEW mod \in [server : BOOLEAN, channels : Seq(Nat)]
    PROVE  /\ ModBytes(m, mod) \in Seq(Nat)
           /\ Len(ModBytes(m, mod)) = HeadSize(mod) + 3 * Len(mod.channels)
           /\ ModStands(ModBytes(m, mod), 0, m, mod)
  <1> DEFINE n == Len(mod.channels)
             odd == IF mod.server THEN 1 ELSE 0
             a == <<2 * n + odd, m>>
             b == IF mod.server THEN << >> ELSE <<Version>>
             c == ChannelBytes(mod.channels)
             w == a \o b \o c
             h == HeadSize(mod)
  <1>1. mod.channels \in Seq(Nat) /\ mod.server \in BOOLEAN /\ n \in Nat
    OBVIOUS
  <1>2. ModBytes(m, mod) = w
    BY DEF ModBytes
  <1>3. /\ c \in Seq(Nat) /\ Len(c) = 3 * n
        /\ \A j \in 1 .. n : c[3 * (j - 1) + 1] = mod.channels[j]
    BY <1>1, ChannelLayout
  <1>4. (2 * n + odd) % 2 = odd /\ (2 * n + odd) \div 2 = n /\ 2 * n + odd \in Nat
    BY <1>1, Halved
  <1> HIDE DEF n, c
  <1>5. a \in Seq(Nat) /\ Len(a) = 2 /\ a[1] = 2 * n + odd /\ a[2] = m
    BY <1>4
  <1>6. b \in Seq(Nat) /\ Len(b) = h - 2 /\ h \in {2, 3}
    BY DEF Version, HeadSize
  <1> HIDE DEF odd, a, b, h
  <1>7. /\ w \in Seq(Nat)
        /\ Len(w) = Len(a) + Len(b) + Len(c)
        /\ \A q \in 1 .. Len(a) : w[q] = a[q]
        /\ \A q \in 1 .. Len(c) : w[Len(a) + Len(b) + q] = c[q]
    <2>1. a \in Seq(Nat)
      BY <1>5
    <2>2. b \in Seq(Nat)
      BY <1>6
    <2>3. c \in Seq(Nat)
      BY <1>3
    <2> QED
      BY <2>1, <2>2, <2>3, ThreeJoined
  <1> HIDE DEF w
  <1>8. Len(w) = h + 3 * n /\ w[1] = 2 * n + odd /\ w[2] = m
    BY <1>1, <1>3, <1>5, <1>6, <1>7
  <1>9. ASSUME NEW j \in 1 .. n PROVE w[h + 3 * (j - 1) + 1] = mod.channels[j]
    <2>1. 3 * (j - 1) + 1 \in 1 .. 3 * n
      BY <1>1
    <2>2. Len(a) + Len(b) + (3 * (j - 1) + 1) = h + 3 * (j - 1) + 1
      BY <1>1, <1>5, <1>6
    <2>3. w[Len(a) + Len(b) + (3 * (j - 1) + 1)] = c[3 * (j - 1) + 1]
      BY <1>3, <1>7, <2>1
    <2> QED
      BY <1>3, <2>2, <2>3
  <1>10. ModStands(w, 0, m, mod)
    <2>1. w[0 + 1] % 2 = 1 <=> mod.server
      <3>1. w[1] % 2 = odd
        BY <1>4, <1>8
      <3> QED
        BY <3>1 DEF odd
    <2>2. w[0 + 1] \div 2 = n /\ w[0 + 2] = m
      BY <1>4, <1>8
    <2>3. ASSUME NEW j \in 1 .. n PROVE w[0 + h + 3 * (j - 1) + 1] = mod.channels[j]
      <3>1. 0 + h + 3 * (j - 1) + 1 = h + 3 * (j - 1) + 1
        BY <1>1, <1>6
      <3> QED
        BY <1>9, <3>1
    <2> QED
      BY <2>1, <2>2, <2>3 DEF ModStands, n, h
  <1> QED
    BY <1>2, <1>7, <1>8, <1>10 DEF n, h

\* The mods of a content as ContentBytes writes them, and where mod i ends.
Written(content) == [m \in 1 .. Len(content.mods) |-> ModBytes(m, content.mods[m])]
Ends(content) == [i \in 0 .. Len(content.mods) |-> 2 + Len(Leading(Written(content), i))]

\* The whole content stands in w.
ContentStands(w, content, flag) ==
    LET n == Len(content.mods)
        k == Len(content.extra)
        End == Ends(content)
    IN  /\ w[1] # 0 <=> flag
        /\ w[2] = n
        /\ \A i \in 1 .. n : ModStands(w, End[i - 1], i, content.mods[i])
        /\ w[End[n] + 1] = k
        /\ \A j \in 1 .. k : w[End[n] + 1 + 3 * (j - 1) + 1] = content.extra[j]

\* The size of a mod with its channels.
SizeOfMod(mod) == HeadSize(mod) + 3 * Len(mod.channels)

\* The pieces of the content are as long as that.
LEMMA WrittenMods ==
    ASSUME NEW content, content.mods \in Mods
    PROVE  /\ Len(content.mods) \in Nat
           /\ Written(content) \in [1 .. Len(content.mods) -> Seq(Nat)]
           /\ \A i \in 1 .. Len(content.mods) :
                 /\ content.mods[i] \in [server : BOOLEAN, channels : Seq(Nat)]
                 /\ Written(content)[i] = ModBytes(i, content.mods[i])
                 /\ Len(Written(content)[i]) = SizeOfMod(content.mods[i])
                 /\ SizeOfMod(content.mods[i]) \in Nat
                 /\ ModStands(Written(content)[i], 0, i, content.mods[i])
  <1> DEFINE n == Len(content.mods)
             W == Written(content)
  <1>1. n \in Nat /\ \A i \in 1 .. n : content.mods[i] \in [server : BOOLEAN, channels : Seq(Nat)]
    <2> DEFINE S == [server : BOOLEAN, channels : Seq(Nat)]
    <2>1. content.mods \in Seq(S)
      BY DEF Mods
    <2> HIDE DEF S
    <2>2. n \in Nat /\ \A i \in 1 .. n : content.mods[i] \in S
      BY <2>1
    <2> QED
      BY <2>2 DEF S
  <1>2. ASSUME NEW i \in 1 .. n
        PROVE  /\ W[i] = ModBytes(i, content.mods[i])
               /\ ModBytes(i, content.mods[i]) \in Seq(Nat)
               /\ Len(ModBytes(i, content.mods[i])) = SizeOfMod(content.mods[i])
               /\ ModStands(ModBytes(i, content.mods[i]), 0, i, content.mods[i])
    <2> DEFINE mod == content.mods[i]
    <2>1. i \in Nat /\ mod \in [server : BOOLEAN, channels : Seq(Nat)]
      BY <1>1
    <2>2. W[i] = ModBytes(i, mod)
      BY DEF Written
    <2> HIDE DEF mod
    <2>3. /\ ModBytes(i, mod) \in Seq(Nat)
          /\ Len(ModBytes(i, mod)) = HeadSize(mod) + 3 * Len(mod.channels)
          /\ ModStands(ModBytes(i, mod), 0, i, mod)
      BY <2>1, ModLayout
    <2> QED
      BY <2>2, <2>3 DEF mod, SizeOfMod
  <1>3. ASSUME NEW i \in 1 .. n PROVE SizeOfMod(content.mods[i]) \in Nat
    <2> DEFINE mod == content.mods[i]
    <2>1. Len(mod.channels) \in Nat
      BY <1>1
    <2> HIDE DEF mod
    <2>2. HeadSize(mod) \in Nat
      BY DEF HeadSize
    <2>3. SizeOfMod(mod) \in Nat
      BY <2>1, <2>2 DEF SizeOfMod
    <2> QED
      BY <2>3 DEF mod
  <1>4. W \in [1 .. n -> Seq(Nat)]
    BY <1>2 DEF Written
  <1> HIDE DEF n
  <1>5. \A i \in 1 .. n :
          /\ content.mods[i] \in [server : BOOLEAN, channels : Seq(Nat)]
          /\ W[i] = ModBytes(i, content.mods[i])
          /\ Len(W[i]) = SizeOfMod(content.mods[i])
          /\ SizeOfMod(content.mods[i]) \in Nat
          /\ ModStands(W[i], 0, i, content.mods[i])
    BY <1>1, <1>2, <1>3
  <1> QED
    BY <1>1, <1>4, <1>5 DEF n

\* The ends are as far apart as the mods are long.
LEMMA EndsOf ==
    ASSUME NEW content, content.mods \in Mods
    PROVE  /\ Ends(content)[0] = 2
           /\ \A i \in 0 .. Len(content.mods) :
                 /\ Ends(content)[i] \in Nat
                 /\ Ends(content)[i] <= Ends(content)[Len(content.mods)]
           /\ \A i \in 1 .. Len(content.mods) :
                 Ends(content)[i] = Ends(content)[i - 1] + SizeOfMod(content.mods[i])
  <1> DEFINE n == Len(content.mods)
             W == Written(content)
             End == Ends(content)
  <1>1. /\ n \in Nat /\ W \in [1 .. n -> Seq(Nat)]
        /\ \A i \in 1 .. n : Len(W[i]) = SizeOfMod(content.mods[i])
    BY WrittenMods
  <1>2. \A i \in 0 .. n : End[i] = 2 + Len(Leading(W, i))
    BY DEF Ends
  <1> HIDE DEF n, W, End
  <1>3. Leading(W, 0) = << >> /\ \A i \in 0 .. n : Leading(W, i) \in Seq(Nat)
    BY <1>1, LeadingStep
  <1>4. \A i \in 0 .. n : Len(Leading(W, i)) <= Len(Leading(W, n))
    <2>1. ASSUME NEW i \in 0 .. n PROVE Len(Leading(W, i)) <= Len(Leading(W, n))
      <3>1. Begins(Leading(W, i), Leading(W, n))
        BY <1>1, LeadingPrefix
      <3> QED
        BY <3>1 DEF Begins
    <2> QED
      BY <2>1
  <1>5. ASSUME NEW i \in 1 .. n PROVE End[i] = End[i - 1] + SizeOfMod(content.mods[i])
    <2>1. Len(Leading(W, i)) = Len(Leading(W, i - 1)) + Len(W[i])
      BY <1>1, LeadingPlace
    <2>2. i - 1 \in 0 .. n /\ i \in 0 .. n
      BY <1>1
    <2>3. Len(Leading(W, i - 1)) \in Nat /\ Len(W[i]) \in Nat
      <3>1. Leading(W, i - 1) \in Seq(Nat) /\ W[i] \in Seq(Nat)
        BY <1>1, <1>3, <2>2
      <3> QED
        BY <3>1
    <2>4. End[i] = 2 + Len(Leading(W, i)) /\ End[i - 1] = 2 + Len(Leading(W, i - 1))
      BY <1>2, <2>2
    <2>5. Len(W[i]) = SizeOfMod(content.mods[i])
      BY <1>1
    <2> QED
      BY <2>1, <2>3, <2>4, <2>5
  <1>6. End[0] = 2
    <2>1. 0 \in 0 .. n
      BY <1>1
    <2> QED
      BY <1>2, <1>3, <2>1
  <1>7. ASSUME NEW i \in 0 .. n PROVE End[i] \in Nat /\ End[i] <= End[n]
    <2>1. Len(Leading(W, i)) \in Nat /\ Len(Leading(W, n)) \in Nat /\ n \in 0 .. n
      <3>1. n \in 0 .. n
        BY <1>1
      <3>2. Leading(W, i) \in Seq(Nat) /\ Leading(W, n) \in Seq(Nat)
        BY <1>3, <3>1
      <3> QED
        BY <3>1, <3>2
    <2>2. Len(Leading(W, i)) <= Len(Leading(W, n))
      BY <1>4
    <2> QED
      BY <1>2, <2>1, <2>2
  <1> QED
    BY <1>5, <1>6, <1>7 DEF n, End

\* A mod that stands at the place of a piece stands at the place of all.
LEMMA ModMoved ==
    ASSUME NEW w, NEW v, NEW p \in Nat, NEW m,
           NEW mod \in [server : BOOLEAN, channels : Seq(Nat)],
           Len(v) = SizeOfMod(mod), ModStands(v, 0, m, mod),
           Stands(w, p, v)
    PROVE  ModStands(w, p, m, mod)
  <1> DEFINE h == HeadSize(mod)
             n == Len(mod.channels)
  <1>1. n \in Nat /\ h \in {2, 3} /\ Len(v) = h + 3 * n
    BY DEF SizeOfMod, HeadSize
  <1> HIDE DEF h, n
  <1>2. v[0 + 1] % 2 = 1 <=> mod.server
    BY DEF ModStands
  <1>3. v[0 + 1] \div 2 = n /\ v[0 + 2] = m
    BY DEF ModStands, n
  <1>4. \A j \in 1 .. n : v[0 + h + 3 * (j - 1) + 1] = mod.channels[j]
    BY DEF ModStands, n, h
  <1>5. w[p + 1] = v[1] /\ w[p + 2] = v[2]
    <2>1. 1 \in 1 .. Len(v) /\ 2 \in 1 .. Len(v)
      BY <1>1
    <2> QED
      BY <2>1 DEF Stands
  <1>6. ASSUME NEW j \in 1 .. n PROVE w[p + h + 3 * (j - 1) + 1] = mod.channels[j]
    <2> DEFINE q == h + 3 * (j - 1) + 1
    <2>1. q \in 1 .. Len(v) /\ 0 + h + 3 * (j - 1) + 1 = q /\ p + h + 3 * (j - 1) + 1 = p + q
      BY <1>1
    <2> HIDE DEF q
    <2>2. v[q] = mod.channels[j]
      BY <1>4, <2>1
    <2> QED
      BY <2>1, <2>2 DEF Stands
  <1>7. 0 + 1 = 1 /\ 0 + 2 = 2
    OBVIOUS
  <1>8. (w[p + 1] % 2 = 1 <=> mod.server) /\ w[p + 1] \div 2 = n /\ w[p + 2] = m
    BY <1>2, <1>3, <1>5, <1>7
  <1> QED
    BY <1>6, <1>8 DEF ModStands, n, h

\* What ContentBytes writes.
LEMMA ContentLayout ==
    ASSUME NEW content, NEW flag \in BOOLEAN,
           content.mods \in Mods, content.extra \in Seq(Nat)
    PROVE  /\ ContentBytes(content, flag) \in Seq(Nat)
           /\ Len(ContentBytes(content, flag)) =
                 Ends(content)[Len(content.mods)] + 1 + 3 * Len(content.extra)
           /\ ContentStands(ContentBytes(content, flag), content, flag)
  <1> DEFINE n == Len(content.mods)
             k == Len(content.extra)
             W == Written(content)
             End == Ends(content)
             a == <<IF flag THEN 1 ELSE 0, n>>
             b == Leading(W, n)
             c == <<k>>
             d == ChannelBytes(content.extra)
             u == a \o b \o c
             w == u \o d
  <1>1. /\ n \in Nat /\ W \in [1 .. n -> Seq(Nat)]
        /\ \A i \in 1 .. n :
              /\ content.mods[i] \in [server : BOOLEAN, channels : Seq(Nat)]
              /\ Len(W[i]) = SizeOfMod(content.mods[i])
              /\ ModStands(W[i], 0, i, content.mods[i])
    BY WrittenMods
  <1>2. k \in Nat
    OBVIOUS
  <1>3. /\ d \in Seq(Nat) /\ Len(d) = 3 * k
        /\ \A j \in 1 .. k : d[3 * (j - 1) + 1] = content.extra[j]
    BY ChannelLayout
  <1>4. ContentBytes(content, flag) = w
    <2>1. DOMAIN content.mods = 1 .. n
      BY DEF Mods
    <2>2. W = [i \in 1 .. n |-> W[i]]
      BY <1>1
    <2>3. b = FlattenSeq(W)
      BY <2>2 DEF Leading
    <2>4. W = [m \in DOMAIN content.mods |-> ModBytes(m, content.mods[m])]
      BY <2>1 DEF Written
    <2> HIDE DEF W, b
    <2> QED
      BY <2>3, <2>4 DEF ContentBytes
  <1>5. \A i \in 0 .. n : End[i] = 2 + Len(Leading(W, i)) /\ End[i] \in Nat
    <2>1. \A i \in 0 .. n : End[i] \in Nat
      BY EndsOf
    <2> QED
      BY <2>1 DEF Ends
  <1> HIDE DEF n, k, W, End
  <1>6. b \in Seq(Nat) /\ End[n] = 2 + Len(b) /\ n \in 0 .. n
    <2>1. n \in 0 .. n
      BY <1>1
    <2> QED
      BY <1>1, <1>5, <2>1, LeadingStep
  <1>7. a \in Seq(Nat) /\ Len(a) = 2 /\ a[1] = (IF flag THEN 1 ELSE 0) /\ a[2] = n
    BY <1>1
  <1>8. c \in Seq(Nat) /\ Len(c) = 1 /\ c[1] = k
    BY <1>2
  <1> HIDE DEF a, b, c, d
  <1>9. /\ u \in Seq(Nat) /\ Len(u) = Len(a) + Len(b) + Len(c)
        /\ \A q \in 1 .. Len(a) : u[q] = a[q]
        /\ \A q \in 1 .. Len(b) : u[Len(a) + q] = b[q]
        /\ \A q \in 1 .. Len(c) : u[Len(a) + Len(b) + q] = c[q]
    <2>1. a \in Seq(Nat)
      BY <1>7
    <2>2. b \in Seq(Nat)
      BY <1>6
    <2>3. c \in Seq(Nat)
      BY <1>8
    <2> QED
      BY <2>1, <2>2, <2>3, ThreeJoined
  <1> HIDE DEF u
  <1>10. /\ w \in Seq(Nat) /\ Len(w) = Len(u) + Len(d)
         /\ \A q \in 1 .. Len(u) : w[q] = u[q]
         /\ \A q \in 1 .. Len(d) : w[Len(u) + q] = d[q]
    <2>1. u \in Seq(Nat) /\ d \in Seq(Nat)
      BY <1>3, <1>9
    <2>2. << >> \in Seq(Nat) /\ Len(<< >>) = 0
      OBVIOUS
    <2>3. /\ Len(w) = Len(u) + Len(d) /\ w \in Seq(Nat)
          /\ \A q \in 1 .. Len(u) + Len(d) : w[q] = IF q <= Len(u) THEN u[q] ELSE d[q - Len(u)]
      BY <2>1, ConcatProperties
    <2>4. Len(u) \in Nat /\ Len(d) \in Nat
      BY <2>1
    <2> HIDE DEF w
    <2>5. \A q \in 1 .. Len(u) : w[q] = u[q]
      BY <2>3, <2>4
    <2>6. ASSUME NEW q \in 1 .. Len(d) PROVE w[Len(u) + q] = d[q]
      <3> DEFINE p == Len(u) + q
      <3>1. p \in 1 .. Len(u) + Len(d) /\ ~(p <= Len(u)) /\ p - Len(u) = q
        BY <2>4
      <3> HIDE DEF p
      <3>2. w[p] = d[q]
        BY <2>3, <3>1
      <3> QED
        BY <3>2 DEF p
    <2> QED
      BY <2>3, <2>5, <2>6
  <1> HIDE DEF w
  <1>11. Len(b) \in Nat /\ Len(u) = End[n] + 1 /\ End[n] \in Nat
    <2>1. Len(b) \in Nat
      BY <1>6
    <2> QED
      BY <1>5, <1>6, <1>7, <1>8, <1>9, <2>1
  <1>12. Len(w) = End[n] + 1 + 3 * k
    BY <1>3, <1>10, <1>11
  <1>13. (w[1] # 0 <=> flag) /\ w[2] = n
    <2>1. 1 \in 1 .. Len(a) /\ 2 \in 1 .. Len(a) /\ 1 \in 1 .. Len(u) /\ 2 \in 1 .. Len(u)
      BY <1>6, <1>7, <1>11
    <2>2. w[1] = a[1] /\ w[2] = a[2]
      BY <1>9, <1>10, <2>1
    <2> QED
      BY <1>7, <2>2
  <1>14. ASSUME NEW i \in 1 .. n PROVE ModStands(w, End[i - 1], i, content.mods[i])
    <2> DEFINE v == W[i]
               p == End[i - 1]
               e == Len(Leading(W, i - 1))
    <2>1. /\ v \in Seq(Nat) /\ Len(v) = SizeOfMod(content.mods[i])
          /\ ModStands(v, 0, i, content.mods[i])
          /\ content.mods[i] \in [server : BOOLEAN, channels : Seq(Nat)]
      BY <1>1
    <2>2. i - 1 \in 0 .. n /\ i \in 0 .. n
      BY <1>1
    <2>3. p \in Nat /\ p = 2 + e /\ e \in Nat
      <3>1. Leading(W, i - 1) \in Seq(Nat)
        BY <1>1, <2>2, LeadingStep
      <3> QED
        BY <1>5, <2>2, <3>1
    <2>4. /\ Len(Leading(W, i)) = e + Len(v) /\ Len(Leading(W, i)) <= Len(b)
          /\ Stands(b, e, v)
      <3>0. n \in Nat /\ W \in [1 .. n -> Seq(Nat)]
        BY <1>1
      <3>1. n \in Nat
        BY <3>0
      <3>2. W \in [1 .. n -> Seq(Nat)]
        BY <3>0
      <3>3. /\ Len(Leading(W, i)) = Len(Leading(W, i - 1)) + Len(W[i])
            /\ Len(Leading(W, i)) <= Len(Leading(W, n))
            /\ Stands(Leading(W, n), Len(Leading(W, i - 1)), W[i])
        BY <3>1, <3>2, LeadingPlace, Zenon
      <3> QED
        BY <3>3 DEF b
    <2> HIDE DEF v, p, e
    <2>5. ASSUME NEW q \in 1 .. Len(v) PROVE w[p + q] = v[q]
      <3>1. e + q \in 1 .. Len(b) /\ Len(a) + (e + q) = p + q /\ p + q \in 1 .. Len(u)
        <4>1. Len(v) \in Nat
          BY <2>1
        <4> QED
          BY <1>6, <1>7, <1>11, <2>3, <2>4, <4>1
      <3>2. u[Len(a) + (e + q)] = b[e + q]
        BY <1>9, <3>1
      <3> QED
        BY <1>10, <2>4, <3>1, <3>2 DEF Stands
    <2>6. ModStands(w, p, i, content.mods[i])
      <3>1. Stands(w, p, v)
        BY <2>5 DEF Stands
      <3> QED
        BY <2>1, <2>3, <3>1, ModMoved
    <2> QED
      BY <2>6 DEF p
  <1>15. w[End[n] + 1] = k
    <2>1. 1 \in 1 .. Len(c) /\ Len(a) + Len(b) + 1 = End[n] + 1 /\ End[n] + 1 \in 1 .. Len(u)
      BY <1>6, <1>7, <1>8, <1>11
    <2>2. u[Len(a) + Len(b) + 1] = c[1]
      BY <1>9, <2>1
    <2> QED
      BY <1>8, <1>10, <2>1, <2>2
  <1>16. ASSUME NEW j \in 1 .. k PROVE w[End[n] + 1 + 3 * (j - 1) + 1] = content.extra[j]
    <2> DEFINE q == 3 * (j - 1) + 1
    <2>1. q \in 1 .. Len(d) /\ End[n] + 1 + 3 * (j - 1) + 1 = Len(u) + q
      BY <1>2, <1>3, <1>11
    <2>2. d[q] = content.extra[j]
      BY <1>3
    <2> HIDE DEF q
    <2> QED
      BY <1>10, <2>1, <2>2
  <1>17. ContentStands(w, content, flag)
    BY <1>13, <1>14, <1>15, <1>16 DEF ContentStands, n, k, End
  <1> QED
    BY <1>4, <1>10, <1>12, <1>17 DEF n, k, End

-----------------------------------------------------------------------------
(* The string and the register.                                            *)

\* The bytes of a content are below 2 ^ ByteBits, and so numbers.
LEMMA ContentType ==
    ASSUME NEW content \in Contents, NEW flag \in BOOLEAN
    PROVE  /\ content.mods \in Mods /\ content.extra \in Seq(Nat)
           /\ ContentBytes(content, flag) \in Seq(Byte)
  <1>1. Byte \subseteq Nat
    <2>1. 2 ^ ByteBits \in Nat \ {0}
      BY Widths
    <2> QED
      BY <2>1 DEF Byte
  <1>2. /\ content.mods \in Seq([server : BOOLEAN, channels : Seq(Byte)])
        /\ content.extra \in Seq(Byte)
        /\ ContentBytes(content, flag) \in Seq(Byte)
    BY ContentAssumption
  <1>3. Seq(Byte) \subseteq Seq(Nat)
    BY <1>1, SeqMonotonic
  <1> DEFINE S == [server : BOOLEAN, channels : Seq(Byte)]
             T == [server : BOOLEAN, channels : Seq(Nat)]
  <1>4. S \subseteq T
    BY <1>3
  <1>5. content.mods \in Seq(S)
    BY <1>2
  <1> HIDE DEF S, T
  <1>6. content.mods \in Seq(T)
    BY <1>4, <1>5, SeqMonotonic
  <1> QED
    BY <1>2, <1>3, <1>6 DEF Mods, T

\* A division rounded up.
LEMMA Ceiling ==
    ASSUME NEW a \in Nat, NEW b \in Nat \ {0}
    PROVE  (a + b - 1) \div b \in Nat /\ b * ((a + b - 1) \div b) >= a
  <1> DEFINE x == a + b - 1
             q == x \div b
             r == x % b
  <1>1. x \in Nat
    OBVIOUS
  <1>2. x = b * q + r /\ r \in 0 .. b - 1 /\ q \in Nat
    <2> HIDE DEF x
    <2> QED
      BY <1>1, DivMod
  <1>3. b * q \in Nat
    BY <1>2
  <1> DEFINE y == b * q
  <1> HIDE DEF q, r
  <1>4. a + b - 1 = y + r
    BY <1>2
  <1> HIDE DEF y
  <1>5. y >= a
    BY <1>2, <1>3, <1>4 DEF y
  <1> QED
    BY <1>2, <1>5 DEF q, y

\* The characters of some bytes: each is CharBits bits of the stream, and
\* together they have all of its bits.
LEMMA PackedOf ==
    ASSUME NEW bytes \in Seq(Byte)
    PROVE  /\ Packed(bytes) \in Seq(0 .. 2 ^ CharBits - 1)
           /\ CharBits * Len(Packed(bytes)) >= ByteBits * Len(bytes)
           /\ \A N : IsStream(N, bytes) =>
                 \A q \in 1 .. Len(Packed(bytes)) :
                    Packed(bytes)[q] = (N \div 2 ^ (CharBits * (q - 1))) % 2 ^ CharBits
  <1> DEFINE P == Packed(bytes)
             n == (Len(bytes) * ByteBits + CharBits - 1) \div CharBits
  <1>1. /\ n \in Nat /\ CharBits * n >= ByteBits * Len(bytes)
    <2> DEFINE a == Len(bytes) * ByteBits
    <2>1. a \in Nat /\ CharBits \in Nat \ {0} /\ a = ByteBits * Len(bytes)
      BY Widths
    <2> HIDE DEF a
    <2>2. (a + CharBits - 1) \div CharBits \in Nat
          /\ CharBits * ((a + CharBits - 1) \div CharBits) >= a
      BY <2>1, Ceiling
    <2> QED
      BY <2>1, <2>2 DEF a
  <1>2. ASSUME NEW N, IsStream(N, bytes), NEW q \in 1 .. n
        PROVE  Char(bytes, (q - 1) * CharBits) = (N \div 2 ^ (CharBits * (q - 1))) % 2 ^ CharBits
    <2>1. (q - 1) * CharBits \in Nat /\ (q - 1) * CharBits = CharBits * (q - 1)
      BY Widths
    <2> DEFINE f == (q - 1) * CharBits
    <2> HIDE DEF f
    <2>2. f \in Nat
      BY <2>1 DEF f
    <2>3. Char(bytes, f) = (N \div 2 ^ f) % 2 ^ CharBits
      BY <1>2, <2>2, CharOf
    <2> QED
      BY <2>1, <2>3 DEF f
  <1>3. PICK M : IsStream(M, bytes)
    BY StreamOf
  <1>4. ASSUME NEW q \in 1 .. n PROVE Char(bytes, (q - 1) * CharBits) \in 0 .. 2 ^ CharBits - 1
    <2> DEFINE x == M \div 2 ^ (CharBits * (q - 1))
    <2>1. Char(bytes, (q - 1) * CharBits) = x % 2 ^ CharBits
      BY <1>2, <1>3
    <2>2. x \in Nat
      <3>1. M \in Nat /\ CharBits * (q - 1) \in Nat
        BY <1>3, Widths DEF IsStream
      <3> QED
        BY <3>1, ShiftType
    <2> HIDE DEF x
    <2>3. x % 2 ^ CharBits \in 0 .. 2 ^ CharBits - 1
      BY <2>2, Widths, ShiftType
    <2> QED
      BY <2>1, <2>3
  <1>5. P = [q \in 1 .. n |-> Char(bytes, (q - 1) * CharBits)]
    BY DEF Packed
  <1> HIDE DEF n, P
  <1>6. P \in Seq(0 .. 2 ^ CharBits - 1) /\ Len(P) = n
    BY <1>1, <1>4, <1>5
  <1>7. \A q \in 1 .. n : P[q] = Char(bytes, (q - 1) * CharBits)
    BY <1>5
  <1> QED
    BY <1>1, <1>2, <1>6, <1>7 DEF P, n

\* s has the two characters of the size of K and then those of K itself, all
\* of them when none is lost.
IsStringOf(s, K, lost) ==
    /\ s \in Seq(Nat)
    /\ Len(s) <= Len(Packed(K)) + 2
    /\ lost = 0 => Len(s) = Len(Packed(K)) + 2
    /\ Len(s) >= 2 => s[1] + s[2] * 2 ^ CharBits = Len(K)
    /\ \A q \in 1 .. Len(s) - 2 : s[2 + q] = Packed(K)[q]

\* So is the string of the server, of the first bytes that it wrote.
LEMMA StringStands ==
    ASSUME NEW content \in Contents, NEW flag \in BOOLEAN,
           NEW kept \in 0 .. Len(ContentBytes(content, flag)), NEW lost \in 0 .. 2
    PROVE  /\ SubSeq(ContentBytes(content, flag), 1, kept) \in Seq(Byte)
           /\ Len(SubSeq(ContentBytes(content, flag), 1, kept)) = kept
           /\ Stands(ContentBytes(content, flag), 0, SubSeq(ContentBytes(content, flag), 1, kept))
           /\ IsStringOf(StringOf(content, flag, kept, lost),
                         SubSeq(ContentBytes(content, flag), 1, kept), lost)
  <1> DEFINE s == StringOf(content, flag, kept, lost)
             K == SubSeq(ContentBytes(content, flag), 1, kept)
             w == ContentBytes(content, flag)
             P == Packed(K)
             c == 2 ^ CharBits
             head == <<kept % c, kept \div c>>
             string == head \o P
  <1>1. w \in Seq(Byte)
    BY ContentType
  <1>2. kept \in Nat /\ kept <= Len(w)
    <2>1. Len(w) \in Nat
      BY <1>1
    <2> QED
      BY <2>1
  <1>3. K \in Seq(Byte) /\ Len(K) = kept /\ \A q \in 1 .. kept : K[q] = w[q]
    <2> HIDE DEF w
    <2>1. kept \in Int /\ 1 \in Int /\ \A i \in 1 .. kept : w[i] \in Byte
      BY <1>1, <1>2
    <2>2. K = SubSeq(w, 1, kept)
      BY DEF w
    <2> DEFINE B == Byte
    <2> HIDE DEF B
    <2>3. \A i \in 1 .. kept : w[i] \in B
      BY <2>1 DEF B
    <2>4. /\ SubSeq(w, 1, kept) \in Seq(B)
          /\ Len(SubSeq(w, 1, kept)) = IF 1 <= kept THEN kept - 1 + 1 ELSE 0
          /\ \A i \in 1 .. kept - 1 + 1 : SubSeq(w, 1, kept)[i] = w[1 + i - 1]
      BY <2>1, <2>3, SubSeqProperties
    <2> QED
      BY <1>2, <2>2, <2>4 DEF B
  <1>4. P \in Seq(0 .. c - 1)
    BY <1>3, PackedOf
  <1>5. c \in Nat \ {0}
    BY Widths
  <1>0. Stands(w, 0, K) /\ K = SubSeq(w, 1, kept)
    BY <1>3 DEF Stands
  <1> HIDE DEF w, P, c, K
  <1>6. P \in Seq(Nat)
    <2>1. 0 .. c - 1 \subseteq Nat
      BY <1>5
    <2> QED
      BY <1>4, <2>1, SeqMonotonic
  <1>7. /\ kept = c * (kept \div c) + (kept % c)
        /\ (kept % c) \in Nat /\ kept \div c \in Nat
    BY <1>2, <1>5, DivMod
  <1>8. /\ head \in Seq(Nat) /\ Len(head) = 2 /\ head[1] = kept % c /\ head[2] = kept \div c
    BY <1>7
  <1> HIDE DEF head
  <1>9. /\ string \in Seq(Nat) /\ Len(string) = 2 + Len(P)
        /\ string[1] = head[1] /\ string[2] = head[2]
        /\ \A q \in 1 .. Len(P) : string[2 + q] = P[q]
    <2>1. /\ string \in Seq(Nat) /\ Len(string) = Len(head) + Len(P)
          /\ \A q \in 1 .. Len(head) + Len(P) :
                string[q] = IF q <= Len(head) THEN head[q] ELSE P[q - Len(head)]
      BY <1>6, <1>8, ConcatProperties
    <2>2. Len(P) \in Nat
      BY <1>6
    <2> HIDE DEF string
    <2>3. string[1] = head[1] /\ string[2] = head[2]
      BY <1>8, <2>1, <2>2
    <2>4. ASSUME NEW q \in 1 .. Len(P) PROVE string[2 + q] = P[q]
      <3> DEFINE r == 2 + q
      <3>1. r \in 1 .. Len(head) + Len(P) /\ ~(r <= Len(head)) /\ r - Len(head) = q
        BY <1>8, <2>2
      <3> HIDE DEF r
      <3>2. string[r] = P[q]
        BY <2>1, <3>1
      <3> QED
        BY <3>2 DEF r
    <2> QED
      BY <1>8, <2>1, <2>3, <2>4
  <1>10. s = SubSeq(string, 1, Len(string) - lost)
    BY DEF StringOf, string, head, P, c, w, K
  <1> HIDE DEF string, s
  <1> DEFINE l == Len(string) - lost
  <1>11. /\ Len(P) \in Nat /\ l \in Nat /\ l = 2 + Len(P) - lost
    BY <1>6, <1>9
  <1>12. s \in Seq(Nat) /\ Len(s) = l /\ \A q \in 1 .. l : s[q] = string[q]
    <2>1. l \in Int /\ 1 \in Int /\ l <= Len(string)
      BY <1>9, <1>11
    <2>2. \A i \in 1 .. l : string[i] \in Nat
      BY <1>9, <2>1
    <2> HIDE DEF l
    <2>3. /\ SubSeq(string, 1, l) \in Seq(Nat)
          /\ Len(SubSeq(string, 1, l)) = IF 1 <= l THEN l - 1 + 1 ELSE 0
          /\ \A i \in 1 .. l - 1 + 1 : SubSeq(string, 1, l)[i] = string[1 + i - 1]
      BY <2>1, <2>2, SubSeqProperties
    <2>4. s = SubSeq(string, 1, l)
      BY <1>10 DEF l
    <2> QED
      BY <1>11, <2>1, <2>3, <2>4
  <1> HIDE DEF l
  <1>13. Len(s) <= Len(P) + 2 /\ (lost = 0 => Len(s) = Len(P) + 2)
    BY <1>11, <1>12
  <1>14. ASSUME Len(s) >= 2 PROVE s[1] + s[2] * c = kept
    <2>1. s[1] = kept % c /\ s[2] = kept \div c
      BY <1>8, <1>9, <1>11, <1>12, <1>14
    <2> DEFINE q == kept \div c
               r == kept % c
    <2> HIDE DEF q, r
    <2>2. kept = c * q + r /\ q \in Nat /\ r \in Nat
      BY <1>7 DEF q, r
    <2>3. r + q * c = kept
      BY <1>5, <2>2
    <2> QED
      BY <2>1, <2>3 DEF q, r
  <1>15. ASSUME NEW q \in 1 .. Len(s) - 2 PROVE s[2 + q] = P[q]
    <2>1. 2 + q \in 1 .. l /\ q \in 1 .. Len(P)
      BY <1>11, <1>12
    <2> QED
      BY <1>9, <1>12, <2>1
  <1>16. IsStringOf(s, K, lost)
    BY <1>3, <1>12, <1>13, <1>14, <1>15 DEF IsStringOf, P, c
  <1> QED
    BY <1>0, <1>3, <1>16 DEF s, K, w

\* More bits make larger numbers.
LEMMA PowerGrows ==
    ASSUME NEW m \in Nat, NEW n \in Nat, m <= n
    PROVE  2 ^ m <= 2 ^ n
  <1> DEFINE l == n - m
             b == 2 ^ m
             c == 2 ^ l
  <1>1. l \in Nat /\ n = m + l
    OBVIOUS
  <1>2. b \in Nat \ {0} /\ c \in Nat \ {0}
    BY <1>1, PowerType
  <1>3. 2 ^ (m + l) = b * c
    BY <1>1, PowerOfSum
  <1> HIDE DEF b, c, l
  <1>4. b <= b * c
    BY <1>2
  <1> QED
    BY <1>1, <1>3, <1>4 DEF b

\* A character above the bits of the register.
LEMMA Refilled ==
    ASSUME NEW b \in Nat, NEW v \in 0 .. 2 ^ b - 1, NEW h \in 0 .. 2 ^ CharBits - 1
    PROVE  /\ v + h * 2 ^ b \in 0 .. 2 ^ (b + CharBits) - 1
           /\ v + h * 2 ^ b = 2 ^ b * h + v
  <1> DEFINE w == 2 ^ b
             c == 2 ^ CharBits
  <1>1. w \in Nat \ {0} /\ c \in Nat \ {0}
    BY Widths, PowerType
  <1>2. 2 ^ (b + CharBits) = w * c
    BY Widths, PowerOfSum
  <1>3. v \in 0 .. w - 1 /\ h \in 0 .. c - 1
    OBVIOUS
  <1> HIDE DEF w, c
  <1>4. w * h + v \in 0 .. w * c - 1
    BY <1>1, <1>3, DigitBound
  <1>5. v + h * w = w * h + v
    BY <1>1, <1>3
  <1> QED
    BY <1>2, <1>4, <1>5 DEF w

\* A byte taken out of a register of n bits leaves the others.
LEMMA ByteTaken ==
    ASSUME NEW n \in Nat, NEW v \in 0 .. 2 ^ n - 1
    PROVE  /\ v % 2 ^ ByteBits \in Byte
           /\ n >= ByteBits => v \div 2 ^ ByteBits \in 0 .. 2 ^ (n - ByteBits) - 1
           /\ n < ByteBits => v \div 2 ^ ByteBits = 0
  <1> DEFINE b == 2 ^ ByteBits
  <1>1. b \in Nat \ {0} /\ ByteBits \in Nat /\ 2 ^ n \in Nat \ {0}
    BY Widths, PowerType
  <1>2. v \in Nat /\ v < 2 ^ n
    BY <1>1
  <1> HIDE DEF b
  <1>3. v % b \in 0 .. b - 1 /\ v \div b \in Nat
    BY <1>1, <1>2, DivMod
  <1>4. CASE n >= ByteBits
    <2> DEFINE c == 2 ^ (n - ByteBits)
    <2>1. n - ByteBits \in Nat /\ ByteBits + (n - ByteBits) = n
      BY <1>1, <1>4
    <2>2. c \in Nat \ {0}
      BY <2>1, PowerType
    <2>3. 2 ^ (ByteBits + (n - ByteBits)) = 2 ^ ByteBits * c
      BY <1>1, <2>1, PowerOfSum
    <2> HIDE DEF c
    <2>4. 2 ^ n = b * c
      BY <2>1, <2>3 DEF b
    <2>5. b * c \in Nat \ {0} /\ v < b * c
      BY <1>1, <1>2, <2>4
    <2>6. v \div (b * c) = 0
      <3> DEFINE d == b * c
      <3> HIDE DEF d
      <3>1. d \in Nat \ {0} /\ v < d
        BY <2>5 DEF d
      <3>2. v \div d = 0
        BY <1>2, <3>1, DivIsZero
      <3> QED
        BY <3>2 DEF d
    <2>7. v \div (b * c) = (v \div b) \div c
      BY <1>1, <1>2, <2>2, DividedTwice, Zenon
    <2>8. v \div b < c
      <3> DEFINE q == v \div b
      <3>1. q \in Nat /\ q \div c = 0
        BY <1>3, <2>6, <2>7
      <3> HIDE DEF q
      <3>2. q < c
        BY <2>2, <3>1, DivIsZero
      <3> QED
        BY <3>2 DEF q
    <2> QED
      BY <1>1, <1>3, <1>4, <2>2, <2>8 DEF b, c, Byte
  <1>5. CASE n < ByteBits
    <2>1. 2 ^ n <= b
      BY <1>1, <1>5, PowerGrows DEF b
    <2>2. v < b
      BY <1>1, <1>2, <2>1
    <2>3. v \div b = 0
      BY <1>1, <1>2, <2>2, DivIsZero
    <2> QED
      BY <1>1, <1>3, <1>5, <2>3 DEF b, Byte
  <1> QED
    BY <1>1, <1>4, <1>5

-----------------------------------------------------------------------------
(* The inductive invariant.                                                *)

\* What was sent does not change.
WrittenBytes == ContentBytes(sent.content, sent.flag)
Sent ==
    /\ sent.content \in Contents /\ sent.flag \in BOOLEAN
    /\ sent.kept \in 0 .. Len(WrittenBytes) /\ sent.lost \in 0 .. 2

\* The types that TypeOK needs: the register is below 2 ^ bits, so that nothing
\* is left of it when the characters have run out.
Named == [mod : Nat, name : Nat]
Types ==
    /\ Sent
    /\ impl \in {"python", "rust"} /\ phase \in Phases
    /\ impl = "rust" => phase \in {"size", "done"}
    /\ bits \in 0 .. CharBits - 1 /\ value \in 0 .. 2 ^ bits - 1
    /\ phase = "unpack" => chars \in Seq(0 .. 2 ^ CharBits - 1) /\ size \in Nat
    /\ buffer \in Seq(Byte) /\ pos \in 0 .. Len(buffer)
    /\ truncated \in BOOLEAN
    /\ left \in Nat /\ (phase = "mod_channels" => left > 0)
    /\ cur \in [id : Nat, todo : Nat, channels : Seq(Named)]

\* Before a byte is unpacked.
Start ==
    phase = "size" =>
        /\ chars = StringOf(sent.content, sent.flag, sent.kept, sent.lost)
        /\ value = 0 /\ bits = 0 /\ buffer = << >>

\* The buffer is what the server wrote, as far as it goes.
Copied == \A q \in 1 .. Len(buffer) : buffer[q] = WrittenBytes[q]

\* The register holds the bits between the bytes that were unpacked and the
\* characters that were not read.
KeptBytes == SubSeq(WrittenBytes, 1, sent.kept)
RestOf(string, s) ==
    /\ Len(s) <= Len(string)
    /\ \A q \in 1 .. Len(s) : s[q] = string[Len(string) - Len(s) + q]
Unpacking ==
    sent.lost = 0 /\ phase = "unpack" =>
        /\ size = sent.kept /\ Len(buffer) <= size
        /\ RestOf(Packed(KeptBytes), chars)
        /\ ByteBits * Len(buffer) + bits = CharBits * (Len(Packed(KeptBytes)) - Len(chars))
        /\ \A N : IsStream(N, KeptBytes) =>
              value = (N \div 2 ^ (ByteBits * Len(buffer))) % 2 ^ bits

\* Every byte arrives.
Received ==
    impl = "python" /\ sent.lost = 0 =>
        /\ Copied
        /\ phase \notin {"size", "unpack", "raised"} => Len(buffer) = sent.kept

\* The channels of the first i mods of a content, and j channels without a mod.
ChannelsOfMods(content) ==
    [m \in 1 .. Len(content.mods) |-> ChannelsOf(m, content.mods[m].channels)]
Channels(content, i, j) ==
    Leading(ChannelsOfMods(content), i) \o SubSeq(ChannelsOf(0, content.extra), 1, j)
Listed(i, j) ==
    /\ mods = [m \in 1 .. i |-> m]
    /\ channels = Channels(sent.content, i, j)

\* Where the decoder stands in what the server wrote.
Count == Len(sent.content.mods)
End(i) == Ends(sent.content)[i]
BehindMod(i) == Listed(i, 0) /\ left = Count - i /\ pos = End(i)
InMod(i, k) ==
    LET mod == sent.content.mods[i]
    IN  /\ Listed(i - 1, 0) /\ left = Count - i + 1
        /\ pos = End(i - 1) + HeadSize(mod) + 3 * k
        /\ cur.id = i /\ cur.todo = Len(mod.channels) - k
        /\ cur.channels = SubSeq(ChannelsOf(i, mod.channels), 1, k)
BehindChannel(j) ==
    /\ Listed(Count, j) /\ left = Len(sent.content.extra) - j
    /\ pos = End(Count) + 1 + 3 * j
Ended(i, j) ==
    /\ Listed(i, j) /\ (j > 0 => i = Count)
    /\ ~truncated => i = Count /\ j = Len(sent.content.extra)
Parsing ==
    /\ phase \in {"size", "unpack", "header"} => Listed(0, 0) /\ pos = 0
    /\ phase = "mods" => \E i \in 0 .. Count : BehindMod(i)
    /\ phase = "mod_channels" =>
          \E i \in 1 .. Count : \E k \in 0 .. Len(sent.content.mods[i].channels) : InMod(i, k)
    /\ phase = "count" => Listed(Count, 0) /\ pos = End(Count)
    /\ phase = "channels" => \E j \in 0 .. Len(sent.content.extra) : BehindChannel(j)
    /\ phase = "done" =>
          \E i \in 0 .. Count : \E j \in 0 .. Len(sent.content.extra) : Ended(i, j)
    /\ phase = "raised" => ~Whole
Decoding == impl = "python" /\ sent.lost = 0 => Parsing

IInv == Types /\ Start /\ Unpacking /\ Received /\ Decoding

\* The types at the start.
LEMMA TypesInit == Init => Types
  <1> SUFFICES ASSUME Init PROVE Types
    OBVIOUS
  <1>1. Sent
    <2>1. PICK content \in Contents, flag \in BOOLEAN :
             \E kept \in 0 .. Len(ContentBytes(content, flag)), lost \in 0 .. 2 :
                sent = [content |-> content, flag |-> flag, kept |-> kept, lost |-> lost]
      BY DEF Init
    <2>2. PICK kept \in 0 .. Len(ContentBytes(content, flag)), lost \in 0 .. 2 :
             sent = [content |-> content, flag |-> flag, kept |-> kept, lost |-> lost]
      BY <2>1
    <2>3. /\ sent.content = content /\ sent.flag = flag
          /\ sent.kept = kept /\ sent.lost = lost
      BY <2>2
    <2> QED
      BY <2>3 DEF Sent, WrittenBytes
  <1>2. bits \in 0 .. CharBits - 1 /\ value \in 0 .. 2 ^ bits - 1
    <2>1. bits = 0 /\ value = 0
      BY DEF Init
    <2> QED
      BY <2>1, Widths
  <1>3. cur \in [id : Nat, todo : Nat, channels : Seq(Named)]
    BY DEF Init, None
  <1>4. /\ impl \in {"python", "rust"} /\ phase = "size" /\ buffer = << >> /\ pos = 0
        /\ truncated = FALSE /\ left = 0
    BY DEF Init
  <1>5. buffer \in Seq(Byte) /\ pos \in 0 .. Len(buffer)
    BY <1>4
  <1> QED
    BY <1>1, <1>2, <1>3, <1>4, <1>5 DEF Types, Phases

\* What was sent, in the next state.
LEMMA SentKept ==
    ASSUME Sent, sent' = sent
    PROVE  Sent'
  BY DEF Sent, WrittenBytes

\* The steps that do not unpack.
Decoders ==
    \/ HeaderMissing \/ ReadHeader \/ ReadMod \/ ReadModChannel \/ ModDone \/ ReadCount
    \/ ReadChannelCount \/ ReadChannel \/ Finish \/ DataEnds
    \/ SizeMissing \/ Unpacked \/ RustDecode \/ Terminating

\* They leave the register and the buffer alone.
LEMMA RegisterAlone ==
    ASSUME Decoders
    PROVE  /\ sent' = sent /\ impl' = impl /\ buffer' = buffer
           /\ chars' = chars /\ size' = size /\ value' = value /\ bits' = bits
  BY DEF Decoders, HeaderMissing, ReadHeader, ReadMod, ReadModChannel, ModDone, ReadCount,
         ReadChannelCount, ReadChannel, Finish, DataEnds, SizeMissing, Unpacked, RustDecode,
         Terminating, register, vars

\* A byte of the buffer is a number.
LEMMA AtType ==
    ASSUME Types, NEW i \in Nat \ {0}, pos + i <= Len(buffer)
    PROVE  At(i) \in Byte /\ At(i) \in Nat
  <1>1. buffer \in Seq(Byte) /\ pos \in 0 .. Len(buffer)
    BY DEF Types
  <1>2. pos + i \in 1 .. Len(buffer)
    BY <1>1
  <1>3. buffer[pos + i] \in Byte
    BY <1>1, <1>2
  <1>4. Byte \subseteq Nat
    BY Widths DEF Byte
  <1> QED
    BY <1>3, <1>4 DEF At

\* The types of what the decoder changes.
Decoded ==
    /\ phase \in Phases \ {"unpack"} /\ pos \in 0 .. Len(buffer)
    /\ impl = "rust" => phase \in {"size", "done"}
    /\ truncated \in BOOLEAN
    /\ left \in Nat /\ (phase = "mod_channels" => left > 0)
    /\ cur \in [id : Nat, todo : Nat, channels : Seq(Named)]

\* They hold after each such step.
LEMMA DecodedStep ==
    ASSUME Types, Decoders
    PROVE  Decoded'
  <1>1. /\ impl \in {"python", "rust"} /\ phase \in Phases
        /\ impl = "rust" => phase \in {"size", "done"}
        /\ pos \in 0 .. Len(buffer) /\ Len(buffer) \in Nat
        /\ truncated \in BOOLEAN
        /\ left \in Nat /\ (phase = "mod_channels" => left > 0)
        /\ cur \in [id : Nat, todo : Nat, channels : Seq(Named)]
    BY DEF Types
  <1>2. impl' = impl /\ buffer' = buffer
    BY RegisterAlone
  <1>3. None \in [id : Nat, todo : Nat, channels : Seq(Named)]
    BY DEF None
  <1>4. CASE HeaderMissing
    BY <1>1, <1>2, <1>4 DEF HeaderMissing, Decoded, Phases
  <1>5. CASE ReadHeader
    <2>1. At(2) \in Nat
      BY <1>1, <1>5, AtType DEF ReadHeader, Has
    <2> QED
      BY <1>1, <1>2, <1>5, <2>1 DEF ReadHeader, Has, Decoded, Phases
  <1>6. CASE ReadMod
    <2>1. ModSize \in {2, 3}
      BY DEF ModSize
    <2>2. pos + ModSize <= Len(buffer)
      BY <1>1, <1>6, <2>1 DEF ReadMod, HasMod, Has
    <2>3. At(1) \in Nat /\ At(2) \in Nat
      BY <1>1, <2>1, <2>2, AtType
    <2>4. At(1) \div 2 \in Nat
      BY <2>3
    <2>5. cur' \in [id : Nat, todo : Nat, channels : Seq(Named)]
      BY <1>6, <2>3, <2>4 DEF ReadMod
    <2>6. pos' \in 0 .. Len(buffer)
      BY <1>1, <1>6, <2>1, <2>2 DEF ReadMod
    <2>7. /\ phase = "mods" /\ left > 0 /\ phase' = "mod_channels"
          /\ truncated' = truncated /\ left' = left
      BY <1>6 DEF ReadMod
    <2>8. truncated' \in BOOLEAN /\ left' \in Nat /\ left' > 0
      BY <1>1, <2>7
    <2>9. phase' \in Phases \ {"unpack"}
      BY <2>7 DEF Phases
    <2>10. impl' = "rust" => phase' \in {"size", "done"}
      BY <1>1, <1>2, <2>7
    <2> QED
      BY <1>2, <2>5, <2>6, <2>8, <2>9, <2>10 DEF Decoded
  <1>7. CASE ReadModChannel
    <2>1. At(1) \in Nat /\ pos + 3 <= Len(buffer)
      <3>1. pos + 3 <= Len(buffer)
        BY <1>1, <1>7 DEF ReadModChannel, Has
      <3> QED
        BY <1>1, <3>1, AtType
    <2>2. [mod |-> cur.id, name |-> At(1)] \in Named
      BY <1>1, <2>1 DEF Named
    <2>3. Append(cur.channels, [mod |-> cur.id, name |-> At(1)]) \in Seq(Named)
      <3> DEFINE N == Named
      <3> HIDE DEF N
      <3>1. cur.channels \in Seq(N) /\ [mod |-> cur.id, name |-> At(1)] \in N
        BY <1>1, <2>2 DEF N
      <3>2. Append(cur.channels, [mod |-> cur.id, name |-> At(1)]) \in Seq(N)
        BY <3>1
      <3> QED
        BY <3>2 DEF N
    <2>4. cur.todo - 1 \in Nat
      BY <1>1, <1>7 DEF ReadModChannel
    <2>5. cur' \in [id : Nat, todo : Nat, channels : Seq(Named)]
      BY <1>1, <1>7, <2>3, <2>4 DEF ReadModChannel
    <2>6. pos' \in 0 .. Len(buffer)
      BY <1>1, <1>7, <2>1 DEF ReadModChannel
    <2> QED
      BY <1>1, <1>2, <1>7, <2>5, <2>6 DEF ReadModChannel, Decoded, Phases
  <1>8. CASE ModDone
    BY <1>1, <1>2, <1>3, <1>8 DEF ModDone, Decoded, Phases
  <1>9. CASE ReadCount
    BY <1>1, <1>2, <1>9 DEF ReadCount, Decoded, Phases
  <1>10. CASE ReadChannelCount
    <2>1. At(1) \in Nat
      BY <1>1, <1>10, AtType DEF ReadChannelCount, Has
    <2> QED
      BY <1>1, <1>2, <1>10, <2>1 DEF ReadChannelCount, Has, Decoded, Phases
  <1>11. CASE ReadChannel
    BY <1>1, <1>2, <1>11 DEF ReadChannel, Has, Decoded, Phases
  <1>12. CASE Finish
    BY <1>1, <1>2, <1>12 DEF Finish, Decoded, Phases
  <1>13. CASE DataEnds
    <2>1. phase' \in {"done", "raised"} /\ phase \in {"mods", "mod_channels", "count", "channels"}
      BY <1>13 DEF DataEnds, Short
    <2> QED
      BY <1>1, <1>2, <1>3, <1>13, <2>1 DEF DataEnds, Decoded, Phases
  <1>14. CASE SizeMissing
    BY <1>1, <1>2, <1>14 DEF SizeMissing, Decoded, Phases
  <1>15. CASE Unpacked
    BY <1>1, <1>2, <1>15 DEF Unpacked, Decoded, Phases
  <1>16. CASE RustDecode
    BY <1>1, <1>2, <1>16 DEF RustDecode, Decoded, Phases
  <1>17. CASE Terminating
    BY <1>1, <1>2, <1>17 DEF Terminating, vars, Decoded, Phases
  <1> QED
    BY <1>4, <1>5, <1>6, <1>7, <1>8, <1>9, <1>10, <1>11, <1>12, <1>13, <1>14, <1>15, <1>16,
       <1>17 DEF Decoders

\* The size and the rest of the string are read.
LEMMA SizeRead ==
    ASSUME Types, Start, ReadSize
    PROVE  /\ sent' = sent /\ size' = sent.kept /\ sent.kept \in Nat
           /\ chars' \in Seq(0 .. 2 ^ CharBits - 1)
           /\ KeptBytes \in Seq(Byte) /\ Len(KeptBytes) = sent.kept
           /\ Len(chars') = Len(chars) - 2
           /\ sent.lost = 0 => Len(chars') = Len(Packed(KeptBytes))
           /\ \A q \in 1 .. Len(chars') : chars'[q] = Packed(KeptBytes)[q]
  <1> DEFINE P == Packed(KeptBytes)
             c == 2 ^ CharBits
             T == 0 .. c - 1
  <1>1. Sent /\ phase = "size" /\ Len(chars) >= 2
    BY DEF Types, ReadSize
  <1>2. chars = StringOf(sent.content, sent.flag, sent.kept, sent.lost)
    BY <1>1 DEF Start
  <1>3. /\ sent.content \in Contents /\ sent.flag \in BOOLEAN /\ sent.lost \in 0 .. 2
        /\ sent.kept \in 0 .. Len(ContentBytes(sent.content, sent.flag))
        /\ KeptBytes = SubSeq(ContentBytes(sent.content, sent.flag), 1, sent.kept)
    BY <1>1 DEF Sent, WrittenBytes, KeptBytes
  <1>4. /\ KeptBytes \in Seq(Byte) /\ Len(KeptBytes) = sent.kept
        /\ chars \in Seq(Nat) /\ P \in Seq(0 .. 2 ^ CharBits - 1)
        /\ Len(chars) <= Len(P) + 2
        /\ sent.lost = 0 => Len(chars) = Len(P) + 2
        /\ Len(chars) >= 2 => chars[1] + chars[2] * 2 ^ CharBits = sent.kept
        /\ \A q \in 1 .. Len(chars) - 2 : chars[2 + q] = P[q]
    <2> DEFINE content == sent.content
               flag == sent.flag
               kept == sent.kept
               lost == sent.lost
               K == SubSeq(ContentBytes(content, flag), 1, kept)
    <2>1. /\ content \in Contents /\ flag \in BOOLEAN /\ lost \in 0 .. 2
          /\ kept \in 0 .. Len(ContentBytes(content, flag))
      BY <1>3
    <2> HIDE DEF content, flag, kept, lost
    <2>2. /\ K \in Seq(Byte) /\ Len(K) = kept
          /\ IsStringOf(StringOf(content, flag, kept, lost), K, lost)
      BY <2>1, StringStands, Zenon
    <2>3. K = KeptBytes /\ StringOf(content, flag, kept, lost) = chars
      BY <1>2, <1>3 DEF content, flag, kept, lost
    <2> HIDE DEF K
    <2>4. /\ KeptBytes \in Seq(Byte) /\ Len(KeptBytes) = sent.kept
          /\ IsStringOf(chars, KeptBytes, sent.lost)
      BY <2>2, <2>3 DEF kept, lost
    <2>5. P \in Seq(0 .. 2 ^ CharBits - 1)
      BY <2>4, PackedOf
    <2> QED
      BY <2>4, <2>5 DEF IsStringOf
  <1> HIDE DEF P
  <1>5. size' = sent.kept /\ sent' = sent /\ chars' = SubSeq(chars, 3, Len(chars))
    BY <1>1, <1>4 DEF ReadSize
  <1> DEFINE l == Len(chars)
  <1>6. l \in Nat /\ l >= 2 /\ Len(P) \in Nat
    BY <1>1, <1>4
  <1>7. \A i \in 3 .. l : chars[i] \in T
    <2>1. ASSUME NEW i \in 3 .. l PROVE chars[i] \in T
      <3> DEFINE q == i - 2
      <3>1. q \in 1 .. l - 2 /\ i = 2 + q /\ q \in 1 .. Len(P)
        BY <1>4, <1>6
      <3> HIDE DEF q, l
      <3>2. chars[2 + q] = P[q]
        BY <1>4, <3>1 DEF l
      <3>3. P[q] \in T
        <4>1. P \in Seq(T)
          BY <1>4
        <4> HIDE DEF T
        <4> QED
          BY <3>1, <4>1
      <3> QED
        BY <3>1, <3>2, <3>3
    <2> QED
      BY <2>1
  <1> HIDE DEF T
  <1>8. /\ SubSeq(chars, 3, l) \in Seq(T)
        /\ Len(SubSeq(chars, 3, l)) = IF 3 <= l THEN l - 3 + 1 ELSE 0
        /\ \A i \in 1 .. l - 3 + 1 : SubSeq(chars, 3, l)[i] = chars[3 + i - 1]
    <2> HIDE DEF l
    <2>1. 3 \in Int /\ l \in Int
      BY <1>6
    <2> QED
      BY <1>7, <2>1, SubSeqProperties
  <1> DEFINE d == chars'
  <1>9. d = SubSeq(chars, 3, l)
    BY <1>5
  <1> HIDE DEF d, l
  <1>10. d \in Seq(T) /\ Len(d) = l - 2
    BY <1>6, <1>8, <1>9
  <1>11. ASSUME NEW q \in 1 .. Len(d) PROVE d[q] = P[q]
    <2>1. q \in 1 .. l - 3 + 1 /\ q \in 1 .. l - 2 /\ 3 + q - 1 = 2 + q
      BY <1>6, <1>10
    <2>2. d[q] = chars[3 + q - 1]
      BY <1>8, <1>9, <2>1
    <2>3. chars[2 + q] = P[q]
      BY <1>4, <2>1 DEF l
    <2> QED
      BY <2>1, <2>2, <2>3
  <1>12. sent.lost = 0 => Len(d) = Len(P)
    BY <1>4, <1>6, <1>10 DEF l
  <1>13. sent.kept \in Nat
    BY <1>4
  <1> QED
    BY <1>4, <1>5, <1>10, <1>11, <1>12, <1>13 DEF d, P, T, l

\* What the register holds before a byte is taken out.
Filled == IF NeedsChar THEN value + Head(chars) * 2 ^ bits ELSE value
FilledBits == IF NeedsChar THEN bits + CharBits ELSE bits

\* The register stays below 2 ^ bits.
LEMMA RegisterStep ==
    ASSUME Types, UnpackByte
    PROVE  /\ FilledBits \in Nat /\ Filled \in 0 .. 2 ^ FilledBits - 1
           /\ bits' = IF FilledBits < ByteBits THEN 0 ELSE FilledBits - ByteBits
           /\ value' = Filled \div 2 ^ ByteBits
           /\ buffer' = Append(buffer, Filled % 2 ^ ByteBits)
           /\ chars' = IF NeedsChar THEN Tail(chars) ELSE chars
           /\ bits' \in 0 .. CharBits - 1 /\ value' \in 0 .. 2 ^ bits' - 1
           /\ Filled % 2 ^ ByteBits \in Byte
           /\ chars' \in Seq(0 .. 2 ^ CharBits - 1)
           /\ buffer' \in Seq(Byte) /\ Len(buffer') = Len(buffer) + 1
  <1> DEFINE T == 0 .. 2 ^ CharBits - 1
  <1>1. /\ bits \in 0 .. CharBits - 1 /\ value \in 0 .. 2 ^ bits - 1
        /\ phase = "unpack" /\ chars \in Seq(T) /\ buffer \in Seq(Byte)
    BY DEF Types, UnpackByte
  <1>2. /\ ByteBits \in Nat \ {0} /\ CharBits \in Nat \ {0}
        /\ ByteBits < CharBits /\ CharBits < 2 * ByteBits
    BY Widths
  <1> HIDE DEF T
  <1>3. /\ bits' = IF FilledBits < ByteBits THEN 0 ELSE FilledBits - ByteBits
        /\ value' = Filled \div 2 ^ ByteBits
        /\ buffer' = Append(buffer, Filled % 2 ^ ByteBits)
        /\ chars' = IF NeedsChar THEN Tail(chars) ELSE chars
    BY DEF UnpackByte, Filled, FilledBits
  <1>4. FilledBits \in Nat /\ Filled \in 0 .. 2 ^ FilledBits - 1
    <2>1. CASE NeedsChar
      <3> DEFINE h == Head(chars)
      <3>1. h \in T
        BY <1>1, <2>1 DEF NeedsChar
      <3> HIDE DEF h
      <3>2. h \in 0 .. 2 ^ CharBits - 1 /\ bits \in Nat
        BY <1>1, <3>1 DEF T
      <3>3. value + h * 2 ^ bits \in 0 .. 2 ^ (bits + CharBits) - 1
        BY <1>1, <3>2, Refilled
      <3> QED
        BY <1>1, <1>2, <2>1, <3>3 DEF Filled, FilledBits, h
    <2>2. CASE ~NeedsChar
      BY <1>1, <2>2 DEF Filled, FilledBits
    <2> QED
      BY <2>1, <2>2
  <1>5. /\ Filled % 2 ^ ByteBits \in Byte
        /\ FilledBits >= ByteBits => Filled \div 2 ^ ByteBits \in 0 .. 2 ^ (FilledBits - ByteBits) - 1
        /\ FilledBits < ByteBits => Filled \div 2 ^ ByteBits = 0
    BY <1>4, ByteTaken
  <1>6. bits' \in 0 .. CharBits - 1
    <2>1. FilledBits <= bits + CharBits /\ (~NeedsChar => FilledBits = bits)
      BY <1>1, <1>2 DEF FilledBits
    <2>2. CASE NeedsChar
      <3>1. bits < ByteBits
        BY <2>2 DEF NeedsChar
      <3> QED
        BY <1>1, <1>2, <1>3, <1>4, <2>1, <3>1
    <2>3. CASE ~NeedsChar
      BY <1>1, <1>2, <1>3, <1>4, <2>1, <2>3
    <2> QED
      BY <2>2, <2>3
  <1>7. value' \in 0 .. 2 ^ bits' - 1
    <2>1. CASE FilledBits >= ByteBits
      <3>1. bits' = FilledBits - ByteBits
        BY <1>2, <1>3, <1>4, <2>1
      <3> QED
        BY <1>3, <1>5, <2>1, <3>1
    <2>2. CASE FilledBits < ByteBits
      <3>1. bits' = 0 /\ value' = 0
        BY <1>3, <1>5, <2>2
      <3> QED
        BY <3>1, Widths
    <2> QED
      BY <1>2, <1>4, <2>1, <2>2
  <1>8. chars' \in Seq(T)
    BY <1>1, <1>3 DEF NeedsChar
  <1>9. buffer' \in Seq(Byte) /\ Len(buffer') = Len(buffer) + 1
    <2> DEFINE B == Byte
               e == Filled % 2 ^ ByteBits
    <2>1. buffer \in Seq(B) /\ e \in B /\ buffer' = Append(buffer, e)
      BY <1>1, <1>3, <1>5
    <2> HIDE DEF B, e
    <2>2. buffer' \in Seq(B) /\ Len(buffer') = Len(buffer) + 1
      BY <2>1
    <2> QED
      BY <2>2 DEF B
  <1> QED
    BY <1>3, <1>4, <1>5, <1>6, <1>7, <1>8, <1>9 DEF T

\* The types after each step.
LEMMA TypesStep ==
    ASSUME Types, Start, [Next]_vars
    PROVE  Types'
  <1>1. /\ Sent /\ impl \in {"python", "rust"} /\ phase \in Phases
        /\ bits \in 0 .. CharBits - 1 /\ value \in 0 .. 2 ^ bits - 1
        /\ buffer \in Seq(Byte) /\ pos \in 0 .. Len(buffer)
        /\ truncated \in BOOLEAN
        /\ left \in Nat /\ (phase = "mod_channels" => left > 0)
        /\ cur \in [id : Nat, todo : Nat, channels : Seq(Named)]
        /\ phase = "unpack" => chars \in Seq(0 .. 2 ^ CharBits - 1) /\ size \in Nat
        /\ impl = "rust" => phase \in {"size", "done"}
    BY DEF Types
  <1>2. CASE Decoders
    <2>1. Decoded'
      BY <1>2, DecodedStep
    <2>2. /\ sent' = sent /\ impl' = impl /\ buffer' = buffer
          /\ value' = value /\ bits' = bits
      BY <1>2, RegisterAlone
    <2>3. Sent'
      BY <1>1, <2>2, SentKept
    <2> QED
      BY <1>1, <2>1, <2>2, <2>3 DEF Types, Decoded
  <1>3. CASE ReadSize
    <2>1. /\ sent' = sent /\ chars' \in Seq(0 .. 2 ^ CharBits - 1) /\ size' \in Nat
      BY <1>3, SizeRead
    <2>2. Sent'
      BY <1>1, <2>1, SentKept
    <2>3. /\ impl = "python" /\ impl' = impl /\ phase' = "unpack" /\ bits' = bits
          /\ value' = value /\ buffer' = buffer /\ pos' = pos /\ truncated' = truncated
          /\ left' = left /\ cur' = cur
      BY <1>3 DEF ReadSize
    <2> QED
      BY <1>1, <2>1, <2>2, <2>3 DEF Types, Phases
  <1>4. CASE UnpackByte
    <2>1. /\ sent' = sent /\ impl' = impl /\ phase = "unpack" /\ phase' = phase /\ size' = size
          /\ pos' = pos /\ truncated' = truncated /\ left' = left /\ cur' = cur
      BY <1>4 DEF UnpackByte
    <2>2. Sent'
      BY <1>1, <2>1, SentKept
    <2>3. /\ bits' \in 0 .. CharBits - 1 /\ value' \in 0 .. 2 ^ bits' - 1
          /\ chars' \in Seq(0 .. 2 ^ CharBits - 1)
          /\ buffer' \in Seq(Byte) /\ Len(buffer') = Len(buffer) + 1
      BY <1>4, RegisterStep
    <2>4. pos' \in 0 .. Len(buffer')
      <3>1. Len(buffer) \in Nat
        BY <1>1
      <3> QED
        BY <1>1, <2>1, <2>3, <3>1
    <2> QED
      BY <1>1, <2>1, <2>2, <2>3, <2>4 DEF Types
  <1>5. CASE UNCHANGED vars
    <2>1. Terminating \/ UNCHANGED vars
      BY <1>5
    <2>2. /\ sent' = sent /\ impl' = impl /\ phase' = phase /\ bits' = bits /\ value' = value
          /\ chars' = chars /\ size' = size /\ buffer' = buffer /\ pos' = pos
          /\ truncated' = truncated /\ left' = left /\ cur' = cur
      BY <1>5 DEF vars, register
    <2>3. Sent'
      BY <1>1, <2>2, SentKept
    <2> QED
      BY <1>1, <2>2, <2>3 DEF Types
  <1> QED
    BY <1>2, <1>3, <1>4, <1>5 DEF Next, Decoders

\* No step comes back to the start.
LEMMA StartStep ==
    ASSUME Types, Start, [Next]_vars
    PROVE  Start'
  <1>1. CASE UNCHANGED vars
    BY <1>1 DEF Start, vars, register
  <1>2. CASE Next
    <2>1. phase' # "size"
      BY <1>2 DEF Next, ReadSize, SizeMissing, UnpackByte, Unpacked, ReadHeader,
             HeaderMissing, ReadMod, ReadModChannel, ModDone, ReadCount, ReadChannelCount,
             ReadChannel, Finish, DataEnds, RustDecode, Terminating, vars
    <2> QED
      BY <2>1 DEF Start
  <1> QED
    BY <1>1, <1>2

\* A larger number of bytes has more bits.
LEMMA TimesGrows ==
    ASSUME NEW b \in Nat \ {0}, NEW x \in Nat, NEW y \in Nat, x >= y
    PROVE  b * x >= b * y
  <1> DEFINE d == x - y
  <1>1. d \in Nat /\ x = y + d
    OBVIOUS
  <1> HIDE DEF d
  <1>2. b * x = b * y + b * d /\ b * d \in Nat /\ b * y \in Nat
    BY <1>1
  <1> QED
    BY <1>2

\* The bytes that the server kept.
LEMMA KeptType ==
    ASSUME Sent
    PROVE  /\ sent.kept \in Nat /\ KeptBytes \in Seq(Byte) /\ Len(KeptBytes) = sent.kept
           /\ \A q \in 1 .. sent.kept : KeptBytes[q] = WrittenBytes[q]
  <1> DEFINE content == sent.content
             flag == sent.flag
             kept == sent.kept
             lost == sent.lost
             w == ContentBytes(content, flag)
             K == SubSeq(ContentBytes(content, flag), 1, kept)
  <1>1. /\ content \in Contents /\ flag \in BOOLEAN /\ lost \in 0 .. 2
        /\ kept \in 0 .. Len(ContentBytes(content, flag))
    BY DEF Sent, WrittenBytes
  <1>2. w = WrittenBytes /\ K = KeptBytes
    BY DEF WrittenBytes, KeptBytes
  <1> HIDE DEF content, flag, kept, lost
  <1>3. K \in Seq(Byte) /\ Len(K) = kept /\ Stands(w, 0, K)
    BY <1>1, StringStands, Zenon
  <1> HIDE DEF w, K
  <1>4. kept \in Nat
    BY <1>3
  <1>5. ASSUME NEW q \in 1 .. kept PROVE K[q] = w[q]
    <2>1. w[0 + q] = K[q] /\ 0 + q = q
      BY <1>3 DEF Stands
    <2> QED
      BY <2>1
  <1> QED
    BY <1>2, <1>3, <1>4, <1>5 DEF kept

\* The register after it took a character, if it needed one: it holds the next
\* bits of the stream, a byte of them at least.
LEMMA FilledOf ==
    ASSUME Types, Unpacking, UnpackByte, sent.lost = 0
    PROVE  /\ FilledBits >= ByteBits
           /\ RestOf(Packed(KeptBytes), chars')
           /\ ByteBits * Len(buffer) + FilledBits = CharBits * (Len(Packed(KeptBytes)) - Len(chars'))
           /\ \A N : IsStream(N, KeptBytes) =>
                 Filled = (N \div 2 ^ (ByteBits * Len(buffer))) % 2 ^ FilledBits
  <1> DEFINE P == Packed(KeptBytes)
             k == Len(buffer)
             T == 0 .. 2 ^ CharBits - 1
             a == ByteBits * k
             l == Len(chars)
             j == Len(P) - Len(chars)
             b == bits
  <1>1. /\ phase = "unpack" /\ k < size /\ Sent
        /\ chars' = IF NeedsChar THEN Tail(chars) ELSE chars
        /\ bits \in 0 .. CharBits - 1 /\ value \in 0 .. 2 ^ bits - 1
        /\ chars \in Seq(T) /\ k \in Nat
    BY DEF Types, UnpackByte
  <1>2. /\ size = sent.kept /\ RestOf(P, chars) /\ a + b = CharBits * j
        /\ \A N : IsStream(N, KeptBytes) => value = (N \div 2 ^ a) % 2 ^ b
    BY <1>1 DEF Unpacking
  <1>3. KeptBytes \in Seq(Byte) /\ Len(KeptBytes) = sent.kept /\ sent.kept \in Nat
    BY <1>1, KeptType
  <1>4. /\ P \in Seq(T) /\ CharBits * Len(P) >= ByteBits * sent.kept
        /\ \A N : IsStream(N, KeptBytes) =>
              \A q \in 1 .. Len(P) : P[q] = (N \div 2 ^ (CharBits * (q - 1))) % 2 ^ CharBits
    BY <1>3, PackedOf
  <1>5. /\ ByteBits \in Nat \ {0} /\ CharBits \in Nat \ {0}
        /\ ByteBits < CharBits /\ CharBits < 2 * ByteBits
    BY Widths
  <1> HIDE DEF P, T, k
  <1>6. /\ l \in Nat /\ Len(P) \in Nat /\ l <= Len(P) /\ a \in Nat /\ b \in Nat /\ j \in Nat
        /\ \A q \in 1 .. l : chars[q] = P[j + q]
    <2>1. l \in Nat /\ Len(P) \in Nat /\ a \in Nat /\ b \in Nat
      BY <1>1, <1>4, <1>5
    <2>2. l <= Len(P) /\ \A q \in 1 .. l : chars[q] = P[j + q]
      BY <1>2 DEF RestOf
    <2> QED
      BY <2>1, <2>2
  <1> HIDE DEF a, b, l, j
  <1>7. CASE NeedsChar
    <2>1. chars # << >> /\ bits < ByteBits
      BY <1>7 DEF NeedsChar
    <2>2. FilledBits = b + CharBits /\ Filled = value + Head(chars) * 2 ^ b
      BY <1>7 DEF FilledBits, Filled, b
    <2>3. /\ l >= 1 /\ Head(chars) = chars[1] /\ Len(chars') = l - 1
          /\ \A q \in 1 .. l - 1 : chars'[q] = chars[q + 1]
      <3>1. chars' = Tail(chars)
        BY <1>1, <1>7
      <3>2. Len(chars) # 0
        BY <1>1, <2>1
      <3> QED
        BY <1>1, <1>6, <2>1, <3>1, <3>2 DEF l
    <2>4. FilledBits >= ByteBits
      BY <1>5, <1>6, <2>2
    <2>5. RestOf(P, chars')
      <3> DEFINE d == chars'
      <3> HIDE DEF d
      <3>1. Len(d) = l - 1 /\ \A q \in 1 .. l - 1 : d[q] = chars[q + 1]
        BY <2>3 DEF d
      <3>2. ASSUME NEW q \in 1 .. Len(d) PROVE d[q] = P[Len(P) - Len(d) + q]
        <4>1. q + 1 \in 1 .. l /\ q \in 1 .. l - 1
          BY <1>6, <3>1
        <4>2. d[q] = chars[q + 1] /\ chars[q + 1] = P[j + (q + 1)]
          BY <1>6, <3>1, <4>1
        <4>3. j + (q + 1) = Len(P) - Len(d) + q
          BY <1>6, <3>1 DEF j, l
        <4> QED
          BY <4>2, <4>3
      <3>3. Len(d) <= Len(P)
        BY <1>6, <3>1
      <3>4. RestOf(P, d)
        BY <3>2, <3>3 DEF RestOf
      <3> QED
        BY <3>4 DEF d
    <2>6. a + FilledBits = CharBits * (Len(P) - Len(chars'))
      <3>1. Len(P) - Len(chars') = j + 1
        BY <1>6, <2>3 DEF j, l
      <3>2. CharBits * (j + 1) = CharBits * j + CharBits
        BY <1>5, <1>6
      <3> DEFINE x == CharBits * j
                 y == CharBits * (j + 1)
      <3> HIDE DEF x, y
      <3>3. a + b = x /\ y = x + CharBits
        BY <1>2, <3>2 DEF x, y
      <3>4. a + FilledBits = y
        BY <1>5, <1>6, <2>2, <3>3
      <3> QED
        BY <3>1, <3>4 DEF y
    <2>7. ASSUME NEW N, IsStream(N, KeptBytes) PROVE Filled = (N \div 2 ^ a) % 2 ^ FilledBits
      <3> DEFINE X == N \div 2 ^ a
                 h == Head(chars)
      <3>1. N \in Nat /\ X \in Nat
        <4>1. N \in Nat
          BY <2>7 DEF IsStream
        <4> QED
          BY <1>6, <4>1, ShiftType
      <3>2. value = X % 2 ^ b
        BY <1>2, <2>7
      <3>3. h = (X \div 2 ^ b) % 2 ^ CharBits
        <4>1. 1 \in 1 .. l /\ j + 1 \in 1 .. Len(P) /\ (j + 1) - 1 = j
          BY <1>6, <2>3 DEF j, l
        <4>2. h = P[j + 1]
          BY <1>6, <2>3, <4>1
        <4>3. P[j + 1] = (N \div 2 ^ (CharBits * ((j + 1) - 1))) % 2 ^ CharBits
          BY <1>4, <2>7, <4>1
        <4>4. h = (N \div 2 ^ (a + b)) % 2 ^ CharBits
          BY <1>2, <4>1, <4>2, <4>3
        <4>5. N \div 2 ^ (a + b) = (N \div 2 ^ a) \div 2 ^ b
          <5>1. N \in Nat
            BY <3>1
          <5>2. a \in Nat
            BY <1>6
          <5>3. b \in Nat
            BY <1>6
          <5> QED
            BY <5>1, <5>2, <5>3, WithoutParts, Zenon
        <4> QED
          BY <4>4, <4>5
      <3> HIDE DEF X, h
      <3>4. X % 2 ^ (b + CharBits) = 2 ^ b * ((X \div 2 ^ b) % 2 ^ CharBits) + (X % 2 ^ b)
        <4>1. CharBits \in Nat /\ b \in Nat
          BY <1>5, <1>6
        <4> QED
          BY <3>1, <4>1, BothParts, Zenon
      <3>5. value + h * 2 ^ b = 2 ^ b * h + value
        <4>1. h \in 0 .. 2 ^ CharBits - 1
          <5>1. X \div 2 ^ b \in Nat
            BY <1>6, <3>1, ShiftType
          <5> QED
            BY <1>5, <3>3, <5>1, ShiftType
        <4>2. value \in 0 .. 2 ^ b - 1
          BY <1>1 DEF b
        <4> QED
          BY <1>6, <4>1, <4>2, Refilled
      <3>6. Filled = value + h * 2 ^ b
        BY <2>2 DEF h
      <3>7. Filled = X % 2 ^ FilledBits
        BY <2>2, <3>2, <3>3, <3>4, <3>5, <3>6
      <3> QED
        BY <3>7 DEF X
    <2> QED
      BY <2>4, <2>5, <2>6, <2>7 DEF P, a, k
  <1>8. CASE ~NeedsChar
    <2>1. FilledBits = b /\ Filled = value /\ chars' = chars
      BY <1>1, <1>8 DEF FilledBits, Filled, b
    <2>2. b >= ByteBits
      <3>1. SUFFICES ASSUME b < ByteBits PROVE FALSE
        BY <1>5, <1>6
      <3>2. chars = << >>
        BY <1>8, <3>1 DEF NeedsChar, b
      <3>3. j = Len(P)
        <4>1. Len(chars) = 0
          BY <3>2
        <4> QED
          BY <1>6, <4>1 DEF j
      <3>4. a + b >= ByteBits * sent.kept
        BY <1>2, <1>4, <3>3
      <3>5. ByteBits * sent.kept >= ByteBits * (k + 1)
        <4> DEFINE x == sent.kept
                   y == k + 1
        <4>1. x >= y /\ x \in Nat /\ y \in Nat
          BY <1>1, <1>2, <1>3
        <4> HIDE DEF x, y
        <4>2. ByteBits * x >= ByteBits * y
          BY <1>5, <4>1, TimesGrows
        <4> QED
          BY <4>2 DEF x, y
      <3>6. ByteBits * (k + 1) = a + ByteBits
        BY <1>1, <1>5 DEF a
      <3>7. ByteBits * sent.kept \in Nat
        BY <1>3, <1>5
      <3> DEFINE x == ByteBits * sent.kept
                 y == ByteBits * (k + 1)
      <3> HIDE DEF x, y
      <3>8. a + b >= x /\ x >= y /\ y = a + ByteBits /\ x \in Nat
        BY <3>4, <3>5, <3>6, <3>7 DEF x, y
      <3> QED
        BY <1>5, <1>6, <3>1, <3>8
    <2> QED
      BY <1>2, <2>1, <2>2 DEF P, a, k, b, j
  <1> QED
    BY <1>7, <1>8

\* The byte that is taken out is the next one of the server, and the register
\* keeps the bits above it.
LEMMA ByteCopied ==
    ASSUME Types, Unpacking, UnpackByte, sent.lost = 0
    PROVE  /\ Len(buffer) + 1 \in 1 .. sent.kept
           /\ Filled % 2 ^ ByteBits = WrittenBytes[Len(buffer) + 1]
           /\ \A N : IsStream(N, KeptBytes) =>
                 value' = (N \div 2 ^ (ByteBits * (Len(buffer) + 1))) % 2 ^ bits'
  <1> DEFINE k == Len(buffer)
             a == ByteBits * k
             e == FilledBits - ByteBits
  <1>1. /\ phase = "unpack" /\ k < size /\ Sent /\ k \in Nat
    BY DEF Types, UnpackByte
  <1>2. size = sent.kept
    BY <1>1 DEF Unpacking
  <1>3. /\ KeptBytes \in Seq(Byte) /\ Len(KeptBytes) = sent.kept /\ sent.kept \in Nat
        /\ \A q \in 1 .. sent.kept : KeptBytes[q] = WrittenBytes[q]
    BY <1>1, KeptType
  <1>4. k + 1 \in 1 .. sent.kept
    BY <1>1, <1>2, <1>3
  <1>5. /\ FilledBits \in Nat /\ value' = Filled \div 2 ^ ByteBits
        /\ bits' = IF FilledBits < ByteBits THEN 0 ELSE FilledBits - ByteBits
    BY RegisterStep
  <1>6. /\ FilledBits >= ByteBits
        /\ \A N : IsStream(N, KeptBytes) => Filled = (N \div 2 ^ a) % 2 ^ FilledBits
    BY FilledOf
  <1>7. /\ ByteBits \in Nat /\ a \in Nat /\ e \in Nat /\ FilledBits = ByteBits + e /\ bits' = e
        /\ ByteBits * (k + 1) = a + ByteBits
    BY <1>1, <1>5, <1>6, Widths
  <1> HIDE DEF k, a, e
  <1>8. ASSUME NEW N, IsStream(N, KeptBytes)
        PROVE  /\ Filled % 2 ^ ByteBits = KeptBytes[k + 1]
               /\ value' = (N \div 2 ^ (ByteBits * (k + 1))) % 2 ^ e
    <2> DEFINE X == N \div 2 ^ a
    <2>1. N \in Nat
      BY <1>8 DEF IsStream
    <2>2. a \in Nat
      BY <1>7
    <2>3. X \in Nat
      BY <2>1, <2>2, ShiftType
    <2>4. Filled = X % 2 ^ (ByteBits + e)
      BY <1>6, <1>7, <1>8
    <2>5. ByteBits \in Nat
      BY <1>7
    <2>6. N \div 2 ^ (a + ByteBits) = X \div 2 ^ ByteBits
      BY <2>1, <2>2, <2>5, WithoutParts, Zenon
    <2>7. X % 2 ^ ByteBits = KeptBytes[k + 1]
      <3>1. k + 1 \in 1 .. Len(KeptBytes) /\ (k + 1) - 1 = k
        BY <1>1, <1>3, <1>4 DEF k
      <3>2. (N \div 2 ^ (ByteBits * ((k + 1) - 1))) % 2 ^ ByteBits = KeptBytes[k + 1]
        BY <1>8, <3>1 DEF IsStream
      <3> QED
        BY <3>1, <3>2 DEF a
    <2> HIDE DEF X
    <2>8. e \in Nat
      BY <1>7
    <2>9. /\ (X % 2 ^ (ByteBits + e)) \div 2 ^ ByteBits = (X \div 2 ^ ByteBits) % 2 ^ e
          /\ (X % 2 ^ (ByteBits + e)) % 2 ^ ByteBits = X % 2 ^ ByteBits
      BY <2>3, <2>5, <2>8, UpperPart, Zenon
    <2>10. Filled % 2 ^ ByteBits = KeptBytes[k + 1]
      BY <2>4, <2>7, <2>9
    <2>11. value' = (N \div 2 ^ (ByteBits * (k + 1))) % 2 ^ e
      BY <1>5, <1>7, <2>4, <2>6, <2>9
    <2> QED
      BY <2>10, <2>11
  <1>9. PICK M : IsStream(M, KeptBytes)
    BY <1>3, StreamOf
  <1>10. Filled % 2 ^ ByteBits = WrittenBytes[k + 1]
    BY <1>3, <1>4, <1>8, <1>9
  <1>11. \A N : IsStream(N, KeptBytes) =>
            value' = (N \div 2 ^ (ByteBits * (k + 1))) % 2 ^ bits'
    BY <1>7, <1>8
  <1> QED
    BY <1>4, <1>10, <1>11 DEF k

\* The invariant of the register.
LEMMA UnpackingStep ==
    ASSUME Types, Start, Unpacking, [Next]_vars
    PROVE  Unpacking'
  <1> SUFFICES ASSUME sent'.lost = 0, phase' = "unpack"
               PROVE  /\ size' = sent'.kept /\ Len(buffer') <= size'
                      /\ RestOf(Packed(KeptBytes'), chars')
                      /\ ByteBits * Len(buffer') + bits' =
                            CharBits * (Len(Packed(KeptBytes')) - Len(chars'))
                      /\ \A N : IsStream(N, KeptBytes') =>
                            value' = (N \div 2 ^ (ByteBits * Len(buffer'))) % 2 ^ bits'
    BY DEF Unpacking, Packed, Char, BitOf, IsStream, RestOf
  <1>1. ByteBits \in Nat /\ CharBits \in Nat
    BY Widths
  <1>2. CASE ReadSize
    <2>1. /\ sent' = sent /\ size' = sent.kept /\ sent.kept \in Nat
          /\ KeptBytes \in Seq(Byte) /\ Len(KeptBytes) = sent.kept
          /\ sent.lost = 0 => Len(chars') = Len(Packed(KeptBytes))
          /\ \A q \in 1 .. Len(chars') : chars'[q] = Packed(KeptBytes)[q]
      BY <1>2, SizeRead
    <2>2. KeptBytes' = KeptBytes
      BY <2>1 DEF KeptBytes, WrittenBytes
    <2>3. bits' = 0 /\ value' = 0 /\ buffer' = << >>
      BY <1>2 DEF ReadSize, Start
    <2> DEFINE P == Packed(KeptBytes)
    <2>4. P \in Seq(0 .. 2 ^ CharBits - 1)
      BY <2>1, PackedOf
    <2> HIDE DEF P
    <2>5. Len(P) \in Nat /\ Len(chars') = Len(P)
      BY <2>1, <2>4 DEF P
    <2>6. RestOf(P, chars')
      <3> DEFINE d == chars'
      <3>1. Len(d) = Len(P) /\ \A q \in 1 .. Len(d) : d[q] = P[q]
        BY <2>1, <2>5 DEF P
      <3> HIDE DEF d
      <3>2. Len(d) <= Len(P) /\ \A q \in 1 .. Len(d) : Len(P) - Len(d) + q = q
        BY <2>5, <3>1
      <3>3. RestOf(P, d)
        BY <3>1, <3>2 DEF RestOf
      <3> QED
        BY <3>3 DEF d
    <2>7. Len(buffer') = 0 /\ Len(buffer') <= size'
      BY <2>1, <2>3
    <2>8. ByteBits * Len(buffer') + bits' = CharBits * (Len(P) - Len(chars'))
      BY <1>1, <2>3, <2>5, <2>7
    <2>9. ASSUME NEW N, IsStream(N, KeptBytes')
          PROVE  value' = (N \div 2 ^ (ByteBits * Len(buffer'))) % 2 ^ bits'
      <3> DEFINE x == N \div 2 ^ (ByteBits * Len(buffer'))
      <3>1. N \in Nat /\ ByteBits * Len(buffer') = 0
        BY <1>1, <2>7, <2>9 DEF IsStream
      <3>2. x \in Nat
        BY <3>1, ShiftType
      <3> HIDE DEF x
      <3>3. x % 2 ^ bits' = 0
        BY <2>3, <3>2, Widths
      <3> QED
        BY <2>3, <3>3 DEF x
    <2> QED
      BY <2>1, <2>2, <2>6, <2>7, <2>8, <2>9 DEF P
  <1>3. CASE UnpackByte
    <2>1. /\ sent' = sent /\ size' = size /\ phase = "unpack" /\ sent.lost = 0
      BY <1>3 DEF UnpackByte
    <2>2. KeptBytes' = KeptBytes
      BY <2>1 DEF KeptBytes, WrittenBytes
    <2>3. size = sent.kept
      BY <2>1 DEF Unpacking
    <2>4. /\ FilledBits >= ByteBits
          /\ RestOf(Packed(KeptBytes), chars')
          /\ ByteBits * Len(buffer) + FilledBits = CharBits * (Len(Packed(KeptBytes)) - Len(chars'))
      BY <1>3, <2>1, FilledOf
    <2>5. /\ bits' = IF FilledBits < ByteBits THEN 0 ELSE FilledBits - ByteBits
          /\ FilledBits \in Nat /\ Len(buffer') = Len(buffer) + 1
      BY <1>3, RegisterStep
    <2>6. /\ Len(buffer) + 1 \in 1 .. sent.kept
          /\ \A N : IsStream(N, KeptBytes) =>
                value' = (N \div 2 ^ (ByteBits * (Len(buffer) + 1))) % 2 ^ bits'
      BY <1>3, <2>1, ByteCopied
    <2>7. Len(buffer) \in Nat /\ sent.kept \in Nat
      <3>1. Sent /\ buffer \in Seq(Byte)
        BY DEF Types
      <3> QED
        BY <3>1, KeptType
    <2>8. Len(buffer') <= size'
      BY <2>1, <2>3, <2>5, <2>6, <2>7
    <2>9. ByteBits * Len(buffer') + bits' = CharBits * (Len(Packed(KeptBytes)) - Len(chars'))
      <3> DEFINE z == CharBits * (Len(Packed(KeptBytes)) - Len(chars'))
                 y == ByteBits * Len(buffer)
      <3>1. y + FilledBits = z /\ y \in Nat
        BY <1>1, <2>4, <2>7
      <3>2. ByteBits * (Len(buffer) + 1) = y + ByteBits
        BY <1>1, <2>7
      <3> HIDE DEF z, y
      <3>3. bits' = FilledBits - ByteBits
        BY <1>1, <2>4, <2>5
      <3>4. y + ByteBits + bits' = z
        BY <1>1, <2>5, <3>1, <3>3
      <3> QED
        BY <2>5, <3>2, <3>4 DEF z
    <2> QED
      BY <2>1, <2>2, <2>3, <2>4, <2>5, <2>6, <2>8, <2>9
  <1>4. CASE UNCHANGED vars
    <2>1. /\ sent' = sent /\ size' = size /\ buffer' = buffer /\ chars' = chars
          /\ bits' = bits /\ value' = value /\ phase' = phase
      BY <1>4 DEF vars, register
    <2>2. KeptBytes' = KeptBytes
      BY <2>1 DEF KeptBytes, WrittenBytes
    <2> QED
      BY <2>1, <2>2 DEF Unpacking
  <1>5. CASE Decoders
    <2>1. phase' # "unpack" \/ UNCHANGED vars
      BY <1>5 DEF Decoders, HeaderMissing, ReadHeader, ReadMod, ReadModChannel, ModDone,
             ReadCount, ReadChannelCount, ReadChannel, Finish, DataEnds, SizeMissing, Unpacked,
             RustDecode, Terminating
    <2> QED
      BY <1>4, <2>1
  <1> QED
    BY <1>2, <1>3, <1>4, <1>5 DEF Next, Decoders

-----------------------------------------------------------------------------
(* The lists that the decoder fills.                                       *)

\* The first k elements of a sequence, one more at a time.
LEMMA TakeOne ==
    ASSUME NEW V, NEW s \in Seq(V)
    PROVE  /\ SubSeq(s, 1, 0) = << >> /\ SubSeq(s, 1, Len(s)) = s
           /\ \A k \in 0 .. Len(s) : SubSeq(s, 1, k) \in Seq(V) /\ Len(SubSeq(s, 1, k)) = k
           /\ \A k \in 1 .. Len(s) : SubSeq(s, 1, k) = Append(SubSeq(s, 1, k - 1), s[k])
  <1>1. SubSeq(s, 1, 0) = << >>
    BY SubSeqEmpty
  <1>2. SubSeq(s, 1, Len(s)) = s
    BY SubSeqFull
  <1>3. ASSUME NEW k \in 0 .. Len(s)
        PROVE  SubSeq(s, 1, k) \in Seq(V) /\ Len(SubSeq(s, 1, k)) = k
    <2>1. k \in Int /\ 1 \in Int /\ \A i \in 1 .. k : s[i] \in V
      OBVIOUS
    <2>2. /\ SubSeq(s, 1, k) \in Seq(V)
          /\ Len(SubSeq(s, 1, k)) = IF 1 <= k THEN k - 1 + 1 ELSE 0
      BY <2>1, SubSeqProperties
    <2> QED
      BY <2>2
  <1>4. ASSUME NEW k \in 1 .. Len(s)
        PROVE  SubSeq(s, 1, k) = Append(SubSeq(s, 1, k - 1), s[k])
    <2>1. 1 \in 1 .. Len(s) /\ k \in 1 .. Len(s) /\ k - 1 \in 0 .. Len(s) /\ s[k] \in V
      OBVIOUS
    <2>2. SubSeq(s, 1, k) = SubSeq(s, 1, k - 1) \o <<s[k]>>
      BY <2>1, SubSeqRecursiveSecond
    <2> DEFINE a == SubSeq(s, 1, k - 1)
               e == s[k]
    <2>3. a \in Seq(V)
      BY <1>3, <2>1
    <2>4. e \in V
      BY <2>1
    <2> HIDE DEF a, e
    <2>5. Append(a, e) = a \o <<e>>
      BY <2>3, <2>4, AppendIsConcat
    <2> QED
      BY <2>2, <2>5 DEF a, e
  <1> QED
    BY <1>1, <1>2, <1>3, <1>4

\* The channels of one mod.
LEMMA ChannelsOfType ==
    ASSUME NEW m \in Nat, NEW names \in Seq(Nat)
    PROVE  /\ ChannelsOf(m, names) \in Seq(Named)
           /\ Len(ChannelsOf(m, names)) = Len(names)
           /\ \A k \in 1 .. Len(names) : ChannelsOf(m, names)[k] = [mod |-> m, name |-> names[k]]
  <1>1. DOMAIN names = 1 .. Len(names) /\ Len(names) \in Nat
    OBVIOUS
  <1>2. \A k \in 1 .. Len(names) : [mod |-> m, name |-> names[k]] \in Named
    BY DEF Named
  <1>3. ChannelsOf(m, names) = [k \in 1 .. Len(names) |-> [mod |-> m, name |-> names[k]]]
    BY <1>1 DEF ChannelsOf
  <1> DEFINE s == ChannelsOf(m, names)
             N == Named
  <1>4. \A k \in 1 .. Len(names) : s[k] \in N /\ s[k] = [mod |-> m, name |-> names[k]]
    BY <1>2, <1>3
  <1>5. s = [k \in 1 .. Len(names) |-> s[k]]
    BY <1>3
  <1> HIDE DEF s, N
  <1>6. s \in Seq(N) /\ Len(s) = Len(names)
    BY <1>1, <1>4, <1>5
  <1> QED
    BY <1>4, <1>6 DEF s, N

\* All channels so far: none, those of one mod more, one without a mod more.
LEMMA ChannelsGrow ==
    ASSUME NEW content, content.mods \in Mods, content.extra \in Seq(Nat)
    PROVE  /\ Channels(content, 0, 0) = << >>
           /\ \A i \in 0 .. Len(content.mods) :
                 Channels(content, i, 0) = Leading(ChannelsOfMods(content), i)
           /\ \A i \in 1 .. Len(content.mods) :
                 Channels(content, i, 0) =
                    Channels(content, i - 1, 0) \o ChannelsOf(i, content.mods[i].channels)
           /\ \A j \in 1 .. Len(content.extra) :
                 Channels(content, Len(content.mods), j) =
                    Append(Channels(content, Len(content.mods), j - 1),
                           [mod |-> 0, name |-> content.extra[j]])
           /\ ChannelsOfMods(content) \in [1 .. Len(content.mods) -> Seq(Named)]
  <1> DEFINE n == Len(content.mods)
             W == ChannelsOfMods(content)
             X == ChannelsOf(0, content.extra)
             k == Len(content.extra)
             N == Named
             S == Seq(Named)
  <1>1. n \in Nat /\ \A i \in 1 .. n : content.mods[i] \in [server : BOOLEAN, channels : Seq(Nat)]
    BY WrittenMods
  <1>2. ASSUME NEW i \in 1 .. n
        PROVE W[i] \in S /\ W[i] = ChannelsOf(i, content.mods[i].channels)
    <2>1. W[i] = ChannelsOf(i, content.mods[i].channels)
      BY DEF ChannelsOfMods
    <2>2. i \in Nat /\ content.mods[i].channels \in Seq(Nat)
      BY <1>1
    <2>3. ChannelsOf(i, content.mods[i].channels) \in Seq(Named)
      BY <2>2, ChannelsOfType
    <2> QED
      BY <2>1, <2>3
  <1>3. W \in [1 .. n -> S]
    <2>1. W = [i \in 1 .. n |-> ChannelsOf(i, content.mods[i].channels)]
      BY DEF ChannelsOfMods
    <2>2. \A i \in 1 .. n : ChannelsOf(i, content.mods[i].channels) \in S
      BY <1>2
    <2> HIDE DEF n, S, W
    <2> QED
      BY <2>1, <2>2
  <1>4. X \in Seq(N) /\ Len(X) = k /\ \A j \in 1 .. k : X[j] = [mod |-> 0, name |-> content.extra[j]]
    BY ChannelsOfType
  <1>5. k \in Nat
    OBVIOUS
  <1> HIDE DEF n, W, X, k, N
  <1>6. W \in [1 .. n -> Seq(N)]
    BY <1>3 DEF N
  <1> HIDE DEF S
  <1>7. /\ Leading(W, 0) = << >>
        /\ \A i \in 0 .. n : Leading(W, i) \in Seq(N)
        /\ \A i \in 1 .. n : Leading(W, i) = Leading(W, i - 1) \o W[i]
    BY <1>1, <1>6, LeadingStep
  <1>8. /\ SubSeq(X, 1, 0) = << >>
        /\ \A j \in 0 .. k : SubSeq(X, 1, j) \in Seq(N)
        /\ \A j \in 1 .. k : SubSeq(X, 1, j) = Append(SubSeq(X, 1, j - 1), X[j])
    BY <1>4, TakeOne
  <1>9. ASSUME NEW i \in 0 .. n PROVE Channels(content, i, 0) = Leading(W, i)
    <2>1. Channels(content, i, 0) = Leading(W, i) \o << >>
      BY <1>8 DEF Channels, W, X
    <2>2. Leading(W, i) \in Seq(N)
      BY <1>7
    <2>3. Leading(W, i) \o << >> = Leading(W, i)
      BY <2>2, ConcatEmptySeq
    <2> QED
      BY <2>1, <2>3
  <1>10. Channels(content, 0, 0) = << >>
    <2>1. 0 \in 0 .. n
      BY <1>1
    <2> QED
      BY <1>7, <1>9, <2>1
  <1>11. ASSUME NEW i \in 1 .. n
         PROVE  Channels(content, i, 0) =
                   Channels(content, i - 1, 0) \o ChannelsOf(i, content.mods[i].channels)
    <2>1. i \in 0 .. n /\ i - 1 \in 0 .. n
      BY <1>1
    <2>2. Channels(content, i, 0) = Leading(W, i) /\ Channels(content, i - 1, 0) = Leading(W, i - 1)
      BY <1>9, <2>1
    <2> QED
      BY <1>2, <1>7, <2>2
  <1>12. ASSUME NEW j \in 1 .. k
         PROVE  Channels(content, n, j) =
                   Append(Channels(content, n, j - 1), [mod |-> 0, name |-> content.extra[j]])
    <2> DEFINE L == Leading(W, n)
               a == SubSeq(X, 1, j - 1)
               e == X[j]
    <2>1. Channels(content, n, j) = L \o SubSeq(X, 1, j) /\ Channels(content, n, j - 1) = L \o a
      BY DEF Channels, W, X
    <2>2. n \in 0 .. n /\ j - 1 \in 0 .. k
      BY <1>1, <1>5
    <2>3. L \in Seq(N)
      BY <1>7, <2>2
    <2>4. a \in Seq(N)
      BY <1>8, <2>2
    <2>5. e \in N
      BY <1>4
    <2>6. SubSeq(X, 1, j) = Append(a, e)
      BY <1>8
    <2> HIDE DEF L, a, e
    <2>7. L \o Append(a, e) = Append(L \o a, e)
      <3>1. Append(a, e) = a \o <<e>>
        BY <2>4, <2>5, AppendIsConcat
      <3>2. L \o a \in Seq(N)
        BY <2>3, <2>4, ConcatProperties
      <3>3. Append(L \o a, e) = (L \o a) \o <<e>>
        BY <2>5, <3>2, AppendIsConcat
      <3>4. <<e>> \in Seq(N)
        BY <2>5
      <3>5. (L \o a) \o <<e>> = L \o (a \o <<e>>)
        BY <2>3, <2>4, <3>4, ConcatAssociative
      <3> QED
        BY <3>1, <3>3, <3>5
    <2>8. e = [mod |-> 0, name |-> content.extra[j]]
      BY <1>4 DEF e
    <2> QED
      BY <2>1, <2>6, <2>7, <2>8
  <1> QED
    BY <1>3, <1>9, <1>10, <1>11, <1>12 DEF n, k, W, S

\* The numbers of the mods, one more.
LEMMA NumbersGrow ==
    ASSUME NEW i \in Nat \ {0}
    PROVE  [m \in 1 .. i |-> m] = Append([m \in 1 .. i - 1 |-> m], i)
  <1> DEFINE a == [m \in 1 .. i - 1 |-> m]
             b == [m \in 1 .. i |-> m]
             c == Append(a, i)
  <1>1. a \in Seq(Nat) /\ Len(a) = i - 1 /\ b \in Seq(Nat) /\ Len(b) = i
    OBVIOUS
  <1>2. (\A q \in 1 .. i - 1 : a[q] = q) /\ (\A q \in 1 .. i : b[q] = q)
    OBVIOUS
  <1> HIDE DEF a, b
  <1>3. /\ c \in Seq(Nat) /\ Len(c) = i /\ c[i] = i
        /\ \A q \in 1 .. i - 1 : c[q] = a[q]
    BY <1>1, AppendProperties
  <1> HIDE DEF c
  <1>4. \A q \in 1 .. i : b[q] = c[q]
    BY <1>2, <1>3
  <1>5. b = c
    BY <1>1, <1>3, <1>4, SeqEqual
  <1> QED
    BY <1>5 DEF a, b, c

\* Every byte arrives, in its place.
LEMMA ReceivedStep ==
    ASSUME Types, Start, Unpacking, Received, [Next]_vars
    PROVE  Received'
  <1> SUFFICES ASSUME impl' = "python", sent'.lost = 0
               PROVE  /\ Copied'
                      /\ phase' \notin {"size", "unpack", "raised"} => Len(buffer') = sent'.kept
    BY DEF Received
  <1>1. CASE ReadSize
    <2>1. buffer' = buffer /\ phase' = "unpack" /\ phase = "size"
      BY <1>1 DEF ReadSize
    <2>2. Len(buffer') = 0
      BY <2>1 DEF Start
    <2>3. Copied'
      BY <2>2 DEF Copied
    <2> QED
      BY <2>1, <2>3
  <1>2. CASE UnpackByte
    <2>1. /\ sent' = sent /\ impl' = impl /\ sent.lost = 0 /\ phase' = "unpack"
      BY <1>2 DEF UnpackByte
    <2> DEFINE w == WrittenBytes
               e == Filled % 2 ^ ByteBits
    <2>2. w' = w
      BY <2>1 DEF WrittenBytes
    <2>3. e = w[Len(buffer) + 1]
      BY <1>2, <2>1, ByteCopied
    <2>4. e \in Byte /\ buffer' = Append(buffer, e) /\ buffer \in Seq(Byte)
      BY <1>2, RegisterStep DEF Types
    <2>5. \A q \in 1 .. Len(buffer) : buffer[q] = w[q]
      BY <2>1 DEF Received, Copied
    <2> HIDE DEF w, e
    <2> DEFINE B == Byte
    <2>6. e \in B /\ buffer \in Seq(B)
      BY <2>4
    <2> HIDE DEF B
    <2>7. /\ Len(buffer') = Len(buffer) + 1 /\ Len(buffer) \in Nat
          /\ buffer'[Len(buffer) + 1] = e
          /\ \A q \in 1 .. Len(buffer) : buffer'[q] = buffer[q]
      BY <2>4, <2>6, AppendProperties
    <2> DEFINE d == buffer'
               l == Len(buffer)
    <2> HIDE DEF d, l
    <2>8. ASSUME NEW q \in 1 .. Len(d) PROVE d[q] = w[q]
      <3>1. CASE q \in 1 .. l
        BY <2>5, <2>7, <3>1 DEF d, l
      <3>2. CASE q = l + 1
        BY <2>3, <2>7, <3>2 DEF d, l
      <3>3. q \in 1 .. l \/ q = l + 1
        BY <2>7 DEF d, l
      <3> QED
        BY <3>1, <3>2, <3>3
    <2>9. Copied'
      <3>1. \A q \in 1 .. Len(buffer') : buffer'[q] = w'[q]
        BY <2>2, <2>8 DEF d
      <3> QED
        BY <3>1 DEF Copied, w
    <2> QED
      BY <2>1, <2>9
  <1>3. CASE Decoders
    <2>1. sent' = sent /\ impl' = impl /\ buffer' = buffer
      BY <1>3, RegisterAlone
    <2>2. Copied'
      BY <2>1 DEF Received, Copied, WrittenBytes
    <2>3. CASE Unpacked
      <3>1. phase = "unpack" /\ Len(buffer) >= size /\ buffer \in Seq(Byte) /\ Sent
        BY <2>3 DEF Unpacked, Types
      <3>2. size = sent.kept /\ Len(buffer) <= size /\ Len(buffer) \in Nat /\ sent.kept \in Nat
        BY <2>1, <3>1, KeptType DEF Unpacking
      <3>3. Len(buffer') = sent'.kept
        BY <2>1, <3>1, <3>2
      <3> QED
        BY <2>2, <3>3
    <2>4. CASE ~Unpacked
      <3>1. /\ impl = "python"
            /\ phase \in {"size", "unpack", "raised"} => phase' \in {"size", "unpack", "raised"}
        BY <1>3, <2>1, <2>4 DEF Decoders, HeaderMissing, ReadHeader, ReadMod, ReadModChannel,
               ModDone, ReadCount, ReadChannelCount, ReadChannel, Finish, DataEnds, Short,
               SizeMissing, RustDecode, Terminating, vars
      <3>2. phase' \notin {"size", "unpack", "raised"} => Len(buffer) = sent.kept
        BY <2>1, <3>1 DEF Received
      <3> QED
        BY <2>1, <2>2, <3>2
    <2> QED
      BY <2>3, <2>4
  <1>4. CASE UNCHANGED vars
    <2>1. sent' = sent /\ impl' = impl /\ buffer' = buffer /\ phase' = phase
      BY <1>4 DEF vars
    <2> QED
      BY <2>1 DEF Received, Copied, WrittenBytes
  <1> QED
    BY <1>1, <1>2, <1>3, <1>4 DEF Next, Decoders

-----------------------------------------------------------------------------
(* What the decoder finds.                                                 *)

\* Where the server wrote what.
Extra == sent.content.extra
Layout ==
    /\ sent.content.mods \in Mods /\ Extra \in Seq(Nat)
    /\ Count \in Nat /\ Len(Extra) \in Nat
    /\ End(0) = 2
    /\ \A i \in 0 .. Count : End(i) \in Nat /\ End(i) <= End(Count)
    /\ \A i \in 1 .. Count : End(i) = End(i - 1) + SizeOfMod(sent.content.mods[i])
    /\ \A i \in 1 .. Count : sent.content.mods[i] \in [server : BOOLEAN, channels : Seq(Nat)]
    /\ Len(WrittenBytes) = End(Count) + 1 + 3 * Len(Extra)
    /\ WrittenBytes[2] = Count
    /\ \A i \in 1 .. Count : ModStands(WrittenBytes, End(i - 1), i, sent.content.mods[i])
    /\ WrittenBytes[End(Count) + 1] = Len(Extra)
    /\ \A j \in 1 .. Len(Extra) : WrittenBytes[End(Count) + 1 + 3 * (j - 1) + 1] = Extra[j]

\* That is what ContentBytes wrote.
LEMMA LayoutOf ==
    ASSUME Sent
    PROVE  Layout
  <1> DEFINE content == sent.content
             flag == sent.flag
             w == ContentBytes(content, flag)
             n == Len(content.mods)
             E == Ends(content)
  <1>1. content \in Contents /\ flag \in BOOLEAN
    BY DEF Sent
  <1>2. w = WrittenBytes /\ n = Count /\ Extra = content.extra /\ \A i : End(i) = E[i]
    BY DEF WrittenBytes, Count, End, Extra
  <1> HIDE DEF content, flag
  <1>3. content.mods \in Mods /\ content.extra \in Seq(Nat)
    BY <1>1, ContentType
  <1>4. Len(w) = E[n] + 1 + 3 * Len(content.extra)
    BY <1>1, <1>3, ContentLayout
  <1>5. ContentStands(w, content, flag)
    BY <1>1, <1>3, ContentLayout
  <1>6. /\ E[0] = 2
        /\ \A i \in 0 .. n : E[i] \in Nat /\ E[i] <= E[n]
        /\ \A i \in 1 .. n : E[i] = E[i - 1] + SizeOfMod(content.mods[i])
    BY <1>3, EndsOf
  <1>7. /\ n \in Nat
        /\ \A i \in 1 .. n : content.mods[i] \in [server : BOOLEAN, channels : Seq(Nat)]
    BY <1>3, WrittenMods
  <1>8. /\ w[2] = n
        /\ \A i \in 1 .. n : ModStands(w, E[i - 1], i, content.mods[i])
        /\ w[E[n] + 1] = Len(content.extra)
        /\ \A j \in 1 .. Len(content.extra) : w[E[n] + 1 + 3 * (j - 1) + 1] = content.extra[j]
    BY <1>5 DEF ContentStands
  <1>9. Len(content.extra) \in Nat
    BY <1>3
  <1> HIDE DEF w, n, E
  <1>10. content.mods = sent.content.mods
    BY DEF content
  <1> QED
    BY <1>2, <1>3, <1>4, <1>6, <1>7, <1>8, <1>9, <1>10 DEF Layout

\* What arrived of a string that lost nothing.
Arrived ==
    /\ Types /\ Received /\ Layout
    /\ impl = "python" /\ sent.lost = 0
    /\ phase \notin {"size", "unpack", "raised"}

\* A byte that arrived is the one that the server wrote there.
LEMMA Seen ==
    ASSUME Arrived, NEW i \in Nat \ {0}, pos + i <= Len(buffer)
    PROVE  At(i) = WrittenBytes[pos + i]
  <1>1. Copied /\ buffer \in Seq(Byte) /\ pos \in 0 .. Len(buffer)
    BY DEF Arrived, Received, Types
  <1>2. pos + i \in 1 .. Len(buffer)
    BY <1>1
  <1> QED
    BY <1>1, <1>2 DEF Copied, At

\* What does not arrive, the server did not write.
LEMMA Cut ==
    ASSUME Arrived, NEW m \in Nat, m > Len(buffer), m <= Len(WrittenBytes)
    PROVE  ~Whole
  <1>1. Len(buffer) = sent.kept /\ Sent
    BY DEF Arrived, Received, Types
  <1>2. sent.kept \in Nat
    BY <1>1, KeptType
  <1>3. Len(WrittenBytes) \in Nat
    <2>1. Count \in 0 .. Count
      BY DEF Arrived, Layout
    <2>2. End(Count) \in Nat /\ Len(Extra) \in Nat
      BY <2>1 DEF Arrived, Layout
    <2> QED
      BY <2>2 DEF Arrived, Layout
  <1> QED
    BY <1>1, <1>2, <1>3 DEF Whole, WrittenBytes

\* The lists in the next state, when the content is the same.
LEMMA ListedNext ==
    ASSUME sent' = sent, NEW i, NEW j,
           mods' = [m \in 1 .. i |-> m], channels' = Channels(sent.content, i, j)
    PROVE  Listed(i, j)'
  <1>1. Channels(sent.content, i, j)' = Channels(sent.content, i, j)
    OBVIOUS
  <1> QED
    BY <1>1 DEF Listed

\* Nothing is lost of the lists by a step that leaves them alone.
LEMMA ListedKept ==
    ASSUME sent' = sent, mods' = mods, channels' = channels, NEW i, NEW j, Listed(i, j)
    PROVE  Listed(i, j)'
  <1>1. mods' = [m \in 1 .. i |-> m] /\ channels' = Channels(sent.content, i, j)
    BY DEF Listed
  <1> QED
    BY <1>1, ListedNext

-----------------------------------------------------------------------------
(* Each step of the decoder finds its place in the content.                *)

\* An error is told of a string that is not whole.
LEMMA Raises ==
    ASSUME sent' = sent, phase' = "raised", ~Whole
    PROVE  Parsing'
  <1>1. ~Whole'
    BY DEF Whole
  <1> QED
    BY <1>1 DEF Parsing

\* A list that ends is whole, or the flag is set.
LEMMA ListEnds ==
    ASSUME sent' = sent, phase' = "done", NEW i \in 0 .. Count, NEW j \in 0 .. Len(Extra),
           Listed(i, j)', j > 0 => i = Count, ~truncated' => i = Count /\ j = Len(Extra)
    PROVE  Parsing'
  <1>1. Count' = Count /\ sent'.content.extra = Extra
    BY DEF Count, Extra
  <1>2. Ended(i, j)'
    BY <1>1 DEF Ended
  <1> QED
    BY <1>1, <1>2 DEF Parsing

\* Behind mod i,
LEMMA BehindModNext ==
    ASSUME sent' = sent, phase' = "mods", NEW i \in 0 .. Count,
           Listed(i, 0)', left' = Count - i, pos' = End(i)
    PROVE  Parsing'
  <1>1. Count' = Count /\ End(i)' = End(i)
    BY DEF Count, End
  <1>2. BehindMod(i)'
    BY <1>1 DEF BehindMod
  <1> QED
    BY <1>1, <1>2 DEF Parsing

\* behind channel k of mod i,
LEMMA InModNext ==
    ASSUME sent' = sent, phase' = "mod_channels", NEW i \in 1 .. Count,
           NEW k \in 0 .. Len(sent.content.mods[i].channels),
           Listed(i - 1, 0)', left' = Count - i + 1,
           pos' = End(i - 1) + HeadSize(sent.content.mods[i]) + 3 * k,
           cur'.id = i, cur'.todo = Len(sent.content.mods[i].channels) - k,
           cur'.channels = SubSeq(ChannelsOf(i, sent.content.mods[i].channels), 1, k)
    PROVE  Parsing'
  <1>1. Count' = Count /\ End(i - 1)' = End(i - 1)
    BY DEF Count, End
  <1>2. InMod(i, k)'
    BY <1>1 DEF InMod
  <1>3. k \in 0 .. Len(sent'.content.mods[i].channels)
    OBVIOUS
  <1> QED
    BY <1>1, <1>2, <1>3 DEF Parsing

\* and behind channel j of those without a mod.
LEMMA BehindChannelNext ==
    ASSUME sent' = sent, phase' = "channels", NEW j \in 0 .. Len(Extra),
           mods' = [m \in 1 .. Count |-> m], channels' = Channels(sent.content, Count, j),
           left' = Len(Extra) - j, pos' = End(Count) + 1 + 3 * j
    PROVE  Parsing'
  <1>1. Count' = Count /\ End(Count)' = End(Count)
    BY DEF Count, End
  <1>2. sent'.content.extra = Extra
    BY DEF Extra
  <1>3. Listed(Count, j)'
    BY <1>1 DEF Listed
  <1>4. BehindChannel(j)'
    BY <1>1, <1>2, <1>3 DEF BehindChannel
  <1> QED
    BY <1>2, <1>4 DEF Parsing

\* The flag and the number of mods.
LEMMA ReadHeaderParsed ==
    ASSUME Arrived, Parsing, ReadHeader
    PROVE  Parsing'
  <1>1. /\ sent' = sent /\ mods' = mods /\ channels' = channels
        /\ pos = 0 /\ pos' = pos + 2 /\ left' = At(2) /\ phase' = "mods"
        /\ Listed(0, 0) /\ Len(buffer) - pos >= 2
    BY DEF ReadHeader, Parsing, result, Has
  <1>2. /\ Count \in Nat /\ End(0) = 2 /\ WrittenBytes[2] = Count /\ buffer \in Seq(Byte)
    BY DEF Arrived, Layout, Types
  <1>3. At(2) = Count
    <2>1. 2 \in Nat \ {0} /\ pos + 2 <= Len(buffer) /\ pos + 2 = 2
      BY <1>1, <1>2
    <2>2. At(2) = WrittenBytes[pos + 2]
      BY <2>1, Seen
    <2> QED
      BY <1>2, <2>1, <2>2
  <1>4. Listed(0, 0)'
    BY <1>1, ListedKept
  <1>5. 0 \in 0 .. Count /\ left' = Count - 0 /\ pos' = End(0)
    BY <1>1, <1>2, <1>3
  <1> QED
    BY <1>1, <1>4, <1>5, BehindModNext

\* Less than a header.
LEMMA HeaderMissingParsed ==
    ASSUME Arrived, Parsing, HeaderMissing
    PROVE  Parsing'
  <1>1. sent' = sent /\ pos = 0 /\ phase' = "raised" /\ ~(Len(buffer) - pos >= 2)
    BY DEF HeaderMissing, Parsing, Has
  <1>2. /\ Count \in Nat /\ End(0) = 2 /\ buffer \in Seq(Byte) /\ Len(Extra) \in Nat
        /\ \A i \in 0 .. Count : End(i) \in Nat /\ End(i) <= End(Count)
        /\ Len(WrittenBytes) = End(Count) + 1 + 3 * Len(Extra)
    BY DEF Arrived, Layout, Types
  <1>3. 0 \in 0 .. Count /\ Count \in 0 .. Count /\ Len(buffer) \in Nat
    BY <1>2
  <1>4. End(Count) \in Nat /\ 2 <= End(Count)
    BY <1>2, <1>3
  <1>5. 2 <= Len(WrittenBytes)
    BY <1>2, <1>4
  <1>6. 2 > Len(buffer)
    BY <1>1, <1>3
  <1>7. ~Whole
    BY <1>5, <1>6, Cut
  <1> QED
    BY <1>1, <1>7, Raises

\* The head of the next mod is the one that the server wrote.
LEMMA HeadSeen ==
    ASSUME Arrived, NEW i \in 1 .. Count, pos = End(i - 1), Has(1)
    PROVE  /\ ModSize = HeadSize(sent.content.mods[i])
           /\ At(1) \div 2 = Len(sent.content.mods[i].channels)
           /\ Has(2) => At(2) = i
  <1>1. /\ ModStands(WrittenBytes, End(i - 1), i, sent.content.mods[i])
        /\ buffer \in Seq(Byte)
    BY DEF Arrived, Layout, Types
  <1>2. pos + 1 <= Len(buffer) /\ 1 \in Nat \ {0} /\ pos \in Nat /\ Len(buffer) \in Nat
    BY <1>1 DEF Has, Arrived, Types
  <1>3. At(1) = WrittenBytes[End(i - 1) + 1]
    BY <1>2, Seen
  <1>4. /\ At(1) % 2 = 1 <=> sent.content.mods[i].server
        /\ At(1) \div 2 = Len(sent.content.mods[i].channels)
    BY <1>1, <1>3 DEF ModStands
  <1>5. ASSUME Has(2) PROVE At(2) = i
    <2>1. pos + 2 <= Len(buffer) /\ 2 \in Nat \ {0}
      BY <1>2, <1>5 DEF Has
    <2>2. At(2) = WrittenBytes[End(i - 1) + 2]
      BY <2>1, Seen
    <2> QED
      BY <1>1, <2>2 DEF ModStands
  <1>6. ModSize = HeadSize(sent.content.mods[i])
    BY <1>4 DEF ModSize, HeadSize
  <1> QED
    BY <1>4, <1>5, <1>6

\* The place behind some mods, with one more to come.
LEMMA AnotherMod ==
    ASSUME Arrived, Parsing, phase = "mods", left > 0
    PROVE  \E i \in 1 .. Count :
              Listed(i - 1, 0) /\ left = Count - i + 1 /\ pos = End(i - 1)
  <1>1. PICK i \in 0 .. Count : BehindMod(i)
    BY DEF Parsing
  <1>2. Count \in Nat
    BY DEF Arrived, Layout
  <1>3. Listed(i, 0) /\ left = Count - i /\ pos = End(i)
    BY <1>1 DEF BehindMod
  <1> DEFINE m == i + 1
  <1>4. m \in 1 .. Count /\ left = Count - m + 1 /\ m - 1 = i
    BY <1>2, <1>3
  <1> HIDE DEF m
  <1>5. Listed(m - 1, 0) /\ pos = End(m - 1)
    BY <1>3, <1>4
  <1> QED
    BY <1>4, <1>5

\* Flags, id and version of a mod.
LEMMA ReadModParsed ==
    ASSUME Arrived, Parsing, ReadMod
    PROVE  Parsing'
  <1>1. /\ sent' = sent /\ mods' = mods /\ channels' = channels /\ left' = left
        /\ phase = "mods" /\ left > 0 /\ Has(1) /\ Has(ModSize)
        /\ cur' = [id |-> At(2), todo |-> At(1) \div 2, channels |-> << >>]
        /\ pos' = pos + ModSize /\ phase' = "mod_channels"
    BY DEF ReadMod, HasMod, result
  <1>2. PICK i \in 1 .. Count : Listed(i - 1, 0) /\ left = Count - i + 1 /\ pos = End(i - 1)
    BY <1>1, AnotherMod
  <1> DEFINE mod == sent.content.mods[i]
  <1>3. ModSize = HeadSize(mod) /\ At(1) \div 2 = Len(mod.channels) /\ (Has(2) => At(2) = i)
    BY <1>1, <1>2, HeadSeen
  <1>4. /\ mod \in [server : BOOLEAN, channels : Seq(Nat)]
        /\ Count \in Nat /\ buffer \in Seq(Byte) /\ pos \in 0 .. Len(buffer)
    BY DEF Arrived, Layout, Types
  <1>5. HeadSize(mod) \in {2, 3}
    BY DEF HeadSize
  <1>6. Has(2)
    <2>1. Len(buffer) - pos >= ModSize /\ Len(buffer) \in Nat /\ pos \in Nat
      BY <1>1, <1>4 DEF Has
    <2> QED
      BY <1>3, <1>5, <2>1 DEF Has
  <1>7. Listed(i - 1, 0)'
    BY <1>1, <1>2, ListedKept
  <1>8. 0 \in 0 .. Len(mod.channels)
    BY <1>4
  <1>9. SubSeq(ChannelsOf(i, mod.channels), 1, 0) = << >>
    BY SubSeqEmpty
  <1>10. /\ cur'.id = i /\ cur'.todo = Len(mod.channels) - 0
         /\ cur'.channels = SubSeq(ChannelsOf(i, mod.channels), 1, 0)
    BY <1>1, <1>3, <1>4, <1>6, <1>9
  <1>11. pos' = End(i - 1) + HeadSize(mod) + 3 * 0
    <2>1. pos \in Nat
      BY <1>4
    <2> QED
      BY <1>1, <1>2, <1>3, <1>5, <2>1
  <1>12. left' = Count - i + 1
    BY <1>1, <1>2
  <1> QED
    BY <1>1, <1>7, <1>8, <1>10, <1>11, <1>12, InModNext

\* Where the channels of a mod begin, and where they end.
LEMMA ModSpan ==
    ASSUME Layout, NEW i \in 1 .. Count
    PROVE  /\ sent.content.mods[i].channels \in Seq(Nat)
           /\ Len(sent.content.mods[i].channels) \in Nat
           /\ HeadSize(sent.content.mods[i]) \in {2, 3}
           /\ End(i - 1) \in Nat /\ End(i) \in Nat /\ End(i) <= End(Count)
           /\ End(i) = End(i - 1) + HeadSize(sent.content.mods[i])
                                  + 3 * Len(sent.content.mods[i].channels)
  <1> DEFINE mod == sent.content.mods[i]
             h == HeadSize(mod)
             l == 3 * Len(mod.channels)
  <1>1. /\ Count \in Nat /\ mod \in [server : BOOLEAN, channels : Seq(Nat)]
        /\ End(i) = End(i - 1) + SizeOfMod(mod)
        /\ \A j \in 0 .. Count : End(j) \in Nat /\ End(j) <= End(Count)
    BY DEF Layout
  <1>2. mod.channels \in Seq(Nat) /\ Len(mod.channels) \in Nat
    BY <1>1
  <1>3. h \in {2, 3}
    BY DEF HeadSize
  <1>4. i \in 0 .. Count /\ i - 1 \in 0 .. Count
    BY <1>1
  <1>5. SizeOfMod(mod) = h + l /\ l \in Nat
    BY <1>2 DEF SizeOfMod
  <1> HIDE DEF h, l
  <1>6. End(i) \in Nat /\ End(i - 1) \in Nat /\ End(i) <= End(Count)
    BY <1>1, <1>4
  <1>7. End(i) = End(i - 1) + h + l
    BY <1>1, <1>3, <1>5, <1>6
  <1> QED
    BY <1>2, <1>3, <1>6, <1>7 DEF h, l

\* A channel of a mod.
LEMMA ReadModChannelParsed ==
    ASSUME Arrived, Parsing, ReadModChannel
    PROVE  Parsing'
  <1>1. /\ sent' = sent /\ mods' = mods /\ channels' = channels /\ left' = left
        /\ phase = "mod_channels" /\ cur.todo > 0 /\ Has(3)
        /\ cur' = [cur EXCEPT !.todo = @ - 1,
                              !.channels = Append(@, [mod |-> cur.id, name |-> At(1)])]
        /\ pos' = pos + 3 /\ phase' = phase
    BY DEF ReadModChannel, result
  <1>2. PICK i \in 1 .. Count : \E k \in 0 .. Len(sent.content.mods[i].channels) : InMod(i, k)
    BY <1>1 DEF Parsing
  <1>3. PICK k \in 0 .. Len(sent.content.mods[i].channels) : InMod(i, k)
    BY <1>2
  <1> DEFINE mod == sent.content.mods[i]
             h == HeadSize(mod)
             s == ChannelsOf(i, mod.channels)
             m == k + 1
             e == [mod |-> i, name |-> mod.channels[m]]
  <1>4. /\ Listed(i - 1, 0) /\ left = Count - i + 1
        /\ pos = End(i - 1) + h + 3 * k
        /\ cur.id = i /\ cur.todo = Len(mod.channels) - k
        /\ cur.channels = SubSeq(s, 1, k)
    BY <1>3 DEF InMod
  <1>5. /\ mod.channels \in Seq(Nat) /\ Len(mod.channels) \in Nat /\ h \in {2, 3}
        /\ End(i - 1) \in Nat
    BY ModSpan DEF Arrived
  <1>6. /\ ModStands(WrittenBytes, End(i - 1), i, mod)
        /\ cur \in [id : Nat, todo : Nat, channels : Seq(Named)]
        /\ Count \in Nat /\ pos \in Nat /\ Len(buffer) \in Nat
    BY DEF Arrived, Layout, Types
  <1>7. m \in 1 .. Len(mod.channels) /\ m - 1 = k
    <2> DEFINE l == Len(mod.channels)
    <2>1. l \in Nat /\ k \in 0 .. l /\ l - k > 0
      BY <1>1, <1>3, <1>4, <1>5
    <2> HIDE DEF l
    <2>2. m \in 1 .. l /\ m - 1 = k
      BY <2>1
    <2> QED
      BY <2>2 DEF l
  <1>8. At(1) = mod.channels[m]
    <2>1. pos + 1 <= Len(buffer) /\ 1 \in Nat \ {0}
      BY <1>1, <1>6 DEF Has
    <2>2. At(1) = WrittenBytes[pos + 1]
      BY <2>1, Seen
    <2>3. WrittenBytes[End(i - 1) + h + 3 * (m - 1) + 1] = mod.channels[m]
      BY <1>6, <1>7 DEF ModStands
    <2>4. End(i - 1) + h + 3 * (m - 1) + 1 = pos + 1
      <3>1. pos = End(i - 1) + h + 3 * k /\ m - 1 = k
        BY <1>4, <1>7
      <3> HIDE DEF m, h
      <3> QED
        BY <3>1
    <2> QED
      BY <2>2, <2>3, <2>4
  <1>9. SubSeq(s, 1, m) = Append(SubSeq(s, 1, k), e)
    <2>1. s \in Seq(Named) /\ Len(s) = Len(mod.channels) /\ s[m] = e
      <3> DEFINE names == mod.channels
      <3>1. names \in Seq(Nat) /\ i \in Nat /\ m \in 1 .. Len(names)
        BY <1>5, <1>6, <1>7
      <3> HIDE DEF names, mod, m
      <3>2. /\ ChannelsOf(i, names) \in Seq(Named)
            /\ Len(ChannelsOf(i, names)) = Len(names)
            /\ \A q \in 1 .. Len(names) :
                  ChannelsOf(i, names)[q] = [mod |-> i, name |-> names[q]]
        BY <3>1, ChannelsOfType
      <3> QED
        BY <3>1, <3>2 DEF names
    <2> HIDE DEF s, e, m
    <2>2. m \in 1 .. Len(s)
      BY <1>7, <2>1
    <2>3. SubSeq(s, 1, m) = Append(SubSeq(s, 1, m - 1), s[m])
      BY <2>1, <2>2, TakeOne
    <2> QED
      BY <1>7, <2>1, <2>3
  <1>10. Listed(i - 1, 0)'
    BY <1>1, <1>4, ListedKept
  <1>11. /\ cur'.id = i /\ cur'.todo = Len(mod.channels) - k - 1
         /\ cur'.channels = Append(SubSeq(s, 1, k), e)
    <2>1. /\ cur'.id = cur.id /\ cur'.todo = cur.todo - 1
          /\ cur'.channels = Append(cur.channels, [mod |-> cur.id, name |-> At(1)])
      BY <1>1, <1>6
    <2>2. cur'.id = i /\ cur'.channels = Append(SubSeq(s, 1, k), e)
      <3>1. cur.id = i /\ cur.channels = SubSeq(s, 1, k) /\ At(1) = mod.channels[m]
        BY <1>4, <1>8
      <3> HIDE DEF s, mod, m
      <3> QED
        BY <2>1, <3>1
    <2>3. cur'.todo = Len(mod.channels) - k - 1
      <3> DEFINE l == Len(mod.channels)
      <3>1. cur.todo = l - k /\ l \in Nat
        BY <1>4, <1>5
      <3> HIDE DEF l
      <3>2. cur'.todo = l - k - 1
        BY <2>1, <3>1
      <3> QED
        BY <3>2 DEF l
    <2> QED
      BY <2>2, <2>3
  <1>12. pos' = End(i - 1) + h + 3 * m
    <2>1. pos = End(i - 1) + h + 3 * k /\ pos' = pos + 3
      BY <1>1, <1>4
    <2>2. End(i - 1) \in Nat /\ h \in Nat /\ k \in Nat
      BY <1>5
    <2> HIDE DEF h
    <2> QED
      BY <2>1, <2>2
  <1>13. cur'.todo = Len(mod.channels) - m
    <2> DEFINE l == Len(mod.channels)
    <2>1. l \in Nat /\ cur'.todo = l - k - 1 /\ k \in Nat
      BY <1>5, <1>11
    <2> HIDE DEF l
    <2>2. cur'.todo = l - m
      BY <2>1
    <2> QED
      BY <2>2 DEF l
  <1>14. m \in 0 .. Len(mod.channels)
    BY <1>7
  <1>15. cur'.channels = SubSeq(s, 1, m)
    BY <1>9, <1>11
  <1>16. left' = Count - i + 1 /\ phase' = "mod_channels"
    BY <1>1, <1>4
  <1>17. cur'.id = i
    BY <1>11
  <1> HIDE DEF m
  <1> QED
    BY <1>1, <1>10, <1>12, <1>13, <1>14, <1>15, <1>16, <1>17, InModNext

\* A mod that is complete.
LEMMA ModDoneParsed ==
    ASSUME Arrived, Parsing, ModDone
    PROVE  Parsing'
  <1>1. /\ sent' = sent /\ left' = left - 1 /\ pos' = pos
        /\ phase = "mod_channels" /\ cur.todo = 0 /\ phase' = "mods"
        /\ channels' = channels \o cur.channels /\ mods' = Append(mods, cur.id)
    BY DEF ModDone
  <1>2. PICK i \in 1 .. Count : \E k \in 0 .. Len(sent.content.mods[i].channels) : InMod(i, k)
    BY <1>1 DEF Parsing
  <1>3. PICK k \in 0 .. Len(sent.content.mods[i].channels) : InMod(i, k)
    BY <1>2
  <1> DEFINE mod == sent.content.mods[i]
             h == HeadSize(mod)
             s == ChannelsOf(i, mod.channels)
             c == sent.content
  <1>4. /\ Listed(i - 1, 0) /\ left = Count - i + 1
        /\ pos = End(i - 1) + h + 3 * k
        /\ cur.id = i /\ cur.todo = Len(mod.channels) - k
        /\ cur.channels = SubSeq(s, 1, k)
    BY <1>3 DEF InMod
  <1>5. /\ mod.channels \in Seq(Nat) /\ Len(mod.channels) \in Nat
        /\ End(i) = End(i - 1) + h + 3 * Len(mod.channels)
    BY ModSpan DEF Arrived
  <1>6. Count \in Nat /\ c.mods \in Mods /\ c.extra \in Seq(Nat) /\ Count = Len(c.mods)
    BY DEF Arrived, Layout, Extra, Count
  <1>7. k = Len(mod.channels)
    <2> DEFINE l == Len(mod.channels)
    <2>1. l \in Nat /\ k \in 0 .. l /\ l - k = 0
      BY <1>1, <1>3, <1>4, <1>5
    <2> HIDE DEF l
    <2>2. k = l
      BY <2>1
    <2> QED
      BY <2>2 DEF l
  <1>8. cur.channels = s
    <2>1. s \in Seq(Named) /\ Len(s) = Len(mod.channels)
      BY <1>5, ChannelsOfType
    <2> HIDE DEF s
    <2>2. SubSeq(s, 1, Len(s)) = s
      BY <2>1, TakeOne
    <2> QED
      BY <1>4, <1>7, <2>1, <2>2
  <1>9. channels' = Channels(c, i, 0)
    <2>1. channels = Channels(c, i - 1, 0)
      BY <1>4 DEF Listed
    <2> HIDE DEF c, s
    <2>2. Channels(c, i, 0) = Channels(c, i - 1, 0) \o ChannelsOf(i, c.mods[i].channels)
      BY <1>6, ChannelsGrow
    <2> QED
      BY <1>1, <1>8, <2>1, <2>2 DEF s, c
  <1>10. mods' = [m \in 1 .. i |-> m]
    <2>1. mods = [m \in 1 .. i - 1 |-> m]
      BY <1>4 DEF Listed
    <2>2. i \in Nat \ {0}
      OBVIOUS
    <2>3. [m \in 1 .. i |-> m] = Append([m \in 1 .. i - 1 |-> m], i)
      BY <2>2, NumbersGrow
    <2> QED
      BY <1>1, <1>4, <2>1, <2>3
  <1>11. Listed(i, 0)'
    BY <1>1, <1>9, <1>10, ListedNext
  <1>12. left' = Count - i
    <2>1. left' = left - 1 /\ left = Count - i + 1 /\ i \in Nat /\ Count \in Nat
      BY <1>1, <1>2, <1>4, <1>6
    <2> QED
      BY <2>1
  <1>13. pos' = End(i)
    BY <1>1, <1>4, <1>5, <1>7
  <1>14. i \in 0 .. Count
    BY <1>6
  <1>15. sent' = sent /\ phase' = "mods"
    BY <1>1
  <1> QED
    BY <1>11, <1>12, <1>13, <1>14, <1>15, BehindModNext

\* All mods are there.
LEMMA ReadCountParsed ==
    ASSUME Arrived, Parsing, ReadCount
    PROVE  Parsing'
  <1>1. /\ sent' = sent /\ mods' = mods /\ channels' = channels /\ pos' = pos
        /\ phase = "mods" /\ left = 0 /\ phase' = "count"
    BY DEF ReadCount, result
  <1>2. PICK i \in 0 .. Count : BehindMod(i)
    BY <1>1 DEF Parsing
  <1>3. i = Count /\ Listed(i, 0) /\ pos = End(i)
    <2>1. Count \in Nat
      BY DEF Arrived, Layout
    <2> QED
      BY <1>1, <1>2, <2>1 DEF BehindMod
  <1>4. Count' = Count /\ End(Count)' = End(Count)
    BY <1>1 DEF Count, End
  <1>5. mods' = [m \in 1 .. Count |-> m] /\ channels' = Channels(sent.content, Count, 0)
    BY <1>1, <1>3 DEF Listed
  <1>6. Listed(Count, 0)'
    BY <1>1, <1>4, <1>5 DEF Listed
  <1>7. pos' = End(Count)'
    BY <1>1, <1>3, <1>4
  <1> QED
    BY <1>1, <1>6, <1>7 DEF Parsing

\* The number of channels without a mod.
LEMMA ReadChannelCountParsed ==
    ASSUME Arrived, Parsing, ReadChannelCount
    PROVE  Parsing'
  <1>1. /\ sent' = sent /\ mods' = mods /\ channels' = channels /\ pos' = pos + 1
        /\ phase = "count" /\ Has(1) /\ left' = At(1) /\ phase' = "channels"
    BY DEF ReadChannelCount, result
  <1>2. Listed(Count, 0) /\ pos = End(Count)
    BY <1>1 DEF Parsing
  <1>3. /\ WrittenBytes[End(Count) + 1] = Len(Extra) /\ Len(Extra) \in Nat
        /\ pos \in Nat /\ Len(buffer) \in Nat
    BY DEF Arrived, Layout, Types
  <1>4. At(1) = Len(Extra)
    <2>1. 1 \in Nat \ {0} /\ pos + 1 <= Len(buffer)
      BY <1>1, <1>3 DEF Has
    <2>2. At(1) = WrittenBytes[pos + 1]
      BY <2>1, Seen
    <2> QED
      BY <1>2, <1>3, <2>2
  <1>5. mods' = [m \in 1 .. Count |-> m] /\ channels' = Channels(sent.content, Count, 0)
    BY <1>1, <1>2 DEF Listed
  <1>6. 0 \in 0 .. Len(Extra) /\ left' = Len(Extra) - 0 /\ pos' = End(Count) + 1 + 3 * 0
    BY <1>1, <1>2, <1>3, <1>4
  <1> QED
    BY <1>1, <1>5, <1>6, BehindChannelNext

\* A channel without a mod.
LEMMA ReadChannelParsed ==
    ASSUME Arrived, Parsing, ReadChannel
    PROVE  Parsing'
  <1>1. /\ sent' = sent /\ mods' = mods /\ pos' = pos + 3 /\ left' = left - 1
        /\ channels' = Append(channels, [mod |-> 0, name |-> At(1)])
        /\ phase = "channels" /\ left > 0 /\ Has(3) /\ phase' = phase
    BY DEF ReadChannel
  <1>2. PICK i \in 0 .. Len(Extra) : BehindChannel(i)
    BY <1>1 DEF Parsing, Extra
  <1> DEFINE j == i + 1
             c == sent.content
  <1>3. Listed(Count, i) /\ left = Len(Extra) - i /\ pos = End(Count) + 1 + 3 * i
    BY <1>2 DEF BehindChannel, Extra
  <1>4. /\ \A q \in 1 .. Len(Extra) :
              WrittenBytes[End(Count) + 1 + 3 * (q - 1) + 1] = Extra[q]
        /\ Len(Extra) \in Nat /\ Count \in Nat /\ pos \in Nat /\ Len(buffer) \in Nat
        /\ \A q \in 0 .. Count : End(q) \in Nat
        /\ c.mods \in Mods /\ c.extra \in Seq(Nat)
    <2>1. Layout /\ pos \in Nat /\ Len(buffer) \in Nat
      BY DEF Arrived, Types
    <2> QED
      BY <2>1 DEF Layout, Extra
  <1>5. j \in 1 .. Len(Extra) /\ j - 1 = i /\ End(Count) \in Nat
    BY <1>1, <1>2, <1>3, <1>4
  <1>6. At(1) = Extra[j]
    <2>1. 1 \in Nat \ {0} /\ pos + 1 <= Len(buffer)
      BY <1>1, <1>4 DEF Has
    <2>2. At(1) = WrittenBytes[pos + 1]
      BY <2>1, Seen
    <2>3. WrittenBytes[End(Count) + 1 + 3 * (j - 1) + 1] = Extra[j]
      BY <1>4, <1>5
    <2> QED
      BY <1>3, <1>5, <2>2, <2>3
  <1>7. channels' = Channels(c, Count, j)
    <2>1. channels = Channels(c, Count, i)
      BY <1>3 DEF Listed
    <2>2. Count = Len(c.mods) /\ Extra = c.extra
      BY DEF Count, Extra
    <2>3. j \in 1 .. Len(c.extra)
      BY <1>5, <2>2
    <2> HIDE DEF c, j
    <2>4. Channels(c, Len(c.mods), j) =
             Append(Channels(c, Len(c.mods), j - 1), [mod |-> 0, name |-> c.extra[j]])
      BY <1>4, <2>3, ChannelsGrow
    <2> QED
      BY <1>1, <1>5, <1>6, <2>1, <2>2, <2>4
  <1>8. mods' = [m \in 1 .. Count |-> m]
    BY <1>1, <1>3 DEF Listed
  <1>9. /\ j \in 0 .. Len(Extra) /\ left' = Len(Extra) - j
        /\ pos' = End(Count) + 1 + 3 * j /\ phase' = "channels"
    <2> DEFINE e == End(Count)
               l == Len(Extra)
    <2>1. /\ i \in Nat /\ l \in Nat /\ e \in Nat /\ j \in 1 .. l
          /\ left' = l - i - 1 /\ pos' = e + 1 + 3 * i + 3
      BY <1>1, <1>2, <1>3, <1>4, <1>5
    <2> HIDE DEF e, l
    <2>2. j \in 0 .. l /\ left' = l - j /\ pos' = e + 1 + 3 * j
      BY <2>1
    <2> QED
      BY <1>1, <2>2 DEF e, l
  <1> HIDE DEF j
  <1> QED
    BY <1>1, <1>7, <1>8, <1>9, BehindChannelNext

\* All channels are there.
LEMMA FinishParsed ==
    ASSUME Arrived, Parsing, Finish
    PROVE  Parsing'
  <1>1. /\ sent' = sent /\ mods' = mods /\ channels' = channels
        /\ phase = "channels" /\ left = 0 /\ phase' = "done"
    BY DEF Finish, result
  <1>2. PICK j \in 0 .. Len(Extra) : BehindChannel(j)
    BY <1>1 DEF Parsing, Extra
  <1>3. Len(Extra) \in Nat /\ Count \in Nat
    BY DEF Arrived, Layout
  <1>4. j = Len(Extra) /\ Listed(Count, j)
    BY <1>1, <1>2, <1>3 DEF BehindChannel, Extra
  <1>5. Count' = Count /\ sent'.content.extra = Extra
    BY <1>1 DEF Count, Extra
  <1>6. Ended(Count, j)'
    BY <1>1, <1>4, <1>5 DEF Ended, Listed
  <1> QED
    BY <1>1, <1>3, <1>5, <1>6 DEF Parsing

\* The data end: the string is not whole, and the list is told to be truncated
\* or an error is.
LEMMA EndSeen ==
    ASSUME Arrived, DataEnds,
           NEW m \in Nat, m > Len(buffer), m <= Len(WrittenBytes),
           NEW i \in 0 .. Count, NEW j \in 0 .. Len(Extra), Listed(i, j), j > 0 => i = Count
    PROVE  Parsing'
  <1>0. /\ sent' = sent /\ mods' = mods /\ channels' = channels /\ truncated' = truncated
        /\ phase' = (IF truncated THEN "done" ELSE "raised")
    BY DEF DataEnds, result
  <1>1. Listed(i, j)'
    BY <1>0, ListedKept
  <1>2. CASE truncated
    <2>1. phase' = "done" /\ truncated' = TRUE
      <3>1. truncated \in BOOLEAN
        BY DEF Arrived, Types
      <3> QED
        BY <1>0, <1>2, <3>1
    <2> QED
      BY <1>0, <1>1, <2>1, ListEnds
  <1>3. CASE ~truncated
    <2>1. ~Whole
      BY Cut
    <2>2. phase' = "raised"
      BY <1>0, <1>3
    <2> QED
      BY <1>0, <2>1, <2>2, Raises
  <1> QED
    BY <1>2, <1>3

\* How far the server wrote.
LEMMA WrittenFar ==
    ASSUME Layout
    PROVE  /\ Count \in Nat /\ Len(Extra) \in Nat /\ Len(WrittenBytes) \in Nat
           /\ End(Count) \in Nat
           /\ Len(WrittenBytes) = End(Count) + 1 + 3 * Len(Extra)
           /\ \A j \in 1 .. Len(Extra) : End(Count) + 1 + 3 * j <= Len(WrittenBytes)
  <1> DEFINE e == End(Count)
             l == Len(Extra)
  <1>1. /\ Count \in Nat /\ l \in Nat
        /\ \A i \in 0 .. Count : End(i) \in Nat
        /\ Len(WrittenBytes) = e + 1 + 3 * l
    BY DEF Layout
  <1>2. e \in Nat
    BY <1>1
  <1> HIDE DEF e, l
  <1>3. \A j \in 1 .. l : e + 1 + 3 * j <= e + 1 + 3 * l
    BY <1>1, <1>2
  <1> QED
    BY <1>1, <1>2, <1>3 DEF e, l

\* The short read of each phase.
LEMMA DataEndsParsed ==
    ASSUME Arrived, Parsing, DataEnds
    PROVE  Parsing'
  <1>1. /\ Count \in Nat /\ Len(Extra) \in Nat /\ Len(WrittenBytes) \in Nat
        /\ End(Count) \in Nat /\ End(Count) + 1 <= Len(WrittenBytes)
        /\ \A j \in 1 .. Len(Extra) : End(Count) + 1 + 3 * j <= Len(WrittenBytes)
    <2>1. /\ Count \in Nat /\ Len(Extra) \in Nat /\ Len(WrittenBytes) \in Nat
          /\ End(Count) \in Nat
          /\ Len(WrittenBytes) = End(Count) + 1 + 3 * Len(Extra)
          /\ \A j \in 1 .. Len(Extra) : End(Count) + 1 + 3 * j <= Len(WrittenBytes)
      BY WrittenFar DEF Arrived
    <2> QED
      BY <2>1
  <1>2. Layout /\ pos \in Nat /\ Len(buffer) \in Nat
    BY DEF Arrived, Types
  <1>3. 0 \in 0 .. Len(Extra)
    BY <1>1
  <1>4. ASSUME phase = "mods", left > 0, ~HasMod PROVE Parsing'
    <2>1. PICK i \in 1 .. Count : Listed(i - 1, 0) /\ left = Count - i + 1 /\ pos = End(i - 1)
      BY <1>4, AnotherMod
    <2> DEFINE h == HeadSize(sent.content.mods[i])
    <2>2. /\ Len(sent.content.mods[i].channels) \in Nat /\ h \in {2, 3}
          /\ End(i - 1) \in Nat /\ End(i) \in Nat /\ End(i) <= End(Count)
          /\ End(i) = End(i - 1) + h + 3 * Len(sent.content.mods[i].channels)
      BY <1>2, <2>1, ModSpan
    <2>3. pos + h <= Len(WrittenBytes)
      <3> DEFINE k == Len(sent.content.mods[i].channels)
                 e == End(i - 1)
      <3>1. k \in Nat /\ e \in Nat /\ h \in {2, 3} /\ End(i) = e + h + 3 * k /\ pos = e
        BY <2>1, <2>2
      <3> HIDE DEF k, h, e
      <3>2. pos + h <= End(i)
        BY <3>1
      <3> QED
        BY <1>1, <2>2, <3>1, <3>2
    <2>4. i - 1 \in 0 .. Count
      BY <1>1, <2>1
    <2>5. CASE Has(1)
      <3>1. ModSize = h /\ ~Has(ModSize)
        <4>1. ModSize = h
          BY <2>1, <2>5, HeadSeen
        <4>2. ~Has(ModSize)
          BY <1>4, <2>5 DEF HasMod
        <4> QED
          BY <4>1, <4>2
      <3> DEFINE m == pos + h
      <3>2. m \in Nat /\ m > Len(buffer) /\ m <= Len(WrittenBytes)
        <4>1. ~(Len(buffer) - pos >= h)
          BY <3>1 DEF Has
        <4>2. pos \in Nat /\ Len(buffer) \in Nat
          BY <1>2
        <4>3. h \in {2, 3} /\ pos + h <= Len(WrittenBytes)
          BY <2>2, <2>3
        <4> HIDE DEF h
        <4> QED
          BY <4>1, <4>2, <4>3
      <3> HIDE DEF m
      <3> QED
        BY <1>3, <2>1, <2>4, <3>2, EndSeen
    <2>6. CASE ~Has(1)
      <3> DEFINE m == pos + 1
      <3>1. m \in Nat /\ m > Len(buffer) /\ m <= Len(WrittenBytes)
        <4>1. ~(Len(buffer) - pos >= 1)
          BY <2>6 DEF Has
        <4>2. pos \in Nat /\ Len(buffer) \in Nat /\ Len(WrittenBytes) \in Nat
          BY <1>1, <1>2
        <4>3. h \in {2, 3} /\ pos + h <= Len(WrittenBytes)
          BY <2>2, <2>3
        <4> HIDE DEF h
        <4> QED
          BY <4>1, <4>2, <4>3
      <3> HIDE DEF m
      <3> QED
        BY <1>3, <2>1, <2>4, <3>1, EndSeen
    <2> QED
      BY <2>5, <2>6
  <1>5. ASSUME phase = "mod_channels", cur.todo > 0, ~Has(3) PROVE Parsing'
    <2>1. PICK i \in 1 .. Count : \E k \in 0 .. Len(sent.content.mods[i].channels) : InMod(i, k)
      BY <1>5 DEF Parsing
    <2>2. PICK k \in 0 .. Len(sent.content.mods[i].channels) : InMod(i, k)
      BY <2>1
    <2> DEFINE h == HeadSize(sent.content.mods[i])
               l == Len(sent.content.mods[i].channels)
               m == pos + 3
    <2>3. Listed(i - 1, 0) /\ pos = End(i - 1) + h + 3 * k /\ cur.todo = l - k
      BY <2>2 DEF InMod
    <2>4. /\ l \in Nat /\ h \in {2, 3}
          /\ End(i - 1) \in Nat /\ End(i) \in Nat /\ End(i) <= End(Count)
          /\ End(i) = End(i - 1) + h + 3 * l
      BY <1>2, <2>1, ModSpan
    <2>5. k \in 0 .. l
      BY <2>2
    <2> HIDE DEF h, l
    <2>6. k + 1 <= l /\ k \in Nat
      BY <1>5, <2>3, <2>4, <2>5
    <2>7. m <= End(i)
      BY <2>3, <2>4, <2>6
    <2>8. m \in Nat /\ m > Len(buffer)
      BY <1>2, <1>5 DEF Has
    <2> HIDE DEF m
    <2>9. m <= Len(WrittenBytes)
      BY <1>1, <2>4, <2>7, <2>8
    <2>10. i - 1 \in 0 .. Count
      BY <1>1, <2>1
    <2> QED
      BY <1>3, <2>3, <2>8, <2>9, <2>10, EndSeen
  <1>6. ASSUME phase = "count", ~Has(1) PROVE Parsing'
    <2>1. Listed(Count, 0) /\ pos = End(Count)
      BY <1>6 DEF Parsing
    <2>2. PICK i \in 0 .. Count : i = Count
      BY <1>1
    <2>3. Listed(i, 0)
      BY <2>1, <2>2
    <2> DEFINE m == pos + 1
    <2>4. m \in Nat /\ m > Len(buffer) /\ m <= Len(WrittenBytes)
      BY <1>1, <1>2, <1>6, <2>1 DEF Has
    <2> HIDE DEF m
    <2> QED
      BY <1>3, <2>2, <2>3, <2>4, EndSeen
  <1>7. ASSUME phase = "channels", left > 0, ~Has(3) PROVE Parsing'
    <2>1. PICK j \in 0 .. Len(Extra) : BehindChannel(j)
      BY <1>7 DEF Parsing, Extra
    <2>2. Listed(Count, j) /\ left = Len(Extra) - j /\ pos = End(Count) + 1 + 3 * j
      BY <2>1 DEF BehindChannel, Extra
    <2>3. PICK i \in 0 .. Count : i = Count
      BY <1>1
    <2>4. Listed(i, j)
      BY <2>2, <2>3
    <2> DEFINE m == pos + 3
               k == j + 1
               l == Len(Extra)
               e == End(Count)
    <2>5. k \in 1 .. l
      BY <1>1, <1>7, <2>1, <2>2
    <2>6. e + 1 + 3 * k <= Len(WrittenBytes)
      BY <1>1, <2>5
    <2>7. m = e + 1 + 3 * k
      <3>1. pos = e + 1 + 3 * j /\ j \in Nat /\ e \in Nat
        BY <1>1, <2>1, <2>2
      <3> HIDE DEF e
      <3> QED
        BY <3>1
    <2>8. m \in Nat /\ m > Len(buffer)
      BY <1>2, <1>7 DEF Has
    <2> HIDE DEF m, k, l, e
    <2>9. m <= Len(WrittenBytes)
      BY <2>6, <2>7
    <2> QED
      BY <2>1, <2>3, <2>4, <2>8, <2>9, EndSeen
  <1> QED
    BY <1>4, <1>5, <1>6, <1>7 DEF DataEnds, Short

\* The two characters of the size are there unless some are lost.
LEMMA SizeThere ==
    ASSUME Sent, Start, phase = "size", sent.lost = 0
    PROVE  ~(Len(chars) < 2)
  <1> DEFINE content == sent.content
             flag == sent.flag
             kept == sent.kept
             lost == sent.lost
             K == SubSeq(ContentBytes(content, flag), 1, kept)
  <1>1. /\ content \in Contents /\ flag \in BOOLEAN /\ lost \in 0 .. 2
        /\ kept \in 0 .. Len(ContentBytes(content, flag))
    BY DEF Sent, WrittenBytes
  <1>2. chars = StringOf(content, flag, kept, lost)
    BY DEF Start
  <1>3. lost = 0
    OBVIOUS
  <1> HIDE DEF content, flag, kept, lost
  <1>4. K \in Seq(Byte) /\ IsStringOf(StringOf(content, flag, kept, lost), K, lost)
    BY <1>1, StringStands, Zenon
  <1> HIDE DEF K
  <1>5. IsStringOf(chars, K, lost)
    BY <1>2, <1>4
  <1> DEFINE P == Packed(K)
  <1>6. P \in Seq(0 .. 2 ^ CharBits - 1)
    BY <1>4, PackedOf
  <1>7. Len(chars) = Len(P) + 2
    BY <1>3, <1>5 DEF IsStringOf
  <1> HIDE DEF P
  <1>8. Len(P) \in Nat
    BY <1>6
  <1> QED
    BY <1>7, <1>8

\* Nothing is listed before the header is read.
LEMMA UnpackingParsed ==
    ASSUME Parsing, ReadSize \/ UnpackByte \/ Unpacked
    PROVE  Parsing'
  <1>1. /\ sent' = sent /\ mods' = mods /\ channels' = channels /\ pos' = pos
        /\ phase \in {"size", "unpack"} /\ phase' \in {"unpack", "header"}
    BY DEF ReadSize, UnpackByte, Unpacked, result
  <1>2. Listed(0, 0) /\ pos = 0
    BY <1>1 DEF Parsing
  <1>3. Listed(0, 0)'
    BY <1>1, <1>2, ListedKept
  <1> QED
    BY <1>1, <1>2, <1>3 DEF Parsing

\* A step that changes nothing.
LEMMA ParsingKept ==
    ASSUME Parsing, UNCHANGED vars
    PROVE  Parsing'
  <1>1. /\ sent' = sent /\ mods' = mods /\ channels' = channels /\ pos' = pos
        /\ phase' = phase /\ left' = left /\ cur' = cur /\ truncated' = truncated
    BY DEF vars, result
  <1> QED
    BY <1>1 DEF Parsing, Listed, Count, End, BehindMod, InMod, BehindChannel, Ended, Whole

\* The decoder lists what the server wrote, up to where it is.
LEMMA DecodingStep ==
    ASSUME Types, Start, Received, Decoding, [Next]_vars
    PROVE  Decoding'
  <1> SUFFICES ASSUME impl' = "python", sent'.lost = 0 PROVE Parsing'
    BY DEF Decoding
  <1>1. CASE UNCHANGED vars
    <2>1. impl = "python" /\ sent.lost = 0
      BY <1>1 DEF vars
    <2>2. Parsing
      BY <2>1 DEF Decoding
    <2> QED
      BY <1>1, <2>2, ParsingKept
  <1>2. CASE ReadSize \/ UnpackByte \/ Unpacked
    <2>1. impl = "python" /\ sent.lost = 0
      BY <1>2 DEF ReadSize, UnpackByte, Unpacked
    <2>2. Parsing
      BY <2>1 DEF Decoding
    <2> QED
      BY <1>2, <2>2, UnpackingParsed
  <1>3. CASE SizeMissing
    <2>1. phase = "size" /\ sent.lost = 0 /\ Len(chars) < 2 /\ Sent
      BY <1>3 DEF SizeMissing, Types
    <2> QED
      BY <2>1, SizeThere
  <1>4. CASE RustDecode
    BY <1>4 DEF RustDecode
  <1>5. CASE Terminating
    <2>1. UNCHANGED vars
      BY <1>5 DEF Terminating
    <2> QED
      BY <1>1, <2>1
  <1>6. CASE \/ HeaderMissing \/ ReadHeader \/ ReadMod \/ ReadModChannel \/ ModDone
             \/ ReadCount \/ ReadChannelCount \/ ReadChannel \/ Finish \/ DataEnds
    <2>1. /\ sent' = sent /\ impl' = impl
          /\ phase \in {"header", "mods", "mod_channels", "count", "channels"}
      BY <1>6 DEF HeaderMissing, ReadHeader, ReadMod, ReadModChannel, ModDone, ReadCount,
             ReadChannelCount, ReadChannel, Finish, DataEnds, Short
    <2>2. Parsing
      BY <2>1 DEF Decoding
    <2>3. Layout
      <3>1. Sent
        BY DEF Types
      <3> QED
        BY <3>1, LayoutOf
    <2>4. Arrived
      BY <2>1, <2>3 DEF Arrived
    <2> QED
      BY <1>6, <2>2, <2>4, ReadHeaderParsed, HeaderMissingParsed, ReadModParsed,
         ReadModChannelParsed, ModDoneParsed, ReadCountParsed, ReadChannelCountParsed,
         ReadChannelParsed, FinishParsed, DataEndsParsed
  <1> QED
    BY <1>1, <1>2, <1>3, <1>4, <1>5, <1>6 DEF Next

-----------------------------------------------------------------------------
(* The invariant is inductive.                                             *)

\* It holds at the start.
LEMMA IInvInit == Init => IInv
  <1> SUFFICES ASSUME Init PROVE IInv
    OBVIOUS
  <1>1. Types
    BY TypesInit
  <1>2. /\ phase = "size" /\ value = 0 /\ bits = 0 /\ buffer = << >> /\ pos = 0
        /\ mods = << >> /\ channels = << >>
    BY DEF Init
  <1>3. Start
    <2>1. PICK content \in Contents, flag \in BOOLEAN :
             \E kept \in 0 .. Len(ContentBytes(content, flag)), lost \in 0 .. 2 :
                /\ sent = [content |-> content, flag |-> flag, kept |-> kept, lost |-> lost]
                /\ chars = StringOf(content, flag, kept, lost)
      BY DEF Init
    <2>2. PICK kept \in 0 .. Len(ContentBytes(content, flag)), lost \in 0 .. 2 :
             /\ sent = [content |-> content, flag |-> flag, kept |-> kept, lost |-> lost]
             /\ chars = StringOf(content, flag, kept, lost)
      BY <2>1
    <2>3. /\ sent.content = content /\ sent.flag = flag
          /\ sent.kept = kept /\ sent.lost = lost
      BY <2>2
    <2> QED
      BY <1>2, <2>2, <2>3 DEF Start
  <1>4. Unpacking
    BY <1>2 DEF Unpacking
  <1>5. Received
    <2>1. Len(buffer) = 0
      BY <1>2
    <2> QED
      BY <1>2, <2>1 DEF Received, Copied
  <1>6. Decoding
    <2>1. Layout
      BY <1>1, LayoutOf DEF Types
    <2> DEFINE content == sent.content
    <2>2. content.mods \in Mods /\ content.extra \in Seq(Nat)
      BY <2>1 DEF Layout, Extra
    <2> HIDE DEF content
    <2>3. Channels(content, 0, 0) = << >>
      BY <2>2, ChannelsGrow
    <2>4. [m \in 1 .. 0 |-> m] = << >>
      OBVIOUS
    <2>5. Listed(0, 0)
      BY <1>2, <2>3, <2>4 DEF Listed, content
    <2> QED
      BY <1>2, <2>5 DEF Decoding, Parsing
  <1> QED
    BY <1>1, <1>3, <1>4, <1>5, <1>6 DEF IInv

\* And after each step.
LEMMA IInvStep == IInv /\ [Next]_vars => IInv'
  <1> SUFFICES ASSUME IInv, [Next]_vars PROVE IInv'
    OBVIOUS
  <1>1. Types /\ Start /\ Unpacking /\ Received /\ Decoding
    BY DEF IInv
  <1>2. Types'
    BY <1>1, TypesStep
  <1>3. Start'
    BY <1>1, StartStep
  <1>4. Unpacking'
    BY <1>1, UnpackingStep
  <1>5. Received'
    BY <1>1, ReceivedStep
  <1>6. Decoding'
    BY <1>1, DecodingStep
  <1> QED
    BY <1>2, <1>3, <1>4, <1>5, <1>6 DEF IInv

\* So it holds always.
LEMMA IInvAlways == Spec => []IInv
  BY IInvInit, IInvStep, PTL DEF Spec

-----------------------------------------------------------------------------
(* What follows from it.                                                   *)

\* The register never holds more bits than a byte and a character, the read
\* position stays in the buffer, and no counter goes below zero (forge.py:61-79).
THEOREM ForgeTypeOK == Spec => []TypeOK
  <1>1. IInv => TypeOK
    <2> SUFFICES ASSUME Types PROVE TypeOK
      BY DEF IInv
    <2>1. /\ impl \in {"python", "rust"} /\ phase \in Phases
          /\ bits \in 0 .. CharBits - 1 /\ value \in 0 .. 2 ^ bits - 1
          /\ buffer \in Seq(Byte) /\ pos \in 0 .. Len(buffer)
          /\ truncated \in BOOLEAN /\ left \in Nat
          /\ cur \in [id : Nat, todo : Nat, channels : Seq(Named)]
      BY DEF Types
    <2>2. value \in 0 .. 2 ^ (ByteBits + CharBits) - 1
      <3> DEFINE m == ByteBits + CharBits
      <3>1. m \in Nat /\ bits \in Nat /\ bits <= m
        BY <2>1, Widths
      <3> HIDE DEF m
      <3>2. 2 ^ bits <= 2 ^ m
        BY <3>1, PowerGrows
      <3>3. 2 ^ bits \in Nat /\ 2 ^ m \in Nat
        BY <3>1, PowerType
      <3>4. value \in 0 .. 2 ^ m - 1
        BY <2>1, <3>2, <3>3
      <3> QED
        BY <3>4 DEF m
    <2>3. bits \in 0 .. CharBits
      BY <2>1, Widths
    <2>4. cur.todo \in Nat
      BY <2>1
    <2> QED
      BY <2>1, <2>2, <2>3, <2>4 DEF TypeOK
  <1> QED
    BY <1>1, IInvAlways, PTL

\* What stands at the beginning is a prefix.
LEMMA BeginsIsPrefix ==
    ASSUME NEW V, NEW s \in Seq(V), NEW t \in Seq(V), Begins(s, t)
    PROVE  IsPrefix(s, t)
  <1> DEFINE n == Len(s)
             u == SubSeq(t, 1, n)
  <1>1. n \in Nat /\ Len(t) \in Nat /\ n <= Len(t) /\ \A q \in 1 .. n : t[q] = s[q]
    BY DEF Begins
  <1>2. SubSeq(s, 1, n) = s
    BY SubSeqFull
  <1>3. u \in Seq(V) /\ Len(u) = n /\ \A q \in 1 .. n : u[q] = t[q]
    <2> HIDE DEF n
    <2>1. 1 \in Int /\ n \in Int /\ \A q \in 1 .. n : t[q] \in V
      BY <1>1
    <2>2. /\ SubSeq(t, 1, n) \in Seq(V)
          /\ Len(SubSeq(t, 1, n)) = IF 1 <= n THEN n - 1 + 1 ELSE 0
          /\ \A q \in 1 .. n - 1 + 1 : SubSeq(t, 1, n)[q] = t[1 + q - 1]
      BY <2>1, SubSeqProperties
    <2> QED
      BY <1>1, <2>2
  <1> HIDE DEF u
  <1>4. \A q \in 1 .. n : s[q] = u[q]
    BY <1>1, <1>3
  <1>5. s = u
    BY <1>3, <1>4, SeqEqual
  <1> QED
    BY <1>1, <1>2, <1>5 DEF IsPrefix, u

\* The first elements of a sequence begin it, also behind another one.
LEMMA FirstBegins ==
    ASSUME NEW V, NEW s \in Seq(V), NEW t \in Seq(V), NEW k \in 0 .. Len(t)
    PROVE  Begins(s \o SubSeq(t, 1, k), s \o t)
  <1> DEFINE a == SubSeq(t, 1, k)
             l == Len(s)
  <1>1. l \in Nat /\ Len(t) \in Nat /\ k \in Nat /\ k <= Len(t)
    OBVIOUS
  <1>2. a \in Seq(V) /\ Len(a) = k /\ \A q \in 1 .. k : a[q] = t[q]
    <2>1. 1 \in Int /\ k \in Int /\ \A q \in 1 .. k : t[q] \in V
      OBVIOUS
    <2>2. /\ SubSeq(t, 1, k) \in Seq(V)
          /\ Len(SubSeq(t, 1, k)) = IF 1 <= k THEN k - 1 + 1 ELSE 0
          /\ \A q \in 1 .. k - 1 + 1 : SubSeq(t, 1, k)[q] = t[1 + q - 1]
      BY <2>1, SubSeqProperties
    <2> QED
      BY <1>1, <2>2
  <1> HIDE DEF a, l
  <1>3. /\ Len(s \o a) = l + k
        /\ \A q \in 1 .. l + k : (s \o a)[q] = IF q <= l THEN s[q] ELSE a[q - l]
    BY <1>2, ConcatProperties DEF l
  <1>4. /\ Len(s \o t) = l + Len(t)
        /\ \A q \in 1 .. l + Len(t) : (s \o t)[q] = IF q <= l THEN s[q] ELSE t[q - l]
    BY ConcatProperties DEF l
  <1>5. ASSUME NEW q \in 1 .. l + k PROVE (s \o t)[q] = (s \o a)[q]
    <2>1. q \in 1 .. l + Len(t)
      BY <1>1
    <2>2. CASE q <= l
      BY <1>3, <1>4, <2>1, <2>2
    <2>3. CASE ~(q <= l)
      <3>1. q - l \in 1 .. k
        BY <1>1, <2>3
      <3> QED
        BY <1>2, <1>3, <1>4, <2>1, <2>3, <3>1
    <2> QED
      BY <2>2, <2>3
  <1>6. Len(s \o a) <= Len(s \o t)
    BY <1>1, <1>3, <1>4
  <1> QED
    BY <1>3, <1>5, <1>6 DEF Begins, a

\* What the properties name, in the terms of the invariant.
LEMMA ListsOf ==
    ASSUME Layout
    PROVE  /\ AllMods = [m \in 1 .. Count |-> m] /\ Len(AllMods) = Count
           /\ \A i \in 0 .. Count : Modded(i) = Leading(ChannelsOfMods(sent.content), i)
           /\ AllChannels = Leading(ChannelsOfMods(sent.content), Count) \o ChannelsOf(0, Extra)
           /\ ChannelsOfMods(sent.content) \in [1 .. Count -> Seq(Named)]
           /\ ChannelsOf(0, Extra) \in Seq(Named) /\ Len(ChannelsOf(0, Extra)) = Len(Extra)
  <1> DEFINE content == sent.content
             W == ChannelsOfMods(content)
  <1>1. /\ content.mods \in Mods /\ content.extra \in Seq(Nat) /\ Count \in Nat
        /\ Count = Len(content.mods) /\ Extra = content.extra
    BY DEF Layout, Count, Extra
  <1>2. DOMAIN content.mods = 1 .. Count
    BY <1>1 DEF Mods
  <1>3. AllMods = [m \in 1 .. Count |-> m] /\ Len(AllMods) = Count
    <2>1. AllMods = [m \in 1 .. Count |-> m]
      BY <1>2 DEF AllMods
    <2> QED
      BY <1>1, <2>1
  <1>4. ASSUME NEW i \in 0 .. Count PROVE Modded(i) = Leading(W, i)
    <2>1. \A m \in 1 .. i : W[m] = ChannelsOf(m, content.mods[m].channels)
      <3>1. \A m \in 1 .. i : m \in 1 .. Len(content.mods)
        BY <1>1
      <3> QED
        BY <3>1 DEF ChannelsOfMods
    <2>2. [m \in 1 .. i |-> W[m]] = [m \in 1 .. i |-> ChannelsOf(m, content.mods[m].channels)]
      BY <2>1
    <2> QED
      BY <2>2 DEF Modded, Leading
  <1>5. AllChannels = Leading(W, Count) \o ChannelsOf(0, Extra)
    <2>1. Count \in 0 .. Count
      BY <1>1
    <2>2. Modded(Count) = Leading(W, Count)
      BY <1>4, <2>1
    <2> QED
      BY <1>1, <1>3, <2>2 DEF AllChannels
  <1>6. W \in [1 .. Count -> Seq(Named)]
    <2> HIDE DEF content, W
    <2>1. ChannelsOfMods(content) \in [1 .. Len(content.mods) -> Seq(Named)]
      BY <1>1, ChannelsGrow
    <2> QED
      BY <1>1, <2>1 DEF W
  <1>7. ChannelsOf(0, Extra) \in Seq(Named) /\ Len(ChannelsOf(0, Extra)) = Len(Extra)
    BY <1>1, ChannelsOfType
  <1> QED
    BY <1>3, <1>4, <1>5, <1>6, <1>7

\* The first i numbers.
LEMMA NumbersBegin ==
    ASSUME NEW n \in Nat, NEW i \in 0 .. n
    PROVE  /\ IsPrefix([m \in 1 .. i |-> m], [m \in 1 .. n |-> m])
           /\ Len([m \in 1 .. i |-> m]) = i
           /\ i # n => [m \in 1 .. i |-> m] # [m \in 1 .. n |-> m]
  <1> DEFINE s == [m \in 1 .. i |-> m]
             t == [m \in 1 .. n |-> m]
  <1>1. s \in Seq(Nat) /\ t \in Seq(Nat) /\ Len(s) = i /\ Len(t) = n
    OBVIOUS
  <1>2. Begins(s, t)
    <2>1. \A q \in 1 .. i : s[q] = q /\ t[q] = q
      OBVIOUS
    <2> HIDE DEF s, t
    <2> QED
      BY <1>1, <2>1 DEF Begins
  <1> HIDE DEF s, t
  <1>3. IsPrefix(s, t)
    BY <1>1, <1>2, BeginsIsPrefix
  <1>4. i # n => s # t
    BY <1>1
  <1> QED
    BY <1>1, <1>3, <1>4 DEF s, t

\* What is listed of i mods and j channels without a mod.
LEMMA ListedIsFirst ==
    ASSUME Layout, NEW i \in 0 .. Count, NEW j \in 0 .. Len(Extra),
           Listed(i, j), j > 0 => i = Count
    PROVE  /\ IsPrefix(mods, AllMods) /\ Len(mods) = i
           /\ IsPrefix(Modded(Len(mods)), channels)
           /\ IsPrefix(channels, AllChannels)
           /\ mods # AllMods => channels = Modded(Len(mods))
           /\ i = Count /\ j = Len(Extra) => mods = AllMods /\ channels = AllChannels
  <1> DEFINE W == ChannelsOfMods(sent.content)
             X == ChannelsOf(0, Extra)
             L == Leading(W, i)
             A == Leading(W, Count)
             Y == SubSeq(X, 1, j)
             N == Named
  <1>1. /\ AllMods = [m \in 1 .. Count |-> m]
        /\ Modded(i) = L /\ AllChannels = A \o X
        /\ W \in [1 .. Count -> Seq(N)] /\ X \in Seq(N) /\ Len(X) = Len(Extra)
    BY ListsOf
  <1>2. Count \in Nat /\ Len(Extra) \in Nat
    BY DEF Layout
  <1>3. mods = [m \in 1 .. i |-> m] /\ channels = L \o Y
    BY DEF Listed, Channels, Extra
  <1> HIDE DEF N, W, X
  <1>4. IsPrefix(mods, AllMods) /\ Len(mods) = i /\ (i # Count => mods # AllMods)
    BY <1>1, <1>2, <1>3, NumbersBegin
  <1>5. L \in Seq(N) /\ A \in Seq(N) /\ Begins(L, A)
    <2>1. Count \in 0 .. Count
      BY <1>2
    <2> QED
      BY <1>1, <1>2, <2>1, LeadingStep, LeadingPrefix
  <1>6. Y \in Seq(N) /\ (j = 0 => Y = << >>) /\ (j = Len(Extra) => Y = X)
    BY <1>1, TakeOne
  <1> HIDE DEF L, A, Y
  <1>7. L \o Y \in Seq(N) /\ A \o X \in Seq(N)
    BY <1>1, <1>5, <1>6, ConcatProperties
  <1>8. IsPrefix(Modded(Len(mods)), channels)
    <2>1. Begins(L, L)
      BY <1>5 DEF Begins
    <2>2. Begins(L, L \o Y)
      BY <1>5, <1>6, <2>1, BeginsConcat
    <2> QED
      BY <1>1, <1>3, <1>4, <1>5, <1>7, <2>2, BeginsIsPrefix
  <1>9. j = 0 => channels = L
    <2>1. L \o << >> = L
      BY <1>5, ConcatEmptySeq
    <2> QED
      BY <1>3, <1>6, <2>1
  <1>10. Begins(channels, A \o X)
    <2>1. CASE j = 0
      <3>1. Begins(L, A \o X)
        BY <1>1, <1>5, BeginsConcat
      <3> QED
        BY <1>9, <2>1, <3>1
    <2>2. CASE j # 0
      <3>1. i = Count
        BY <1>2, <2>2
      <3>2. L = A
        BY <3>1 DEF L, A
      <3>3. Begins(A \o Y, A \o X)
        BY <1>1, <1>5, FirstBegins DEF Y
      <3> QED
        BY <1>3, <3>2, <3>3
    <2> QED
      BY <2>1, <2>2
  <1>11. IsPrefix(channels, AllChannels)
    BY <1>1, <1>3, <1>7, <1>10, BeginsIsPrefix
  <1>12. ASSUME mods # AllMods PROVE channels = Modded(Len(mods))
    <2>1. i # Count
      BY <1>1, <1>3, <1>12
    <2>2. j = 0
      BY <1>2, <2>1
    <2> QED
      BY <1>1, <1>4, <1>9, <2>2
  <1>13. ASSUME i = Count, j = Len(Extra) PROVE mods = AllMods /\ channels = AllChannels
    <2>1. L = A
      BY <1>13 DEF L, A
    <2> QED
      BY <1>1, <1>3, <1>6, <1>13, <2>1
  <1> QED
    BY <1>4, <1>8, <1>11, <1>12, <1>13

\* A result of Python made of a string that lost no character lists the first
\* mods of the server and exactly their channels; channels without a mod follow
\* only when every mod is there (forge.py:128 and 235-242), whatever the widths
\* and wherever the string stops.
THEOREM DecodedModsAreWhole == Spec => []WholeModsOnly
  <1>1. IInv => WholeModsOnly
    <2> SUFFICES ASSUME IInv, impl = "python", phase = "done", sent.lost = 0
                 PROVE  /\ IsPrefix(mods, AllMods)
                        /\ IsPrefix(Modded(Len(mods)), channels)
                        /\ IsPrefix(channels, AllChannels)
                        /\ mods # AllMods => channels = Modded(Len(mods))
      BY DEF WholeModsOnly
    <2>1. Layout
      BY LayoutOf DEF IInv, Types
    <2>2. PICK i \in 0 .. Count : \E j \in 0 .. Len(Extra) : Ended(i, j)
      BY DEF IInv, Decoding, Parsing, Extra
    <2>3. PICK j \in 0 .. Len(Extra) : Ended(i, j)
      BY <2>2
    <2>4. Listed(i, j) /\ (j > 0 => i = Count)
      BY <2>3 DEF Ended
    <2> QED
      BY <2>1, <2>2, <2>3, <2>4, ListedIsFirst
  <1> QED
    BY <1>1, IInvAlways, PTL

\* Wherever the server stopped, if all it wrote arrives, Python returns a list
\* that is not complete only with the flag `truncated` set, and it raises only
\* when something is missing (forge.py:243-245).
THEOREM CutsAreTold == Spec => []CutIsTold
  <1>1. IInv => CutIsTold
    <2> SUFFICES ASSUME IInv, impl = "python", sent.lost = 0
                 PROVE  /\ phase = "done" /\ ~truncated => mods = AllMods /\ channels = AllChannels
                        /\ phase = "raised" => ~Whole
      BY DEF CutIsTold
    <2>1. Layout
      BY LayoutOf DEF IInv, Types
    <2>2. phase = "raised" => ~Whole
      BY DEF IInv, Decoding, Parsing
    <2>3. ASSUME phase = "done", ~truncated PROVE mods = AllMods /\ channels = AllChannels
      <3>1. PICK i \in 0 .. Count : \E j \in 0 .. Len(Extra) : Ended(i, j)
        BY <2>3 DEF IInv, Decoding, Parsing, Extra
      <3>2. PICK j \in 0 .. Len(Extra) : Ended(i, j)
        BY <3>1
      <3>3. Listed(i, j) /\ (j > 0 => i = Count) /\ i = Count /\ j = Len(Extra)
        BY <2>3, <3>2 DEF Ended, Extra
      <3> QED
        BY <2>1, <3>1, <3>2, <3>3, ListedIsFirst
    <2> QED
      BY <2>2, <2>3
  <1> QED
    BY <1>1, IInvAlways, PTL
=============================================================================
