------------------------------- MODULE NatLemmas -------------------------------
(***************************************************************************)
(* Facts about natural numbers that the proofs about fmt rest on: a set    *)
(* with the first number and the successor of each of its members has them *)
(* all, so a function can be defined by recursion; and what powers of two, *)
(* division and remainders are.  None of them is in the library for the    *)
(* provers used here: they are derived from its facts about finite sets.   *)
(***************************************************************************)
EXTENDS Integers, FiniteSetTheorems, FunctionTheorems, WellFoundedInduction,
        TLAPS

(* A set of natural numbers with a member has a least one.                 *)
LEMMA LeastNatural ==
  ASSUME NEW T \in SUBSET Nat, T # {}
  PROVE  \E n \in T : \A m \in T : n <= m
<1> DEFINE Below(n) == 1 .. n
           Family   == {Below(n) : n \in T}
<1>1. Family \subseteq FiniteSubsetsOf(Nat) /\ Family # {}
  <2>1. \A n \in T : Below(n) \in SUBSET Nat /\ IsFiniteSet(Below(n))
    BY FS_Interval
  <2>2. QED
    BY <2>1 DEF FiniteSubsetsOf
<1>2. PICK X \in Family : \A Y \in Family : <<Y, X>> \notin StrictSubsetOrdering(Nat)
  <2> HIDE DEF Family
  <2>1. IsWellFoundedOn(StrictSubsetOrdering(Nat), FiniteSubsetsOf(Nat))
    BY FS_StrictSubsetOrderingWellFounded
  <2>2. QED
    BY <1>1, <2>1, WFMin
<1>3. PICK n \in T : X = Below(n)
  OBVIOUS
<1>4. ASSUME NEW m \in T, m < n PROVE FALSE
  <2>1. Below(m) \subseteq Below(n) /\ Below(m) # Below(n)
    <3>1. n \in Below(n) /\ n \notin Below(m)
      BY <1>4
    <3>2. QED
      BY <1>4, <3>1
  <2>2. Below(m) \in SUBSET Nat /\ Below(n) \in SUBSET Nat
    OBVIOUS
  <2>3. <<Below(m), Below(n)>> \in StrictSubsetOrdering(Nat)
    BY <2>1, <2>2 DEF StrictSubsetOrdering
  <2>4. QED
    BY <1>2, <1>3, <2>3
<1>5. QED
  BY <1>4

(* Induction.                                                              *)
LEMMA NatSetInduction ==
  ASSUME NEW P, 0 \in P, \A n \in Nat : n \in P => n + 1 \in P
  PROVE  Nat \subseteq P
<1>1. SUFFICES ASSUME Nat \ P # {} PROVE FALSE
  OBVIOUS
<1>2. PICK n \in Nat \ P : \A m \in Nat \ P : n <= m
  BY <1>1, LeastNatural
<1>3. n # 0 /\ n - 1 \in Nat
  BY <1>2
<1>4. n - 1 \in P
  BY <1>2, <1>3
<1>5. QED
  BY <1>2, <1>3, <1>4

(* The first n steps of a recursion: a first value and a function that     *)
(* takes a value, and the number of the step, to the next.                 *)
Unfolds(f, S, a, d, n) ==
  /\ f \in [0 .. n -> S] /\ f[0] = a
  /\ \A i \in 0 .. n - 1 : f[i + 1] = d[<<f[i], i>>]

(* All of them, which always exist.                                        *)
Recursion(f, S, a, d) ==
  /\ f \in [Nat -> S] /\ f[0] = a
  /\ \A n \in Nat : f[n + 1] = d[<<f[n], n>>]

LEMMA NatRecursion ==
  ASSUME NEW S, NEW a \in S, NEW d \in [S \X Nat -> S]
  PROVE  \E f : Recursion(f, S, a, d)
<1> DEFINE P == {n \in Nat : \E f : Unfolds(f, S, a, d, n)}
<1>1. 0 \in P
  <2>1. Unfolds([i \in {0} |-> a], S, a, d, 0)
    BY DEF Unfolds
  <2>2. QED
    BY <2>1
<1>2. \A n \in Nat : n \in P => n + 1 \in P
  <2> SUFFICES ASSUME NEW n \in Nat, NEW f, Unfolds(f, S, a, d, n)
               PROVE  \E g : Unfolds(g, S, a, d, n + 1)
    OBVIOUS
  <2> DEFINE g == [i \in 0 .. n + 1 |-> IF i = n + 1 THEN d[<<f[n], n>>] ELSE f[i]]
  <2>1. f \in [0 .. n -> S] /\ n \in 0 .. n
    BY DEF Unfolds
  <2>2. \A i \in 0 .. n : i \in 0 .. n + 1 /\ i # n + 1
    OBVIOUS
  <2>3. n + 1 \in 0 .. n + 1 /\ 0 \in 0 .. n
    OBVIOUS
  <2>4. f[n] \in S /\ d[<<f[n], n>>] \in S
    BY <2>1
  <2>5. g[n + 1] = d[<<f[n], n>>] /\ \A i \in 0 .. n : g[i] = f[i]
    BY <2>2, <2>3
  <2>6. g \in [0 .. n + 1 -> S]
    <3>1. \A i \in 0 .. n + 1 : i = n + 1 \/ i \in 0 .. n
      OBVIOUS
    <3>2. QED
      BY <2>1, <2>4, <3>1
  <2> HIDE DEF g
  <2>7. g[0] = a
    BY <2>3, <2>5 DEF Unfolds
  <2>8. \A i \in 0 .. n : g[i + 1] = d[<<g[i], i>>]
    <3> TAKE i \in 0 .. n
    <3>1. CASE i = n
      BY <2>1, <2>5, <3>1
    <3>2. CASE i # n
      <4>1. i \in 0 .. n - 1 /\ i + 1 \in 0 .. n
        BY <3>2
      <4>2. QED
        BY <2>5, <4>1 DEF Unfolds
    <3>3. QED
      BY <3>1, <3>2
  <2>9. Unfolds(g, S, a, d, n + 1)
    BY <2>6, <2>7, <2>8 DEF Unfolds
  <2>10. QED
    BY <2>9
<1>3. Nat \subseteq P
  <2> HIDE DEF P
  <2>1. QED
    BY <1>1, <1>2, NatSetInduction
<1>4. ASSUME NEW n \in Nat, NEW m \in Nat, m >= n, NEW f, NEW g,
             Unfolds(f, S, a, d, n), Unfolds(g, S, a, d, m)
      PROVE  \A i \in 0 .. n : f[i] = g[i]
  <2> DEFINE Q == {i \in Nat : i <= n => f[i] = g[i]}
  <2>1. 0 \in Q
    BY <1>4 DEF Unfolds
  <2>2. ASSUME NEW i \in Nat, i \in Q PROVE i + 1 \in Q
    <3>1. CASE i + 1 <= n
      <4>1. i \in 0 .. n - 1 /\ i \in 0 .. m - 1
        BY <1>4, <3>1
      <4>2. f[i + 1] = d[<<f[i], i>>] /\ g[i + 1] = d[<<g[i], i>>]
        BY <1>4, <4>1 DEF Unfolds
      <4>3. QED
        BY <2>2, <3>1, <4>2
    <3>2. QED
      BY <3>1
  <2>3. Nat \subseteq Q
    <3> HIDE DEF Q
    <3>1. QED
      BY <2>1, <2>2, NatSetInduction
  <2>4. QED
    BY <2>3
<1> DEFINE G(n) == CHOOSE f : Unfolds(f, S, a, d, n)
           F    == [n \in Nat |-> G(n)[n]]
<1>5. \A n \in Nat : Unfolds(G(n), S, a, d, n)
  <2> TAKE n \in Nat
  <2>1. \E f : Unfolds(f, S, a, d, n)
    BY <1>3
  <2>2. QED
    BY <2>1
<1> HIDE DEF P, G
<1>6. F \in [Nat -> S]
  BY <1>5 DEF Unfolds
<1>7. F[0] = a
  BY <1>5 DEF Unfolds
<1>8. ASSUME NEW n \in Nat PROVE F[n + 1] = d[<<F[n], n>>]
  <2>1. n + 1 \in Nat /\ n + 1 >= n /\ n \in 0 .. n /\ n \in 0 .. (n + 1) - 1
    OBVIOUS
  <2>2. G(n + 1)[n] = G(n)[n]
    BY <1>4, <1>5, <2>1
  <2>3. G(n + 1)[n + 1] = d[<<G(n + 1)[n], n>>]
    BY <1>5, <2>1 DEF Unfolds
  <2>4. F[n + 1] = G(n + 1)[n + 1] /\ F[n] = G(n)[n]
    BY <2>1
  <2>5. QED
    BY <2>2, <2>3, <2>4
<1>9. Recursion(F, S, a, d)
  BY <1>6, <1>7, <1>8 DEF Recursion
<1>10. QED
  BY <1>9

(* A set with one element more has twice as many subsets.                  *)
LEMMA PowerOfTwo ==
  ASSUME NEW n \in Nat
  PROVE  2 ^ n \in Nat \ {0} /\ 2 ^ (n + 1) = 2 * 2 ^ n
<1> DEFINE A == SUBSET (1 .. n)
           B == {X \cup {n + 1} : X \in A}
           F == [X \in A |-> X \cup {n + 1}]
<1>1. \A k \in Nat : Cardinality(1 .. k) = k /\ IsFiniteSet(1 .. k)
  BY FS_Interval
<1>2. \A k \in Nat : /\ Cardinality(SUBSET (1 .. k)) = 2 ^ k
                     /\ IsFiniteSet(SUBSET (1 .. k)) /\ 2 ^ k \in Nat
  BY <1>1, FS_SUBSET, FS_CardinalityType
<1>3. \A X \in A : n + 1 \notin X
  OBVIOUS
<1>4. F \in Bijection(A, B)
  <2>1. F \in [A -> B] /\ \A Y \in B : \E X \in A : F[X] = Y
    OBVIOUS
  <2>2. \A X, Y \in A : F[X] = F[Y] => X = Y
    <3> SUFFICES ASSUME NEW X \in A, NEW Y \in A, F[X] = F[Y] PROVE X = Y
      OBVIOUS
    <3>1. X \cup {n + 1} = Y \cup {n + 1} /\ n + 1 \notin X /\ n + 1 \notin Y
      BY <1>3
    <3>2. QED
      BY <3>1
  <2>3. QED
    BY <2>1, <2>2, Fun_IsBij
<1>5. IsFiniteSet(B) /\ Cardinality(B) = 2 ^ n
  <2>1. ExistsBijection(A, B)
    BY <1>4 DEF ExistsBijection
  <2>2. IsFiniteSet(A) /\ Cardinality(A) = 2 ^ n
    BY <1>2
  <2> HIDE DEF A, B
  <2>3. QED
    BY <2>1, <2>2, FS_Bijection
<1>6. SUBSET (1 .. n + 1) = A \cup B
  <2>1. \A X \in SUBSET (1 .. n + 1) : X \in A \/ X \in B
    <3> TAKE X \in SUBSET (1 .. n + 1)
    <3>1. X \ {n + 1} \in A
      OBVIOUS
    <3>2. CASE n + 1 \in X
      <4>1. X = (X \ {n + 1}) \cup {n + 1}
        BY <3>2
      <4>2. QED
        BY <3>1, <4>1
    <3>3. CASE n + 1 \notin X
      BY <3>1, <3>3
    <3>4. QED
      BY <3>2, <3>3
  <2>2. A \subseteq SUBSET (1 .. n + 1) /\ B \subseteq SUBSET (1 .. n + 1)
    <3>1. 1 .. n \subseteq 1 .. n + 1 /\ n + 1 \in 1 .. n + 1
      OBVIOUS
    <3>2. QED
      BY <3>1
  <2>3. QED
    BY <2>1, <2>2
<1>7. A \cap B = {}
  BY <1>3
<1>8. Cardinality(A \cup B) = 2 ^ n + 2 ^ n
  <2>1. Cardinality(A \cap B) = 0
    BY <1>7, FS_EmptySet
  <2>2. IsFiniteSet(A) /\ Cardinality(A) = 2 ^ n /\ 2 ^ n \in Nat
    BY <1>2
  <2> HIDE DEF A, B
  <2>3. QED
    BY <1>5, <2>1, <2>2, FS_Union
<1>9. 2 ^ (n + 1) = 2 * 2 ^ n
  <2>1. n + 1 \in Nat /\ Cardinality(SUBSET (1 .. n + 1)) = 2 ^ (n + 1)
    BY <1>2
  <2>2. 2 ^ n \in Nat
    BY <1>2
  <2> HIDE DEF A, B
  <2>3. 2 ^ n + 2 ^ n = 2 * 2 ^ n
    BY <2>2
  <2>4. 2 ^ (n + 1) = 2 ^ n + 2 ^ n
    BY <1>6, <1>8, <2>1
  <2>5. QED
    BY <2>3, <2>4
<1>10. 2 ^ n # 0
  <2>1. SUBSET (1 .. n) # {}
    OBVIOUS
  <2>2. Cardinality(SUBSET (1 .. n)) # 0
    BY <1>2, <2>1, FS_EmptySet
  <2>3. QED
    BY <1>2, <2>2
<1>11. QED
  BY <1>2, <1>9, <1>10

(* Exponents add up.                                                       *)
LEMMA PowerSum ==
  ASSUME NEW a \in Nat, NEW b \in Nat
  PROVE  2 ^ (a + b) = 2 ^ a * 2 ^ b
<1> DEFINE P == {n \in Nat : 2 ^ (a + n) = 2 ^ a * 2 ^ n}
<1>1. 0 \in P
  <2>1. 2 ^ a \in Nat /\ 2 ^ 0 = 1 /\ a + 0 = a
    BY PowerOfTwo
  <2>2. QED
    BY <2>1
<1>2. ASSUME NEW n \in Nat, n \in P PROVE n + 1 \in P
  <2>1. PICK x \in Nat, y \in Nat : x = 2 ^ a /\ y = 2 ^ n
    BY PowerOfTwo
  <2>2. 2 ^ (a + n) = x * y
    BY <1>2, <2>1
  <2>3. 2 ^ (n + 1) = 2 * y
    BY <2>1, PowerOfTwo
  <2>4. 2 ^ ((a + n) + 1) = 2 * (x * y)
    <3>1. a + n \in Nat
      OBVIOUS
    <3>2. 2 ^ ((a + n) + 1) = 2 * 2 ^ (a + n)
      BY <3>1, PowerOfTwo
    <3>3. QED
      BY <3>2, <2>2
  <2>5. 2 * (x * y) = x * (2 * y)
    OBVIOUS
  <2>6. a + (n + 1) = (a + n) + 1
    OBVIOUS
  <2>7. 2 ^ (a + (n + 1)) = 2 ^ a * 2 ^ (n + 1)
    BY <2>1, <2>3, <2>4, <2>5, <2>6
  <2>8. QED
    BY <2>7
<1>3. Nat \subseteq P
  <2> HIDE DEF P
  <2>1. QED
    BY <1>1, <1>2, NatSetInduction
<1>4. QED
  BY <1>3

(* Division by d and its remainder.                                        *)
LEMMA DivisionIs ==
  ASSUME NEW d \in Nat \ {0}, NEW a \in Nat, NEW b \in Nat, b < d
  PROVE  (b + a * d) \div d = a /\ (b + a * d) % d = b
<1>1. PICK n \in Nat : n = a * d + b
  OBVIOUS
<1>2. n \div d = a /\ n % d = b
  BY <1>1
<1>3. QED
  BY <1>1, <1>2

(* Division and remainder make up the number.                              *)
LEMMA Divided ==
  ASSUME NEW d \in Nat \ {0}, NEW n \in Nat
  PROVE  n \div d \in Nat /\ n % d \in 0 .. d - 1 /\ n = (n % d) + (n \div d) * d
<1>1. n \div d \in Nat /\ n % d \in 0 .. d - 1
  OBVIOUS
<1>2. n = (n \div d) * d + (n % d)
  OBVIOUS
<1>3. QED
  BY <1>1, <1>2

(* The laws of products that the steps with several factors need.          *)
LEMMA ProductIs ==
  ASSUME NEW a \in Nat, NEW b \in Nat, NEW c \in Nat
  PROVE  a * b \in Nat /\ a * (b * c) = (a * b) * c /\ a * b = b * a
         /\ (a + b) * c = a * c + b * c
<1>1. a * b \in Nat /\ a * b = b * a
  OBVIOUS
<1>2. a * (b * c) = (a * b) * c
  OBVIOUS
<1>3. (a + b) * c = a * c + b * c
  OBVIOUS
<1>4. QED
  BY <1>1, <1>2, <1>3

(* A greater exponent, a greater power.                                    *)
LEMMA PowersGrow ==
  ASSUME NEW a \in Nat, NEW b \in Nat, a <= b
  PROVE  2 ^ a <= 2 ^ b
<1>1. b - a \in Nat /\ a + (b - a) = b
  OBVIOUS
<1>2. PICK x \in Nat \ {0}, y \in Nat \ {0} : x = 2 ^ a /\ y = 2 ^ (b - a)
  BY <1>1, PowerOfTwo
<1>3. 2 ^ b = x * y
  BY <1>1, <1>2, PowerSum
<1>4. x <= x * y
  OBVIOUS
<1>5. QED
  BY <1>2, <1>3, <1>4
================================================================================
