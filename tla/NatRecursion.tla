---------------------------- MODULE NatRecursion ----------------------------
(***************************************************************************)
(* Induction and definition by recursion over the natural numbers, in the  *)
(* form the proofs about this program use them: about a set of numbers and *)
(* a step function, never about an operator.                               *)
(***************************************************************************)
EXTENDS Integers, Sequences, FiniteSets, WellFoundedInduction, TLAPS

LEMMA LessIsWellFounded ==
  IsWellFoundedOn({p \in Nat \X Nat : p[1] < p[2]}, Nat)
BY NatLessThanWellFounded DEF OpToRel

(* A set with 0 and the successor of each of its numbers holds them all:   *)
(* otherwise the least number outside has a predecessor inside.            *)
LEMMA Induction ==
  ASSUME NEW S, 0 \in S, \A n \in Nat : n \in S => n + 1 \in S
  PROVE  \A n \in Nat : n \in S
<1> DEFINE R == {p \in Nat \X Nat : p[1] < p[2]}
           T == {n \in Nat : n \notin S}
<1>1. SUFFICES ASSUME T # {} PROVE FALSE
  OBVIOUS
<1>2. PICK x \in T : \A y \in T : ~ (<<y, x>> \in R)
  <2>1. IsWellFoundedOn(R, Nat) /\ T \subseteq Nat
    BY LessIsWellFounded
  <2> HIDE DEF R, T
  <2>2. QED
    BY <1>1, <2>1, WFMin
<1>3. PICK p \in Nat : x = p + 1
  <2>1. x \in Nat /\ x # 0
    BY <1>2
  <2>2. x - 1 \in Nat /\ x = (x - 1) + 1
    BY <2>1
  <2>3. QED
    BY <2>2
<1>4. p \in S
  <2>1. <<p, x>> \in Nat \X Nat /\ p < x
    BY <1>3
  <2>2. <<p, x>> \in R
    BY <2>1
  <2>3. p \notin T
    BY <1>2, <2>2
  <2>4. QED
    BY <2>3
<1>5. p + 1 \in S
  BY <1>4
<1>6. QED
  BY <1>2, <1>3, <1>5

(* A set of numbers with a bound has a largest one.                        *)
LEMMA LargestExists ==
  ASSUME NEW T \in SUBSET Nat, T # {}, NEW b \in Nat, \A y \in T : y <= b
  PROVE  \E x \in T : \A y \in T : y <= x
<1> DEFINE S == {n \in Nat : (\E x \in T : b - n <= x)
                               => \E x \in T : \A y \in T : y <= x}
<1>1. 0 \in S
  BY SMT
<1>2. ASSUME NEW n \in Nat, n \in S PROVE n + 1 \in S
  <2>1. SUFFICES ASSUME NEW x \in T, b - (n + 1) <= x
                 PROVE  \E z \in T : \A y \in T : y <= z
    BY SMT
  <2>2. CASE \E z \in T : b - n <= z
    BY <1>2, <2>2
  <2>3. CASE \A z \in T : ~(b - n <= z)
    BY <2>1, <2>3
  <2>4. QED
    BY <2>2, <2>3
<1>3. b \in S
  <2> HIDE DEF S
  <2>1. QED
    BY <1>1, <1>2, Induction
<1>4. \E x \in T : b - b <= x
  <2>1. PICK x \in T : x \in Nat
    OBVIOUS
  <2>2. b - b <= x
    BY <2>1
  <2>3. QED
    BY <2>2
<1>5. QED
  BY <1>3, <1>4

(* A set of numbers has a least one.                                       *)
LEMMA LeastExists ==
  ASSUME NEW T \in SUBSET Nat, T # {}
  PROVE  \E x \in T : \A y \in T : x <= y
<1> DEFINE R == {p \in Nat \X Nat : p[1] < p[2]}
<1>1. PICK x \in T : \A y \in T : ~ (<<y, x>> \in R)
  <2>1. IsWellFoundedOn(R, Nat)
    BY LessIsWellFounded
  <2> HIDE DEF R
  <2>2. QED
    BY <2>1, WFMin
<1>2. ASSUME NEW y \in T PROVE x <= y
  <2>1. <<y, x>> \in Nat \X Nat /\ ~(y < x)
    BY <1>1
  <2>2. QED
    BY <2>1
<1>3. QED
  BY <1>2

(* A finite set of numbers has a bound.                                    *)
LEMMA FiniteIsBounded ==
  ASSUME NEW T \in SUBSET Nat, IsFiniteSet(T)
  PROVE  \E b \in Nat : \A y \in T : y <= b
<1>1. PICK seq \in Seq(T) : \A y \in T : \E n \in 1 .. Len(seq) : seq[n] = y
  BY DEF IsFiniteSet
<1>2. PICK len \in Nat : len = Len(seq)
  OBVIOUS
<1>3. \A i \in 1 .. len : seq[i] \in Nat
  <2>1. \A i \in 1 .. Len(seq) : seq[i] \in T
    OBVIOUS
  <2>2. QED
    BY <1>2, <2>1
<1> DEFINE S == {n \in Nat : n <= len =>
                   \E b \in Nat : \A i \in 1 .. n : seq[i] <= b}
<1>4. 0 \in S
  OBVIOUS
<1>5. ASSUME NEW n \in Nat, n \in S PROVE n + 1 \in S
  <2>1. SUFFICES ASSUME n + 1 <= len
                 PROVE  \E b \in Nat : \A i \in 1 .. n + 1 : seq[i] <= b
    BY SMT
  <2>2. PICK b \in Nat : \A i \in 1 .. n : seq[i] <= b
    BY <1>5, <2>1
  <2>3. n + 1 \in 1 .. len /\ seq[n + 1] \in Nat
    BY <1>3, <2>1
  <2>4. PICK c \in Nat : c >= b /\ c >= seq[n + 1]
    <3>1. b + seq[n + 1] \in Nat /\ b + seq[n + 1] >= b
          /\ b + seq[n + 1] >= seq[n + 1]
      BY <2>3
    <3>2. QED
      BY <3>1
  <2>5. ASSUME NEW i \in 1 .. n + 1 PROVE seq[i] <= c
    <3>1. CASE i = n + 1
      BY <2>3, <2>4, <3>1
    <3>2. CASE i # n + 1
      <4>1. i \in 1 .. n /\ i \in 1 .. len
        BY <2>1, <3>2
      <4>2. seq[i] <= b /\ seq[i] \in Nat
        BY <1>3, <2>2, <4>1
      <4>3. QED
        BY <2>4, <4>2
    <3>3. QED
      BY <3>1, <3>2
  <2>6. QED
    BY <2>5
<1>6. len \in S
  <2> HIDE DEF S
  <2>1. QED
    BY <1>4, <1>5, Induction
<1>7. PICK b \in Nat : \A i \in 1 .. len : seq[i] <= b
  BY <1>6
<1>8. \A y \in T : y <= b
  BY <1>1, <1>2, <1>7
<1>9. QED
  BY <1>8

-----------------------------------------------------------------------------
(* Partial sums of the terms t[1], t[2], ... can be defined by recursion:  *)
(* from a function up to m one gets a function up to m + 1.                *)
PartialSums(t, m, f) ==
  f = [k \in 0 .. m |-> IF k = 0 THEN 0 ELSE f[k - 1] + t[k]]

LEMMA PartialSumsExist ==
  ASSUME NEW t, NEW n \in Nat PROVE \E f : PartialSums(t, n, f)
<1> DEFINE S == {m \in Nat : \E f : PartialSums(t, m, f)}
<1>1. 0 \in S
  <2> DEFINE f == [k \in 0 .. 0 |-> 0]
  <2>1. PartialSums(t, 0, f)
    BY DEF PartialSums
  <2>2. QED
    BY <2>1
<1>2. ASSUME NEW m \in Nat, m \in S PROVE m + 1 \in S
  <2>1. PICK f : PartialSums(t, m, f)
    BY <1>2
  <2> DEFINE g == [k \in 0 .. m + 1 |->
                     IF k = m + 1 THEN f[m] + t[k] ELSE f[k]]
  <2>2. ASSUME NEW k \in 0 .. m + 1
        PROVE  g[k] = IF k = 0 THEN 0 ELSE g[k - 1] + t[k]
    <3>1. CASE k = m + 1
      BY <3>1
    <3>2. CASE k # m + 1
      <4>1. k \in 0 .. m /\ (k # 0 => k - 1 \in 0 .. m)
        BY <3>2
      <4>2. f[k] = IF k = 0 THEN 0 ELSE f[k - 1] + t[k]
        BY <2>1, <4>1 DEF PartialSums
      <4>3. g[k] = f[k] /\ (k # 0 => g[k - 1] = f[k - 1])
        BY <3>2, <4>1
      <4>4. QED
        BY <4>2, <4>3
    <3>3. QED
      BY <3>1, <3>2
  <2>3. PartialSums(t, m + 1, g)
    BY <2>2 DEF PartialSums
  <2> HIDE DEF g
  <2>4. QED
    BY <2>3
<1>3. \A m \in Nat : m \in S
  <2> HIDE DEF S
  <2>1. QED
    BY <1>1, <1>2, Induction
<1>4. QED
  BY <1>3

-----------------------------------------------------------------------------
(* Division: what makes a quotient and a rest, and what adding multiples   *)
(* of the divisor does to them.                                            *)

LEMMA DividesWithRest ==
  ASSUME NEW m \in Nat \ {0}, NEW n \in Int
  PROVE  /\ n \div m \in Int /\ n % m \in 0 .. m - 1
         /\ n = (n \div m) * m + (n % m)
<1>1. n \div m \in Int /\ n % m \in 0 .. m - 1
  OBVIOUS
<1>2. n = (n \div m) * m + (n % m)
  BY SMT
<1>3. QED
  BY <1>1, <1>2

LEMMA RestIsUnique ==
  ASSUME NEW m \in Nat \ {0}, NEW q \in Int, NEW r \in 0 .. m - 1,
         NEW n \in Int, n = q * m + r
  PROVE  n \div m = q /\ n % m = r
<1>1. n \div m = q
  BY SMTT(30)
<1>2. n % m = r
  BY SMTT(30)
<1>3. QED
  BY <1>1, <1>2

LEMMA MultiplesLeaveTheRest ==
  ASSUME NEW m \in Nat \ {0}, NEW n \in Int, NEW q \in Int
  PROVE  (n + q * m) % m = n % m /\ (n + q * m) \div m = n \div m + q
<1>1. PICK p \in Int, r \in 0 .. m - 1 :
        p = n \div m /\ r = n % m /\ n = p * m + r
  BY DividesWithRest
<1>2. PICK s \in Int, x \in Int : s = p + q /\ x = n + q * m
  OBVIOUS
<1>3. x = s * m + r
  <2>1. s * m = p * m + q * m
    BY <1>2
  <2>2. QED
    BY <1>1, <1>2, <2>1
<1>4. x \div m = s /\ x % m = r
  BY <1>3, RestIsUnique
<1>5. QED
  BY <1>1, <1>2, <1>4

LEMMA RestsAdd ==
  ASSUME NEW m \in Nat \ {0}, NEW n \in Int, NEW k \in Int
  PROVE  ((n % m) + k) % m = (n + k) % m
<1>1. PICK p \in Int, r \in 0 .. m - 1 : r = n % m /\ n = p * m + r
  BY DividesWithRest
<1>2. PICK x \in Int : x = r + k
  OBVIOUS
<1>3. n + k = x + p * m
  <2>1. PICK y \in Int : y = p * m
    OBVIOUS
  <2>2. r \in Int /\ n = y + r
    BY <1>1, <2>1
  <2>3. n + k = x + y
    BY <1>2, <2>2
  <2>4. QED
    BY <2>1, <2>3
<1>4. (x + p * m) % m = x % m
  BY MultiplesLeaveTheRest
<1>5. QED
  BY <1>1, <1>2, <1>3, <1>4

(* Cutting off what is above a digit does not change the digit.            *)
CutKeeps(x, a, b, c) ==
  ((x % (a * b * c)) \div a) % b = (x \div a) % b

LEMMA DigitStays ==
  ASSUME NEW a \in Nat \ {0}, NEW b \in Nat \ {0}, NEW c \in Nat \ {0},
         NEW x \in Int
  PROVE  CutKeeps(x, a, b, c)
<1>1. PICK m \in Nat \ {0}, k \in Int : m = a * b * c /\ k = b * c
  OBVIOUS
<1>2. PICK q \in Int, r \in 0 .. m - 1 : r = x % m /\ x = q * m + r
  BY DividesWithRest
<1>3. PICK h \in Int : h = q * k
  OBVIOUS
<1>4. x = r + h * a
  BY <1>1, <1>2, <1>3
<1>5. x \div a = r \div a + h
  BY <1>4, MultiplesLeaveTheRest
<1>6. PICK u \in Int, v \in Int : u = r \div a /\ v = q * c
  BY DividesWithRest
<1>7. h = v * b
  BY <1>1, <1>3, <1>6
<1>8. (u + v * b) % b = u % b
  BY MultiplesLeaveTheRest
<1>9. ((x % (a * b * c)) \div a) % b = (x \div a) % b
  BY <1>1, <1>2, <1>5, <1>6, <1>7, <1>8
<1>10. QED
  BY <1>9 DEF CutKeeps
=============================================================================
