---------------------------- MODULE NumberFacts -----------------------------
(***************************************************************************)
(* What the proofs need of Min, with which the loops that look for the     *)
(* first free entry of a table are modelled, and of %, with which ring     *)
(* buffers and their wrapping counters are.                                *)
(***************************************************************************)
EXTENDS Integers, FiniteSetsExt, TLAPS, WellFoundedInduction, FiniteSetTheorems

\* A set of numbers below a bound has a smallest element.
LEMMA MinIsLeast ==
  ASSUME NEW N \in Nat, NEW S \in SUBSET (0 .. N), S # {}
  PROVE  Min(S) \in S /\ \A y \in S : Min(S) <= y
<1> DEFINE U == 0 .. N
           T == {0 .. s : s \in S}
<1>1. IsFiniteSet(U)
  BY FS_Interval, 0 \in Int, N \in Int
<1>2. T \subseteq SUBSET U
  <2> SUFFICES ASSUME NEW s \in S PROVE 0 .. s \subseteq U
    OBVIOUS
  <2> QED OBVIOUS
<1>3. T # {}
  OBVIOUS
<1>4. IsWellFoundedOn(StrictSubsetOrdering(U), SUBSET U)
  <2> HIDE DEF U
  <2> QED BY <1>1, FS_FiniteSubsetsOfFinite, FS_StrictSubsetOrderingWellFounded
<1>5. \E x \in T : \A y \in T : ~(<<y, x>> \in StrictSubsetOrdering(U))
  <2> HIDE DEF T, U
  <2> QED BY <1>2, <1>3, <1>4, WFMin, Zenon
<1>6. PICK x \in T : \A y \in T : ~(<<y, x>> \in StrictSubsetOrdering(U))
  BY <1>5
<1>7. PICK s \in S : x = 0 .. s
  OBVIOUS
<1>8. \A t \in S : s <= t
  <2> SUFFICES ASSUME NEW t \in S, t < s PROVE FALSE
    OBVIOUS
  <2>1. 0 .. t \subseteq 0 .. s /\ 0 .. t # 0 .. s
    OBVIOUS
  <2>2. 0 .. t \in T
    OBVIOUS
  <2> QED BY <1>2, <1>6, <1>7, <2>1, <2>2 DEF StrictSubsetOrdering
<1> HIDE DEF T, U
<1>9. \E z \in S : \A y \in S : z <= y
  BY <1>8
<1> QED BY <1>9 DEF Min

\* And a largest one.
LEMMA MaxIsGreatest ==
  ASSUME NEW N \in Nat, NEW S \in SUBSET (0 .. N), S # {}
  PROVE  Max(S) \in S /\ \A y \in S : Max(S) >= y
<1> DEFINE T == {N - x : x \in S}
<1>1. T \in SUBSET (0 .. N) /\ T # {}
  <2>1. \A x \in S : N - x \in 0 .. N
    OBVIOUS
  <2>2. T \subseteq 0 .. N
    BY <2>1
  <2> QED BY <2>2
<1> HIDE DEF T
<1>2. Min(T) \in T /\ \A y \in T : Min(T) <= y
  BY <1>1, MinIsLeast
<1>3. PICK x \in S : Min(T) = N - x
  BY <1>2 DEF T
<1>4. \A y \in S : N - y \in T
  BY DEF T
<1>5. \A y \in S : x >= y
  <2> SUFFICES ASSUME NEW y \in S PROVE x >= y
    OBVIOUS
  <2>1. N - x <= N - y
    BY <1>2, <1>3, <1>4
  <2>2. x \in Int /\ y \in Int
    OBVIOUS
  <2> QED BY <2>1, <2>2
<1>6. \E z \in S : \A y \in S : z >= y
  BY <1>5
<1> QED BY <1>6 DEF Max

\* No multiple of B lies strictly between 0 and B.
LEMMA NoMultipleBetween ==
  ASSUME NEW B \in Nat, NEW t \in Int, 0 < B * t, B * t < B
  PROVE  FALSE
<1>1. CASE t >= 1
  <2>1. t - 1 \in Nat
    BY <1>1
  <2>2. B * (t - 1) >= 0
    BY <2>1
  <2> QED BY <2>2
<1>2. CASE t <= 0
  <2>1. -t \in Nat
    BY <1>2
  <2>2. B * (-t) >= 0
    BY <2>1
  <2> QED BY <2>2
<1> QED BY <1>1, <1>2

\* Division with remainder.
LEMMA DivMod ==
  ASSUME NEW B \in Int, B > 0, NEW z \in Int
  PROVE  z = B * (z \div B) + (z % B) /\ z \div B \in Int
<1>1. z = B * (z \div B) + (z % B)
  OBVIOUS
<1>2. z \div B \in Int
  OBVIOUS
<1> QED BY <1>1, <1>2

\* The remainder of a number at most one range away.
LEMMA ModRange ==
  ASSUME NEW U \in Int, U > 0, NEW z \in Int
  PROVE  /\ z % U \in 0 .. U - 1
         /\ 0 <= z /\ z < U => z % U = z
         /\ U <= z /\ z < 2 * U => z % U = z - U
         /\ -U <= z /\ z < 0 => z % U = z + U
<1> DEFINE t == z \div U
           m == z % U
<1>1. z = U * t + m /\ t \in Int
  BY DivMod
<1>2. m \in 0 .. U - 1
  OBVIOUS
<1> HIDE DEF t, m
<1>3. ASSUME NEW k \in Int, U * k < U, -U < U * k PROVE U * k = 0
  <2>1. ~(0 < U * k)
    BY <1>3, NoMultipleBetween
  <2>2. ~(0 < U * (-k))
    <3>1. U * (-k) = -(U * k) /\ -k \in Int
      OBVIOUS
    <3> QED BY <1>3, <3>1, NoMultipleBetween
  <2>3. U * k \in Int /\ U * (-k) = -(U * k)
    OBVIOUS
  <2> QED BY <2>1, <2>2, <2>3
<1>4. ASSUME 0 <= z, z < U PROVE m = z
  <2>1. U * t = z - m
    BY <1>1, <1>2
  <2>2. U * t < U /\ -U < U * t
    BY <1>2, <1>4, <2>1
  <2> QED BY <1>1, <1>2, <1>3, <2>1, <2>2
<1>5. ASSUME U <= z, z < 2 * U PROVE m = z - U
  <2>1. U * (t - 1) = z - m - U /\ t - 1 \in Int
    BY <1>1, <1>2
  <2>2. U * (t - 1) < U /\ -U < U * (t - 1)
    BY <1>2, <1>5, <2>1
  <2>3. U * (t - 1) = 0
    BY <1>3, <2>1, <2>2
  <2> QED BY <1>2, <2>1, <2>3
<1>6. ASSUME -U <= z, z < 0 PROVE m = z + U
  <2>1. U * (t + 1) = z - m + U /\ t + 1 \in Int
    BY <1>1, <1>2
  <2>2. U * (t + 1) < U /\ -U < U * (t + 1)
    BY <1>2, <1>6, <2>1
  <2>3. U * (t + 1) = 0
    BY <1>3, <2>1, <2>2
  <2> QED BY <1>2, <2>1, <2>3
<1> QED BY <1>2, <1>4, <1>5, <1>6 DEF m

\* Two numbers less than B apart have different remainders modulo B, also
\* when one of them has wrapped at a multiple U of B.
LEMMA PlacesDiffer ==
  ASSUME NEW B \in Int, B > 0, NEW U \in Int, U % B = 0,
         NEW x \in Int, NEW y \in Int, NEW d \in Int, 0 < d, d < B,
         y - x = d \/ y - x = d - U
  PROVE  x % B # y % B
<1>1. SUFFICES ASSUME x % B = y % B PROVE FALSE
  OBVIOUS
<1> DEFINE s == (y \div B) - (x \div B)
           t == (y \div B) - (x \div B) + (U \div B)
<1>2. \A z \in Int : z = B * (z \div B) + (z % B) /\ z \div B \in Int /\ z % B \in Int
  BY DivMod
<1>3. y - x = B * s /\ s \in Int
  BY <1>1, <1>2
<1>4. y - x + U = B * t /\ t \in Int
  <2>1. U = B * (U \div B)
    BY <1>2
  <2>2. B * t = B * s + B * (U \div B)
    BY <1>2
  <2> QED BY <1>2, <1>3, <2>1, <2>2
<1> HIDE DEF s, t
<1>5. d = B * s \/ d = B * t
  BY <1>3, <1>4
<1> QED BY <1>3, <1>4, <1>5, NoMultipleBetween

\* The smaller of two numbers.
LEMMA MinOfTwo ==
  ASSUME NEW a \in Nat, NEW b \in Nat
  PROVE  /\ Min({a, b}) \in Nat /\ Min({a, b}) <= a /\ Min({a, b}) <= b
         /\ Min({a, b}) = a \/ Min({a, b}) = b
<1>1. {a, b} \in SUBSET (0 .. a + b) /\ a + b \in Nat
  OBVIOUS
<1>2. Min({a, b}) \in {a, b} /\ \A y \in {a, b} : Min({a, b}) <= y
  BY <1>1, MinIsLeast
<1> QED BY <1>2

\* Induction up to a bound, on the set of numbers that have a property.
LEMMA CountUp ==
  ASSUME NEW N \in Nat, NEW T \in SUBSET (0 .. N), 0 \in T, \A i \in T : i < N => i + 1 \in T
  PROVE  T = 0 .. N
<1> DEFINE F == (0 .. N) \ T
<1> SUFFICES ASSUME F # {} PROVE FALSE
  OBVIOUS
<1>1. F \in SUBSET (0 .. N)
  OBVIOUS
<1> DEFINE m == Min(F)
<1>2. m \in F /\ \A y \in F : m <= y
  <2> HIDE DEF F
  <2> QED BY <1>1, MinIsLeast
<1> HIDE DEF m
<1>3. m \in 1 .. N
  BY <1>2
<1>4. m - 1 \in 0 .. N /\ m - 1 \notin F
  BY <1>2, <1>3
<1>5. m - 1 \in T /\ m - 1 < N /\ (m - 1) + 1 = m
  BY <1>3, <1>4
<1>6. m \in T
  BY <1>5
<1> QED BY <1>2, <1>6
=============================================================================
