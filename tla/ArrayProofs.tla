------------------------------- MODULE ArrayProofs -------------------------------
(***************************************************************************)
(* Proofs about arrays, for any word, element types, kinds of arrays and   *)
(* arrays, plain and packed: the walks agree, what is written is read, and *)
(* packing costs a bit at most.                                            *)
(***************************************************************************)
EXTENDS ArrayView, WellFoundedInduction, TLAPS

-------------------------------------------------------------------------------
(* Induction, made with sets of natural numbers.                           *)

\* The order of the natural numbers is well-founded.
LEMMA LessIsWellFounded ==
  \E R : IsWellFoundedOn(R, Nat) /\ \A i, j \in Nat : i < j => <<i, j>> \in R
<1> DEFINE R == OpToRel(<, Nat)
<1>1. IsWellFoundedOn(R, Nat)
  BY NatLessThanWellFounded
<1>2. \A i, j \in Nat : i < j => <<i, j>> \in R
  BY DEF OpToRel
<1> HIDE DEF R
<1> QED
  BY <1>1, <1>2

\* A set of natural numbers that has 0, and with a number the next one, has all of them.
LEMMA SetInduction ==
  ASSUME NEW S, S \subseteq Nat, 0 \in S, \A n \in S : n + 1 \in S
  PROVE  S = Nat
<1> DEFINE T == Nat \ S
<1> SUFFICES ASSUME T # {} PROVE FALSE
  OBVIOUS
<1>1. PICK R : IsWellFoundedOn(R, Nat) /\ \A i, j \in Nat : i < j => <<i, j>> \in R
  BY LessIsWellFounded
<1>2. \E x \in T : \A y \in T : ~(<<y, x>> \in R)
  <2>1. IsWellFoundedOn(R, Nat) /\ T \subseteq Nat /\ T # {}
    BY <1>1, Zenon
  <2> QED
    BY ONLY <2>1, WFMin, Zenon
<1>3. PICK x \in T : \A y \in T : ~(<<y, x>> \in R)
  BY <1>2
<1>4. x \in Nat /\ x # 0 /\ x - 1 \in Nat /\ x - 1 < x
  OBVIOUS
<1>5. x - 1 \notin T
  BY <1>1, <1>3, <1>4
<1>6. x - 1 \in S
  BY <1>4, <1>5
<1>7. (x - 1) + 1 \in S
  BY <1>6
<1> QED
  BY <1>4, <1>7

-------------------------------------------------------------------------------
(* Recursive functions.                                                    *)

\* f is a up to n what step makes of it, one number after the other.
Recursive(f, S, a, step, n) ==
  f \in [0..n -> S] /\ f[0] = a /\ \A k \in 1..n : f[k] = step[k][f[k - 1]]

LEMMA RecursionExists ==
  ASSUME NEW S, NEW a \in S, NEW step \in [Nat -> [S -> S]]
  PROVE  \A n \in Nat : \E f : Recursive(f, S, a, step, n)
<1> DEFINE T == {n \in Nat : \E f : Recursive(f, S, a, step, n)}
<1>1. 0 \in T
  <2>1. Recursive([k \in 0..0 |-> a], S, a, step, 0)
    BY DEF Recursive
  <2> QED
    BY <2>1
<1>2. ASSUME NEW n \in T PROVE n + 1 \in T
  <2>1. PICK f : Recursive(f, S, a, step, n)
    OBVIOUS
  <2> DEFINE g == [k \in 0..(n + 1) |-> IF k =< n THEN f[k] ELSE step[k][f[n]]]
  <2>2. n \in Nat /\ f \in [0..n -> S] /\ f[0] = a /\ \A k \in 1..n : f[k] = step[k][f[k - 1]]
    BY <2>1 DEF Recursive
  <2>3. n \in 0..n /\ step[n + 1] \in [S -> S] /\ step[n + 1][f[n]] \in S
    BY <2>2
  <2>4. g \in [0..(n + 1) -> S]
    BY <2>2, <2>3
  <2>5. g[0] = a
    BY <2>2
  <2>6. ASSUME NEW k \in 1..(n + 1) PROVE g[k] = step[k][g[k - 1]]
    <3>1. CASE k = n + 1
      BY <2>2, <3>1
    <3>2. CASE k # n + 1
      <4>1. k \in 1..n /\ k - 1 \in 0..n /\ k \in 0..(n + 1) /\ k - 1 \in 0..(n + 1)
        BY <2>2, <3>2
      <4>2. g[k] = f[k] /\ g[k - 1] = f[k - 1]
        BY <4>1
      <4> QED
        BY <2>2, <4>1, <4>2
    <3> QED
      BY <3>1, <3>2
  <2> HIDE DEF g
  <2>7. Recursive(g, S, a, step, n + 1)
    BY <2>4, <2>5, <2>6 DEF Recursive
  <2> QED
    BY <2>2, <2>7
<1> HIDE DEF T
<1>3. T = Nat
  <2>1. T \subseteq Nat
    BY DEF T
  <2> QED
    BY <2>1, <1>1, <1>2, SetInduction
<1> QED
  BY <1>3 DEF T

LEMMA RecursionAgrees ==
  ASSUME NEW S, NEW a \in S, NEW step,
         NEW m \in Nat, NEW f, Recursive(f, S, a, step, m),
         NEW n \in Nat, NEW g, Recursive(g, S, a, step, n)
  PROVE  \A k \in Nat : k =< m /\ k =< n => f[k] = g[k]
<1> DEFINE T == {k \in Nat : k =< m /\ k =< n => f[k] = g[k]}
<1>1. 0 \in T
  BY DEF Recursive
<1>2. ASSUME NEW k \in T PROVE k + 1 \in T
  <2> SUFFICES ASSUME k + 1 =< m, k + 1 =< n PROVE f[k + 1] = g[k + 1]
    OBVIOUS
  <2>1. k + 1 \in 1..m /\ k + 1 \in 1..n /\ (k + 1) - 1 = k /\ k =< m /\ k =< n
    OBVIOUS
  <2>2. f[k] = g[k]
    BY <2>1
  <2>3. f[k + 1] = step[k + 1][f[(k + 1) - 1]] /\ g[k + 1] = step[k + 1][g[(k + 1) - 1]]
    BY <2>1 DEF Recursive
  <2> QED
    BY <2>1, <2>2, <2>3
<1> HIDE DEF T
<1>3. T = Nat
  <2>1. T \subseteq Nat
    BY DEF T
  <2> QED
    BY <2>1, <1>1, <1>2, SetInduction
<1> QED
  BY <1>3 DEF T

\* A function of the natural numbers that is made of a by step.
Iterates(f, S, a, step) ==
  f \in [Nat -> S] /\ f[0] = a /\ \A k \in Nat : f[k + 1] = step[k + 1][f[k]]

LEMMA NatRecursion ==
  ASSUME NEW S, NEW a \in S, NEW step \in [Nat -> [S -> S]]
  PROVE  \E f : Iterates(f, S, a, step)
<1> DEFINE of(n) == CHOOSE f : Recursive(f, S, a, step, n)
           p == [n \in Nat |-> of(n)[n]]
<1>1. \A n \in Nat : Recursive(of(n), S, a, step, n)
  BY RecursionExists
<1> HIDE DEF of
<1>2. \A n \in Nat : of(n)[n] \in S
  BY <1>1 DEF Recursive
<1>3. of(0)[0] = a
  BY <1>1 DEF Recursive
<1>4. ASSUME NEW n \in Nat PROVE of(n + 1)[n + 1] = step[n + 1][of(n)[n]]
  <2>1. Recursive(of(n + 1), S, a, step, n + 1) /\ Recursive(of(n), S, a, step, n) /\ n + 1 \in Nat
    BY <1>1
  <2>2. of(n + 1)[n] = of(n)[n]
    <3>1. n =< n + 1 /\ n =< n
      OBVIOUS
    <3> QED
      BY <2>1, <3>1, RecursionAgrees
  <2>3. of(n + 1)[n + 1] = step[n + 1][of(n + 1)[(n + 1) - 1]]
    BY <2>1 DEF Recursive
  <2>4. (n + 1) - 1 = n
    OBVIOUS
  <2> QED
    BY <2>2, <2>3, <2>4
<1>5. p \in [Nat -> S] /\ p[0] = a
  BY <1>2, <1>3
<1>6. \A n \in Nat : p[n + 1] = step[n + 1][p[n]]
  BY <1>4
<1> HIDE DEF p
<1>7. Iterates(p, S, a, step)
  BY <1>5, <1>6 DEF Iterates
<1> QED
  BY <1>7

\* The same up to a number, for a step that is only known up to it.
LEMMA FiniteRecursion ==
  ASSUME NEW N \in Nat, NEW S, NEW a \in S, NEW step \in [1..N -> [S -> S]]
  PROVE  \E f : Recursive(f, S, a, step, N)
<1> DEFINE on == [k \in Nat |-> IF k \in 1..N THEN step[k] ELSE [x \in S |-> x]]
<1>1. on \in [Nat -> [S -> S]]
  OBVIOUS
<1>2. \A k \in 1..N : on[k] = step[k]
  OBVIOUS
<1> HIDE DEF on
<1>3. PICK f : Recursive(f, S, a, on, N)
  BY <1>1, RecursionExists
<1>4. Recursive(f, S, a, step, N)
  BY <1>2, <1>3 DEF Recursive
<1> QED
  BY <1>4

-------------------------------------------------------------------------------
(* Powers of two.                                                          *)

LEMMA Pow2Is ==
  /\ Pow2 \in [Nat -> Nat \ {0}]
  /\ Pow2[0] = 1
  /\ \A n \in Nat : Pow2[n + 1] = 2 * Pow2[n]
<1> DEFINE Positive == Nat \ {0}
           double == [k \in Nat |-> [x \in Positive |-> 2 * x]]
<1>1. double \in [Nat -> [Positive -> Positive]] /\ 1 \in Positive
  OBVIOUS
<1>2. \A k \in Nat, x \in Positive : double[k + 1][x] = 2 * x
  OBVIOUS
<1>3. \A f \in [Nat -> Positive] : \A k \in Nat : f[k] \in Positive /\ f[k] \in Nat
  OBVIOUS
<1> HIDE DEF Positive, double
<1>p. PICK p : Iterates(p, Positive, 1, double)
  <2>1. 1 \in Positive
    BY <1>1
  <2>2. double \in [Nat -> [Positive -> Positive]]
    BY <1>1
  <2> QED
    BY <2>1, <2>2, NatRecursion
<1>4. p \in [Nat -> Positive] /\ p[0] = 1 /\ \A k \in Nat : p[k + 1] = double[k + 1][p[k]]
  BY <1>p DEF Iterates
<1>5. \A k \in Nat : p[k + 1] = 2 * p[k]
  BY <1>2, <1>3, <1>4
<1>6. p = [n \in Nat |-> IF n = 0 THEN 1 ELSE 2 * p[n - 1]]
  <2>1. ASSUME NEW n \in Nat, n # 0 PROVE p[n] = 2 * p[n - 1]
    <3>1. n - 1 \in Nat /\ (n - 1) + 1 = n
      BY <2>1
    <3> QED
      BY <1>5, <3>1
  <2> QED
    BY <1>4, <2>1
<1>7. Pow2 = [n \in Nat |-> IF n = 0 THEN 1 ELSE 2 * Pow2[n - 1]]
  BY <1>6 DEF Pow2
<1>8. Pow2[0] = 1 /\ \A n \in Nat : Pow2[n + 1] = 2 * Pow2[n]
  <2>1. \A n \in Nat : n + 1 \in Nat /\ n + 1 # 0 /\ (n + 1) - 1 = n
    OBVIOUS
  <2> QED
    BY <1>7, <2>1
<1> DEFINE T == {n \in Nat : Pow2[n] \in Nat \ {0}}
<1>9. 0 \in T
  BY <1>8
<1>10. \A n \in T : n + 1 \in T
  <2>1. ASSUME NEW n \in T PROVE n + 1 \in T
    BY <1>8
  <2> QED
    BY <2>1
<1> HIDE DEF T
<1>11. T = Nat
  <2>1. T \subseteq Nat
    BY DEF T
  <2> QED
    BY <2>1, <1>9, <1>10, SetInduction
<1>12. Pow2 \in [Nat -> Nat \ {0}]
  BY <1>7, <1>11 DEF T
<1> QED
  BY <1>8, <1>12
-------------------------------------------------------------------------------
(* Remainders.                                                             *)

LEMMA Product ==
  /\ \A x, y \in Nat : x * y \in Nat /\ 2 * (x * y) = x * (2 * y)
  /\ \A x \in Int, y \in Int : x * y \in Int
  OBVIOUS

\* A sum of powers.
LEMMA Pow2Sum ==
  \A m, k \in Nat : Pow2[m + k] = Pow2[m] * Pow2[k]
<1> SUFFICES ASSUME NEW m \in Nat PROVE \A k \in Nat : Pow2[m + k] = Pow2[m] * Pow2[k]
  OBVIOUS
<1> DEFINE T == {k \in Nat : Pow2[m + k] = Pow2[m] * Pow2[k]}
<1>1. 0 \in T
  <2>1. Pow2[m] \in Nat /\ Pow2[0] = 1 /\ m + 0 = m
    BY Pow2Is
  <2> QED
    BY <2>1
<1>2. \A k \in T : k + 1 \in T
  <2>1. ASSUME NEW k \in T PROVE k + 1 \in T
    <3>1. Pow2[m] \in Nat /\ Pow2[k] \in Nat /\ Pow2[k + 1] = 2 * Pow2[k] /\ Pow2[m + (k + 1)] = 2 * Pow2[m + k]
      <4>1. m + k \in Nat /\ m + (k + 1) = (m + k) + 1
        OBVIOUS
      <4> QED
        BY <4>1, Pow2Is
    <3>2. Pow2[m + k] = Pow2[m] * Pow2[k]
      OBVIOUS
    <3> QED
      BY <3>1, <3>2, Product
  <2> QED
    BY <2>1
<1> QED
  BY <1>1, <1>2, SetInduction

LEMMA Pow2Grows ==
  \A m, n \in Nat : m =< n => Pow2[m] =< Pow2[n]
<1> SUFFICES ASSUME NEW m \in Nat, NEW n \in Nat, m =< n PROVE Pow2[m] =< Pow2[n]
  OBVIOUS
<1>1. n - m \in Nat /\ m + (n - m) = n
  OBVIOUS
<1>2. Pow2[n] = Pow2[m] * Pow2[n - m]
  BY <1>1, Pow2Sum
<1>3. Pow2[m] \in Nat /\ Pow2[n - m] \in Nat \ {0}
  BY <1>1, Pow2Is
<1>4. \A x \in Nat, y \in Nat \ {0} : x =< x * y
  OBVIOUS
<1> QED
  BY <1>2, <1>3, <1>4

\* A number and its remainder.
LEMMA Remainder ==
  ASSUME NEW m \in Nat \ {0}, NEW a \in Int
  PROVE  a % m \in 0..(m - 1) /\ \E q \in Int : a = m * q + (a % m)
<1>1. a \div m \in Int /\ a = m * (a \div m) + (a % m)
  OBVIOUS
<1>2. a % m \in 0..(m - 1)
  OBVIOUS
<1> QED
  BY <1>1, <1>2

LEMMA RemainderIs ==
  ASSUME NEW m \in Nat \ {0}, NEW k \in Int, NEW r \in 0..(m - 1), NEW a \in Int, a = k * m + r
  PROVE  a % m = r
<1>1. PICK q \in Int : a = m * q + (a % m)
  BY Remainder
<1>2. a % m \in 0..(m - 1)
  BY Remainder
<1> DEFINE s == a % m
           d == k - q
<1> HIDE DEF s
<1>3. m * d = s - r /\ d \in Int
  <2>1. k * m + r = m * q + s
    BY <1>1 DEF s
  <2>2. m * d = k * m - m * q
    OBVIOUS
  <2> QED
    BY <2>1, <2>2, <1>2 DEF s
<1>4. s \in 0..(m - 1)
  BY <1>2 DEF s
<1> HIDE DEF d
<1>5. d = 0
  <2>1. CASE d >= 1
    <3>1. m * d >= m
      BY <2>1, <1>3
    <3> QED
      BY <3>1, <1>3, <1>4
  <2>2. CASE d =< -1
    <3>1. m * d =< -m
      BY <2>2, <1>3
    <3> QED
      BY <3>1, <1>3, <1>4
  <2> QED
    BY <2>1, <2>2, <1>3
<1> QED
  BY <1>3, <1>4, <1>5 DEF s

\* The same of a number that is r and a multiple of m.
Leaves(a, m, r) == \E k \in Int : a = k * m + r

LEMMA LeavesIt ==
  ASSUME NEW m \in Nat \ {0}, NEW a \in Int, NEW r \in 0..(m - 1), Leaves(a, m, r)
  PROVE  a % m = r
<1>1. PICK k \in Int : a = k * m + r
  BY DEF Leaves
<1> QED
  BY ONLY <1>1, RemainderIs, Zenon

\* Numbers that differ by a multiple have the same remainder.
LEMMA SameRemainder ==
  ASSUME NEW m \in Nat \ {0}, NEW k \in Int, NEW a \in Int, NEW b \in Int, a = b + k * m
  PROVE  a % m = b % m
<1> DEFINE r == b % m
<1>1. r \in 0..(m - 1) /\ \E q \in Int : b = m * q + r
  BY Remainder
<1> HIDE DEF r
<1>2. PICK q \in Int : b = m * q + r
  BY <1>1
<1>3. q + k \in Int /\ a = (q + k) * m + r
  BY <1>1, <1>2
<1>4. a % m = r
  BY <1>1, <1>3, RemainderIs
<1> QED
  BY <1>4 DEF r
-------------------------------------------------------------------------------
(* Words and values.                                                       *)

LEMMA WordSize ==
  ASSUME WidthAssumption
  PROVE  WordBits \in Nat /\ WordBits >= 1 /\ Pow2[WordBits] \in Nat \ {0}
  BY Pow2Is DEF WidthAssumption

\* A half and a whole.
LEMMA Pow2Half ==
  \A n \in Nat \ {0} : /\ n - 1 \in Nat /\ Pow2[n - 1] \in Nat \ {0} /\ Pow2[n] \in Nat \ {0}
                       /\ Pow2[n] = 2 * Pow2[n - 1]
<1> TAKE n \in Nat \ {0}
<1>1. n - 1 \in Nat /\ (n - 1) + 1 = n
  OBVIOUS
<1> QED
  BY <1>1, Pow2Is

\* The type of an element is as wide as the word or narrower.
LEMMA TypeIs ==
  ASSUME WidthAssumption, NEW t \in ElementTypes
  PROVE  /\ t.bits \in Nat \ {0} /\ t.bits =< WordBits /\ t.signed \in BOOLEAN
         /\ Pow2[t.bits] =< Pow2[WordBits]
         /\ \E j \in Nat : Pow2[WordBits] = j * Pow2[t.bits]
<1>1. t.bits \in 1..WordBits /\ t.signed \in BOOLEAN /\ WordBits \in Nat
  BY DEF WidthAssumption
<1>2. t.bits \in Nat /\ WordBits - t.bits \in Nat /\ t.bits + (WordBits - t.bits) = WordBits
  BY <1>1
<1>3. Pow2[WordBits] = Pow2[t.bits] * Pow2[WordBits - t.bits]
  BY <1>2, Pow2Sum
<1>4. Pow2[t.bits] \in Nat /\ Pow2[WordBits - t.bits] \in Nat
  BY <1>2, Pow2Is
<1>5. \A x, y \in Nat : x * y = y * x
  OBVIOUS
<1>6. Pow2[t.bits] =< Pow2[WordBits]
  BY <1>1, <1>2, Pow2Grows
<1> QED
  BY <1>1, <1>3, <1>4, <1>5, <1>6

\* A cast to a word adds a multiple of the words.
LEMMA ToWordIs ==
  ASSUME WidthAssumption, NEW a \in Int
  PROVE  /\ ToWord(a) \in 0..(Pow2[WordBits] - 1)
         /\ \E k \in Int : ToWord(a) = a + k * Pow2[WordBits]
<1> DEFINE m == Pow2[WordBits]
           r == a % m
<1>1. m \in Nat \ {0}
  BY WordSize
<1>2. r \in 0..(m - 1) /\ \E q \in Int : a = m * q + r
  BY <1>1, Remainder
<1> HIDE DEF m, r
<1>3. PICK q \in Int : a = m * q + r
  BY <1>2
<1>4. -q \in Int /\ r = a + (-q) * m
  BY <1>1, <1>2, <1>3
<1>5. \E k \in Int : r = a + k * m
  BY <1>4
<1> QED
  BY <1>2, <1>5 DEF ToWord, m, r

LEMMA ToWordSame ==
  ASSUME WidthAssumption, NEW a \in Int, NEW b \in Int, NEW k \in Int, a = b + k * Pow2[WordBits]
  PROVE  ToWord(a) = ToWord(b)
<1>1. Pow2[WordBits] \in Nat \ {0}
  BY WordSize
<1> QED
  BY <1>1, SameRemainder DEF ToWord

LEMMA ToWordSmall ==
  ASSUME WidthAssumption, NEW a \in 0..(Pow2[WordBits] - 1)
  PROVE  ToWord(a) = a
<1>1. Pow2[WordBits] \in Nat \ {0}
  BY WordSize
<1>2. a \in Int /\ a = 0 * Pow2[WordBits] + a
  BY <1>1
<1> QED
  BY <1>1, <1>2, RemainderIs DEF ToWord

\* The bits of a number of n bits with a sign, whatever is above them, are read as the number.
LEMMA SignExtendIs ==
  ASSUME NEW n \in Nat \ {0}, NEW d \in Int, FitsSigned(d, n), NEW w \in Int, NEW k \in Int,
         w = d + k * Pow2[n]
  PROVE  SignExtend(w, n) = d
<1> DEFINE p == Pow2[n]
           h == Pow2[n - 1]
<1>1. p \in Nat \ {0} /\ h \in Nat \ {0} /\ p = 2 * h
  BY Pow2Half
<1>2. d \in -h..(h - 1) /\ w = d + k * p
  BY DEF FitsSigned
<1>3. SignExtend(w, n) = IF w % p >= h THEN (w % p) - p ELSE w % p
  BY DEF SignExtend
<1> HIDE DEF p, h
<1>6. p \in Nat \ {0}
  BY <1>1
<1>7. w \in Int
  OBVIOUS
<1>8. ASSUME NEW j \in Int, NEW e \in 0..(p - 1), w = j * p + e PROVE w % p = e
  <2>1. Leaves(w, p, e)
    BY <1>8 DEF Leaves
  <2> QED
    BY <1>6, <1>7, <1>8, <2>1, LeavesIt
<1>4. CASE d >= 0
  <2>1. d \in 0..(p - 1) /\ w = k * p + d
    BY <1>1, <1>2, <1>4
  <2>2. w % p = d
    BY <1>8, <2>1
  <2> QED
    BY <1>1, <1>2, <1>3, <2>2
<1>5. CASE d < 0
  <2> DEFINE j == k - 1
             e == d + p
  <2>1. j \in Int
    OBVIOUS
  <2>5. e \in 0..(p - 1)
    BY <1>1, <1>2, <1>5
  <2>2. w = j * p + e
    BY <1>1, <1>2
  <2> HIDE DEF j, e
  <2>3. w % p = e
    BY <1>8, <2>1, <2>2, <2>5
  <2>4. d + p >= h
    BY <1>1, <1>2
  <2> QED
    BY <1>1, <1>2, <1>3, <2>3, <2>4 DEF e
<1> QED
  BY <1>2, <1>4, <1>5

\* The same of the bits that a writer has put into the stream.
LEMMA BitsOfSigned ==
  ASSUME NEW n \in Nat \ {0}, NEW d \in Int, FitsSigned(d, n)
  PROVE  d % Pow2[n] \in Nat /\ SignExtend(d % Pow2[n], n) = d
<1> DEFINE p == Pow2[n]
           r == d % p
<1>1. p \in Nat \ {0}
  BY Pow2Half
<1>2. r \in 0..(p - 1) /\ \E q \in Int : d = p * q + r
  BY <1>1, Remainder
<1> HIDE DEF r
<1>3. PICK q \in Int : d = p * q + r
  BY <1>2
<1>4. -q \in Int /\ r \in Int /\ r = d + (-q) * p
  BY <1>1, <1>2, <1>3
<1>5. SignExtend(r, n) = d
  BY <1>4, SignExtendIs
<1> QED
  BY <1>1, <1>2, <1>5 DEF r
\* A value is a number whose distance from any other is below the words; and 0 is one.
LEMMA ValuesAre ==
  ASSUME WidthAssumption, NEW t \in ElementTypes
  PROVE  /\ Values(t) \subseteq Int /\ 0 \in Values(t)
         /\ \A v, u \in Values(t) : v - u < Pow2[WordBits]
<1>1. /\ Pow2[t.bits - 1] \in Nat \ {0} /\ Pow2[t.bits] \in Nat \ {0} /\ Pow2[t.bits] = 2 * Pow2[t.bits - 1]
      /\ Pow2[t.bits] =< Pow2[WordBits] /\ Pow2[WordBits] \in Nat
  BY TypeIs, Pow2Half, WordSize
<1> QED
  BY <1>1 DEF Values

\* A value comes back from its word.
LEMMA ValueOfWord ==
  ASSUME WidthAssumption, NEW t \in ElementTypes, NEW v \in Values(t), NEW w \in Int, NEW k \in Int,
         w = v + k * Pow2[WordBits]
  PROVE  ToValue(t, w) = v
<1> DEFINE p == Pow2[t.bits]
           m == Pow2[WordBits]
<1>1. t.bits \in Nat \ {0} /\ p \in Nat \ {0} /\ m \in Nat \ {0} /\ v \in Int
  BY TypeIs, Pow2Half, WordSize, ValuesAre
<1>2. PICK j \in Nat : m = j * p
  BY TypeIs
<1>3. k * j \in Int /\ w = v + (k * j) * p
  <2>1. w = v + k * m
    OBVIOUS
  <2> HIDE DEF p, m
  <2>2. k * m = (k * j) * p
    BY <1>1, <1>2
  <2> QED
    BY <2>1, <2>2
<1>4. CASE t.signed
  <2>1. FitsSigned(v, t.bits)
    BY <1>4 DEF Values, FitsSigned
  <2> DEFINE i == k * j
  <2>2. i \in Int /\ w = v + i * p
    BY <1>3
  <2> HIDE DEF i
  <2>3. SignExtend(w, t.bits) = v
    BY <1>1, <2>1, <2>2, SignExtendIs
  <2> QED
    BY <1>4, <2>3 DEF ToValue
<1>5. CASE ~t.signed
  <2>1. v \in 0..(p - 1)
    BY <1>5 DEF Values
  <2> DEFINE i == k * j
  <2>2. i \in Int /\ w = i * p + v
    BY <1>1, <1>3
  <2>3. ToValue(t, w) = w % p
    BY <1>5 DEF ToValue
  <2> HIDE DEF i, p
  <2>4. p \in Nat \ {0}
    BY <1>1
  <2>5. w % p = v
    BY ONLY w \in Int, <2>1, <2>2, <2>4, RemainderIs, Zenon
  <2> QED
    BY <2>3, <2>5
<1> QED
  BY <1>4, <1>5

LEMMA ValueOfToWord ==
  ASSUME WidthAssumption, NEW t \in ElementTypes, NEW v \in Values(t)
  PROVE  ToValue(t, ToWord(v)) = v /\ ToWord(v) \in 0..(Pow2[WordBits] - 1)
<1>1. v \in Int
  BY ValuesAre
<1>2. PICK k \in Int : ToWord(v) = v + k * Pow2[WordBits]
  BY <1>1, ToWordIs
<1>3. ToWord(v) \in 0..(Pow2[WordBits] - 1) /\ ToWord(v) \in Int
  BY <1>1, ToWordIs
<1> QED
  BY <1>2, <1>3, ValueOfWord

\* The words of two values differ as the values do.
LEMMA WordsDiffer ==
  ASSUME WidthAssumption, NEW v \in Int, NEW u \in Int
  PROVE  ToWord(ToWord(v) - ToWord(u)) = ToWord(v - u)
<1> DEFINE m == Pow2[WordBits]
<1>1. m \in Nat \ {0}
  BY WordSize
<1>2. PICK k \in Int : ToWord(v) = v + k * m
  BY ToWordIs
<1>3. PICK j \in Int : ToWord(u) = u + j * m
  BY ToWordIs
<1>4. k - j \in Int /\ v - u \in Int /\ ToWord(v) - ToWord(u) = (v - u) + (k - j) * m
  BY <1>1, <1>2, <1>3
<1>5. ToWord(v) - ToWord(u) \in Int
  BY <1>1, <1>2, <1>3
<1> QED
  BY <1>4, <1>5, ToWordSame

\* The word of a sum is that of the sum of the words.
LEMMA WordsAdd ==
  ASSUME WidthAssumption, NEW v \in Int, NEW u \in Int
  PROVE  ToWord(ToWord(v) + ToWord(u)) = ToWord(v + u)
<1> DEFINE m == Pow2[WordBits]
<1>1. m \in Nat \ {0}
  BY WordSize
<1>2. PICK k \in Int : ToWord(v) = v + k * m
  BY ToWordIs
<1>3. PICK j \in Int : ToWord(u) = u + j * m
  BY ToWordIs
<1>4. k + j \in Int /\ v + u \in Int /\ ToWord(v) + ToWord(u) = (v + u) + (k + j) * m
  BY <1>1, <1>2, <1>3
<1>5. ToWord(v) + ToWord(u) \in Int
  BY <1>1, <1>2, <1>3
<1> QED
  BY <1>4, <1>5, ToWordSame
-------------------------------------------------------------------------------
(* Differences.                                                            *)

LEMMA LeastNatural ==
  ASSUME NEW T, T \subseteq Nat, T # {}
  PROVE  \E n \in T : \A m \in T : ~(m < n)
<1>1. PICK R : IsWellFoundedOn(R, Nat) /\ \A i, j \in Nat : i < j => <<i, j>> \in R
  BY LessIsWellFounded
<1>2. \E x \in T : \A y \in T : ~(<<y, x>> \in R)
  <2>1. IsWellFoundedOn(R, Nat) /\ T \subseteq Nat /\ T # {}
    BY <1>1, Zenon
  <2> QED
    BY ONLY <2>1, WFMin, Zenon
<1> QED
  BY <1>1, <1>2

\* A word is below the power of its bit length.
LEMMA BitLengthIs ==
  ASSUME WidthAssumption, NEW d \in 0..(Pow2[WordBits] - 1)
  PROVE  AbsDeltaBitLength(d) \in 0..WordBits /\ d < Pow2[AbsDeltaBitLength(d)]
<1> DEFINE T == {n \in Nat : d < Pow2[n]}
           is(n) == d < Pow2[n] /\ \A k \in 0..(n - 1) : d >= Pow2[k]
<1>1. WordBits \in T
  BY WordSize
<1>2. PICK n \in T : \A m \in T : ~(m < n)
  BY <1>1, LeastNatural
<1>3. n \in 0..WordBits
  BY <1>1, <1>2
<1>4. is(n)
  <2>1. ASSUME NEW k \in 0..(n - 1) PROVE d >= Pow2[k]
    <3>1. k \in Nat /\ k < n /\ Pow2[k] \in Nat /\ d \in Int
      BY <1>3, Pow2Is, WordSize
    <3>2. k \notin T
      BY <1>2, <3>1
    <3> QED
      BY <3>1, <3>2
  <2> QED
    BY <2>1
<1>5. AbsDeltaBitLength(d) = CHOOSE i \in 0..WordBits : is(i)
  BY DEF AbsDeltaBitLength
<1> HIDE DEF is
<1>6. (CHOOSE i \in 0..WordBits : is(i)) \in 0..WordBits /\ is(CHOOSE i \in 0..WordBits : is(i))
  BY <1>3, <1>4
<1> QED
  BY <1>5, <1>6 DEF is

\* The distance of two values is below 2^m.
Near(v, u, m) == v - u < Pow2[m] /\ u - v < Pow2[m]

\* calcBitLength takes enough bits for the distance.
LEMMA CalcBitLengthIs ==
  ASSUME WidthAssumption, NEW t \in ElementTypes, NEW v \in Values(t), NEW u \in Values(t)
  PROVE  CalcBitLength(v, u) \in 0..WordBits /\ Near(v, u, CalcBitLength(v, u))
<1>1. v \in Int /\ u \in Int /\ v - u < Pow2[WordBits] /\ u - v < Pow2[WordBits]
  BY ValuesAre
<1>2. Pow2[WordBits] \in Nat
  BY WordSize
<1>3. CASE v > u
  <2>1. v - u \in 0..(Pow2[WordBits] - 1)
    BY <1>1, <1>2, <1>3
  <2>2. ToWord(ToWord(v) - ToWord(u)) = v - u
    BY <1>1, <2>1, WordsDiffer, ToWordSmall
  <2>3. CalcBitLength(v, u) = AbsDeltaBitLength(v - u)
    BY <1>3, <2>2 DEF CalcBitLength
  <2>4. CalcBitLength(v, u) \in 0..WordBits /\ v - u < Pow2[CalcBitLength(v, u)]
    BY <2>1, <2>3, BitLengthIs
  <2>5. CalcBitLength(v, u) \in Nat /\ Pow2[CalcBitLength(v, u)] \in Nat
    BY <2>4, Pow2Is, WordSize
  <2> QED
    BY <1>1, <1>3, <2>4, <2>5 DEF Near
<1>4. CASE ~(v > u)
  <2>1. u - v \in 0..(Pow2[WordBits] - 1)
    BY <1>1, <1>2, <1>4
  <2>2. ToWord(ToWord(u) - ToWord(v)) = u - v
    BY <1>1, <2>1, WordsDiffer, ToWordSmall
  <2>3. CalcBitLength(v, u) = AbsDeltaBitLength(u - v)
    BY <1>4, <2>2 DEF CalcBitLength
  <2>4. CalcBitLength(v, u) \in 0..WordBits /\ u - v < Pow2[CalcBitLength(v, u)]
    BY <2>1, <2>3, BitLengthIs
  <2>5. CalcBitLength(v, u) \in Nat /\ Pow2[CalcBitLength(v, u)] \in Nat
    BY <2>4, Pow2Is, WordSize
  <2> QED
    BY <1>1, <1>4, <2>4, <2>5 DEF Near
<1> QED
  BY <1>3, <1>4

\* A distance that is near enough stays near when more bits are taken.
LEMMA NearGrows ==
  ASSUME NEW v \in Int, NEW u \in Int, NEW m \in Nat, NEW n \in Nat, m =< n, Near(v, u, m)
  PROVE  Near(v, u, n)
<1>1. Pow2[m] \in Nat /\ Pow2[n] \in Nat /\ Pow2[m] =< Pow2[n]
  BY Pow2Is, Pow2Grows
<1> QED
  BY <1>1 DEF Near

\* The difference that is computed without a check for overflow is the one of the values, and fits
\* into the bits it is given.
LEMMA DifferenceIs ==
  ASSUME WidthAssumption, NEW v \in Int, NEW u \in Int, NEW m \in Nat, m =< MAX_BIT_NUMBER_LIMIT, Near(v, u, m)
  PROVE  CalcUncheckedDelta(v, ToWord(u)) = v - u /\ FitsSigned(v - u, m + 1)
<1> DEFINE d == v - u
           n == m + 1
<1>1. WordBits \in Nat \ {0} /\ n =< WordBits /\ n \in Nat \ {0} /\ n - 1 = m /\ m =< WordBits - 1
  BY WordSize DEF MAX_BIT_NUMBER_LIMIT
<1>2. Pow2[m] \in Nat /\ Pow2[WordBits - 1] \in Nat /\ Pow2[m] =< Pow2[WordBits - 1]
  <2> DEFINE l == WordBits - 1
  <2>1. l \in Nat /\ m =< l
    BY <1>1
  <2> HIDE DEF l
  <2>2. Pow2[m] \in Nat /\ Pow2[l] \in Nat /\ Pow2[m] =< Pow2[l]
    BY <2>1, Pow2Is, Pow2Grows
  <2> QED
    BY <2>2 DEF l
<1>3. FitsSigned(d, n) /\ FitsSigned(d, WordBits)
  BY <1>1, <1>2 DEF FitsSigned, Near
<1>4. PICK k \in Int : ToWord(d) = d + k * Pow2[WordBits]
  BY ToWordIs
<1>5. ToWord(d) \in Int
  BY ToWordIs, WordSize
<1>6. SignExtend(ToWord(d), WordBits) = d
  BY <1>1, <1>3, <1>4, <1>5, SignExtendIs
<1>7. CalcUncheckedDelta(v, ToWord(u)) = d
  BY <1>6, WordsDiffer DEF CalcUncheckedDelta, ToSigned
<1> QED
  BY <1>3, <1>7
-------------------------------------------------------------------------------
(* The context behind init.                                                *)

Contexts ==
  [previousElement : 0..(Pow2[WordBits] - 1), maxBitNumber : 0..WordBits, firstElementBitSize : 0..255,
   numElements : Nat, unpackedBitSize : Nat, initStarted : BOOLEAN, isPacked : BOOLEAN,
   processingStarted : BOOLEAN]

LEMMA NewContextIs ==
  ASSUME WidthAssumption
  PROVE  NewContext \in Contexts
  BY WordSize DEF NewContext, Contexts

\* A context with one field set.
LEMMA ContextWith ==
  ASSUME NEW c \in Contexts
  PROVE  /\ \A x \in 0..(Pow2[WordBits] - 1) : [c EXCEPT !.previousElement = x] \in Contexts
         /\ \A x \in 0..WordBits : [c EXCEPT !.maxBitNumber = x] \in Contexts
         /\ \A x \in 0..255 : [c EXCEPT !.firstElementBitSize = x] \in Contexts
         /\ \A x \in BOOLEAN : /\ [c EXCEPT !.initStarted = x] \in Contexts
                              /\ [c EXCEPT !.isPacked = x] \in Contexts
                              /\ [c EXCEPT !.processingStarted = x] \in Contexts
<1> DEFINE Word == 0..(Pow2[WordBits] - 1)
           Numbers == 0..WordBits
           Byte == 0..255
<1>1. c \in [previousElement : Word, maxBitNumber : Numbers, firstElementBitSize : Byte,
             numElements : Nat, unpackedBitSize : Nat, initStarted : BOOLEAN, isPacked : BOOLEAN,
             processingStarted : BOOLEAN]
  BY DEF Contexts
<1> HIDE DEF Word, Numbers, Byte
<1>2. \A x \in Word : [c EXCEPT !.previousElement = x] \in Contexts
  BY <1>1 DEF Contexts, Word, Numbers, Byte
<1>3. \A x \in Numbers : [c EXCEPT !.maxBitNumber = x] \in Contexts
  BY <1>1 DEF Contexts, Word, Numbers, Byte
<1>4. \A x \in Byte : [c EXCEPT !.firstElementBitSize = x] \in Contexts
  BY <1>1 DEF Contexts, Word, Numbers, Byte
<1>5. \A x \in BOOLEAN : [c EXCEPT !.initStarted = x] \in Contexts
  BY <1>1 DEF Contexts, Word, Numbers, Byte
<1>6. \A x \in BOOLEAN : [c EXCEPT !.isPacked = x] \in Contexts
  BY <1>1 DEF Contexts, Word, Numbers, Byte
<1>7. \A x \in BOOLEAN : [c EXCEPT !.processingStarted = x] \in Contexts
  BY <1>1 DEF Contexts, Word, Numbers, Byte
<1> QED
  BY <1>2, <1>3, <1>4, <1>5, <1>6, <1>7 DEF Word, Numbers, Byte

\* A context in use.
Used(started, packs, most, word) ==
  [NewContext EXCEPT !.processingStarted = started, !.isPacked = packs, !.maxBitNumber = most,
                     !.previousElement = word]

LEMMA UsedContext ==
  ASSUME WidthAssumption, NEW started \in BOOLEAN, NEW packs \in BOOLEAN, NEW most \in 0..WordBits,
         NEW word \in 0..(Pow2[WordBits] - 1)
  PROVE  Used(started, packs, most, word) \in Contexts
<1> DEFINE c1 == [NewContext EXCEPT !.processingStarted = started]
           c2 == [c1 EXCEPT !.isPacked = packs]
           c3 == [c2 EXCEPT !.maxBitNumber = most]
           c4 == [c3 EXCEPT !.previousElement = word]
<1>1. Used(started, packs, most, word) = c4
  BY DEF Used
<1>2. c1 \in Contexts
  BY NewContextIs, ContextWith
<1> HIDE DEF c1
<1>3. c2 \in Contexts
  BY <1>2, ContextWith
<1> HIDE DEF c2
<1>4. c3 \in Contexts
  BY <1>3, ContextWith
<1> HIDE DEF c3
<1>5. c4 \in Contexts
  BY <1>4, ContextWith
<1> HIDE DEF c4
<1> QED
  BY <1>1, <1>5

\* The bits of an element.
LEMMA BitSizesAre ==
  ASSUME WidthAssumption, NEW t \in ElementTypes, NEW v \in Values(t)
  PROVE  /\ ElementBitSize(t, 0) \in Nat \ {0} /\ ElementBitSize(t, v) \in Nat \ {0}
         /\ ElementBitSize(t, 0) =< ElementBitSize(t, v) /\ ElementBitSize(t, v) =< 255
  BY DEF WidthAssumption

\* A cast gives a value of the type.
LEMMA ToValueIs ==
  ASSUME WidthAssumption, NEW t \in ElementTypes, NEW w \in Int
  PROVE  ToValue(t, w) \in Values(t)
<1> DEFINE p == Pow2[t.bits]
           h == Pow2[t.bits - 1]
           u == w % p
<1>1. p \in Nat \ {0} /\ h \in Nat \ {0} /\ p = 2 * h
  BY TypeIs, Pow2Half
<1>2. u \in 0..(p - 1)
  BY <1>1, Remainder
<1>3. ToValue(t, w) = IF t.signed THEN (IF u >= h THEN u - p ELSE u) ELSE u
  BY DEF ToValue, SignExtend
<1>4. Values(t) = IF t.signed THEN -h..(h - 1) ELSE 0..(p - 1)
  BY DEF Values
<1> HIDE DEF p, h, u
<1> QED
  BY <1>1, <1>2, <1>3, <1>4

\* What an element does to a context.
LEMMA InitElementIs ==
  ASSUME WidthAssumption, NEW t \in ElementTypes, NEW v \in Values(t), NEW c \in Contexts,
         NEW i, i = InitElement(t, c, v)
  PROVE  /\ i \in Contexts
         /\ i.initStarted /\ i.processingStarted = c.processingStarted
         /\ i.numElements = c.numElements + 1
         /\ i.unpackedBitSize = c.unpackedBitSize + ElementBitSize(t, v)
         /\ ~c.initStarted => /\ i.previousElement = ToWord(v)
                              /\ i.firstElementBitSize = (c.unpackedBitSize + ElementBitSize(t, v)) % 256
                              /\ i.maxBitNumber = c.maxBitNumber /\ i.isPacked = c.isPacked
         /\ c.initStarted => i.firstElementBitSize = c.firstElementBitSize
         /\ c.initStarted /\ c.maxBitNumber =< MAX_BIT_NUMBER_LIMIT =>
              LET bits == CalcBitLength(v, ToValue(t, c.previousElement))
              IN  /\ i.previousElement = ToWord(v)
                  /\ i.maxBitNumber = IF bits > c.maxBitNumber THEN bits ELSE c.maxBitNumber
                  /\ i.isPacked <=> i.maxBitNumber =< MAX_BIT_NUMBER_LIMIT
         /\ c.initStarted /\ ~(c.maxBitNumber =< MAX_BIT_NUMBER_LIMIT) =>
              i.maxBitNumber = c.maxBitNumber /\ i.isPacked = c.isPacked
<1> DEFINE e == ElementBitSize(t, v)
           w == ToWord(v)
           u == ToValue(t, c.previousElement)
           bits == CalcBitLength(v, u)
           most == IF bits > c.maxBitNumber THEN bits ELSE c.maxBitNumber
           packs == most =< MAX_BIT_NUMBER_LIMIT
           size == c.unpackedBitSize + e
           first == size % 256
           counted == [c EXCEPT !.numElements = @ + 1, !.unpackedBitSize = size]
<1>1. e \in Nat /\ w \in 0..(Pow2[WordBits] - 1)
  BY BitSizesAre, ValueOfToWord
<1>2. c.unpackedBitSize \in Nat /\ c.numElements \in Nat /\ c.maxBitNumber \in 0..WordBits
  BY DEF Contexts
<1>3. size \in Nat /\ c.numElements + 1 \in Nat
  BY <1>1, <1>2
<1>4. first \in 0..255
  BY <1>3
<1>5. most \in 0..WordBits
  <2>1. c.previousElement \in Int
    BY WordSize DEF Contexts
  <2>2. bits \in 0..WordBits
    BY <2>1, ToValueIs, CalcBitLengthIs
  <2> QED
    BY <1>2, <2>2
<1>6. packs \in BOOLEAN
  OBVIOUS
<1>7. i = IF ~c.initStarted
          THEN [counted EXCEPT !.initStarted = TRUE, !.previousElement = w, !.firstElementBitSize = first]
          ELSE IF c.maxBitNumber =< MAX_BIT_NUMBER_LIMIT
          THEN [counted EXCEPT !.maxBitNumber = most, !.isPacked = packs, !.previousElement = w]
          ELSE counted
  BY DEF InitElement, UInt8
<1> HIDE DEF e, w, bits, most, packs, size, first
<1>8. counted \in Contexts
  BY <1>3 DEF Contexts
<1>9. CASE ~c.initStarted
  <2>1. i = [counted EXCEPT !.initStarted = TRUE, !.previousElement = w, !.firstElementBitSize = first]
    BY <1>7, <1>9
  <2>2. i \in Contexts
    <3> DEFINE c1 == [counted EXCEPT !.initStarted = TRUE]
               c2 == [c1 EXCEPT !.previousElement = w]
               c3 == [c2 EXCEPT !.firstElementBitSize = first]
    <3> HIDE DEF counted
    <3>1. i = c3
      BY <2>1
    <3>2. c1 \in Contexts
      BY <1>8, ContextWith
    <3> HIDE DEF c1
    <3>3. c2 \in Contexts
      BY <1>1, <3>2, ContextWith
    <3> HIDE DEF c2
    <3>4. c3 \in Contexts
      BY <1>4, <3>3, ContextWith
    <3> HIDE DEF c3
    <3> QED
      BY <3>1, <3>4
  <2>3. /\ i.initStarted /\ i.processingStarted = c.processingStarted /\ i.numElements = c.numElements + 1
        /\ i.unpackedBitSize = size /\ i.previousElement = w /\ i.firstElementBitSize = first
        /\ i.maxBitNumber = c.maxBitNumber /\ i.isPacked = c.isPacked
    BY <2>1 DEF Contexts
  <2> QED
    BY <1>9, <2>2, <2>3 DEF size, first, w, e
<1>10. CASE c.initStarted /\ c.maxBitNumber =< MAX_BIT_NUMBER_LIMIT
  <2>1. i = [counted EXCEPT !.maxBitNumber = most, !.isPacked = packs, !.previousElement = w]
    BY <1>7, <1>10
  <2>2. i \in Contexts
    <3> DEFINE c1 == [counted EXCEPT !.maxBitNumber = most]
               c2 == [c1 EXCEPT !.isPacked = packs]
               c3 == [c2 EXCEPT !.previousElement = w]
    <3> HIDE DEF counted
    <3>1. i = c3
      BY <2>1
    <3>2. c1 \in Contexts
      BY <1>5, <1>8, ContextWith
    <3> HIDE DEF c1
    <3>3. c2 \in Contexts
      BY <1>6, <3>2, ContextWith
    <3> HIDE DEF c2
    <3>4. c3 \in Contexts
      BY <1>1, <3>3, ContextWith
    <3> HIDE DEF c3
    <3> QED
      BY <3>1, <3>4
  <2>3. /\ i.initStarted = c.initStarted /\ i.processingStarted = c.processingStarted
        /\ i.numElements = c.numElements + 1
        /\ i.unpackedBitSize = size /\ i.previousElement = w /\ i.firstElementBitSize = c.firstElementBitSize
        /\ i.maxBitNumber = most /\ i.isPacked = packs
    BY <2>1 DEF Contexts
  <2>4. i.isPacked <=> i.maxBitNumber =< MAX_BIT_NUMBER_LIMIT
    BY <2>3 DEF packs
  <2> QED
    BY <1>10, <2>2, <2>3, <2>4 DEF size, w, e, most, bits
<1>11. CASE c.initStarted /\ ~(c.maxBitNumber =< MAX_BIT_NUMBER_LIMIT)
  <2>1. i = counted
    BY <1>7, <1>11
  <2>2. /\ i.initStarted = c.initStarted /\ i.processingStarted = c.processingStarted
        /\ i.numElements = c.numElements + 1
        /\ i.unpackedBitSize = size /\ i.firstElementBitSize = c.firstElementBitSize
        /\ i.maxBitNumber = c.maxBitNumber /\ i.isPacked = c.isPacked
    BY <2>1 DEF Contexts
  <2> QED
    BY <1>8, <1>11, <2>1, <2>2 DEF size, e
<1> QED
  BY <1>9, <1>10, <1>11
\* A difference that is read with the bits it was written with leads to the value it was taken from.
LEMMA AddDeltaIs ==
  ASSUME WidthAssumption, NEW t \in ElementTypes, NEW v \in Values(t), NEW u \in Values(t),
         NEW c \in Contexts, c.previousElement = ToWord(u),
         FitsSigned(v - u, c.maxBitNumber + 1)
  PROVE  AddDelta(t, c, (v - u) % Pow2[c.maxBitNumber + 1]) = [c EXCEPT !.previousElement = ToWord(v)]
<1> DEFINE n == c.maxBitNumber + 1
           w == (v - u) % Pow2[n]
<1>1. n \in Nat \ {0} /\ v \in Int /\ u \in Int /\ v - u \in Int
  BY ValuesAre, WordSize DEF Contexts
<1>2. SignExtend(w, n) = v - u
  BY <1>1, BitsOfSigned
<1>3. ToWord(ToWord(u) + ToWord(v - u)) = ToWord(u + (v - u))
  BY <1>1, WordsAdd
<1>4. u + (v - u) = v
  BY <1>1
<1>5. ToWord(c.previousElement + ToWord(SignExtend(w, c.maxBitNumber + 1))) = ToWord(v)
  BY <1>2, <1>3, <1>4 DEF n
<1>6. ToValue(t, ToWord(v)) = v
  BY ValueOfToWord
<1>7. ToWord(ToValue(t, ToWord(c.previousElement + ToWord(SignExtend(w, c.maxBitNumber + 1))))) = ToWord(v)
  BY <1>5, <1>6
<1>8. AddDelta(t, c, w) = [c EXCEPT !.previousElement =
                             ToWord(ToValue(t, ToWord(c.previousElement + ToWord(SignExtend(w, c.maxBitNumber + 1)))))]
  BY DEF AddDelta
<1> QED
  BY <1>7, <1>8 DEF w, n

\* The bits of the first elements, written as they are.
IsUnpacked(s, e, a) ==
  /\ s \in [0..Len(a) -> Nat]
  /\ s[0] = 0
  /\ \A k \in 1..Len(a) : s[k] = s[k - 1] + ElementBitSize(e, a[k])

Unpacked(e, a) == CHOOSE s \in [0..Len(a) -> Nat] : IsUnpacked(s, e, a)

LEMMA UnpackedIs ==
  ASSUME WidthAssumption, NEW e \in ElementTypes, NEW a \in Seq(Values(e))
  PROVE  IsUnpacked(Unpacked(e, a), e, a)
<1> DEFINE last == Len(a)
           add == [k \in 1..last |-> [x \in Nat |-> x + ElementBitSize(e, a[k])]]
<1>1. last \in Nat /\ \A k \in 1..last : a[k] \in Values(e)
  OBVIOUS
<1>2. \A k \in 1..last : ElementBitSize(e, a[k]) \in Nat
  BY <1>1, BitSizesAre
<1>3. add \in [1..last -> [Nat -> Nat]] /\ \A k \in 1..last, x \in Nat : add[k][x] = x + ElementBitSize(e, a[k])
  BY <1>2
<1> HIDE DEF add, last
<1>4. PICK s : Recursive(s, Nat, 0, add, last)
  <2>1. last \in Nat /\ 0 \in Nat /\ add \in [1..last -> [Nat -> Nat]]
    BY <1>1, <1>3
  <2> QED
    BY <2>1, FiniteRecursion
<1>5. \A k \in 1..last : k - 1 \in 0..last /\ s[k - 1] \in Nat
  BY <1>1, <1>4 DEF Recursive
<1>6. IsUnpacked(s, e, a)
  BY <1>3, <1>4, <1>5 DEF Recursive, IsUnpacked, last
<1>7. \E f \in [0..Len(a) -> Nat] : IsUnpacked(f, e, a)
  BY <1>6 DEF IsUnpacked
<1> QED
  BY <1>7 DEF Unpacked

\* What a context knows behind init of the first k elements.
Measured(e, a, k, c) ==
  /\ c \in Contexts
  /\ c.numElements = k /\ (c.initStarted <=> k > 0) /\ ~c.processingStarted
  /\ k > 0 => c.firstElementBitSize = ElementBitSize(e, a[1])
  /\ c.unpackedBitSize = Unpacked(e, a)[k]
  /\ c.isPacked <=> k >= 2 /\ c.maxBitNumber =< MAX_BIT_NUMBER_LIMIT
  /\ c.maxBitNumber =< MAX_BIT_NUMBER_LIMIT =>
       /\ k > 0 => c.previousElement = ToWord(a[k])
       /\ \A i \in 2..k : Near(a[i], a[i - 1], c.maxBitNumber)

LEMMA MeasuredStarts ==
  ASSUME WidthAssumption, NEW e \in ElementTypes, NEW a \in Seq(Values(e))
  PROVE  Measured(e, a, 0, NewContext)
<1>1. NewContext \in Contexts
  BY NewContextIs
<1>2. Unpacked(e, a)[0] = 0
  BY UnpackedIs DEF IsUnpacked
<1> QED
  BY <1>1, <1>2 DEF Measured, NewContext

\* One more element.
LEMMA MeasuredGoesOn ==
  ASSUME WidthAssumption, NEW e \in ElementTypes, NEW a \in Seq(Values(e)), NEW k \in 1..Len(a), NEW c,
         Measured(e, a, k - 1, c)
  PROVE  Measured(e, a, k, InitElement(e, c, a[k]))
<1> DEFINE v == a[k]
           d == InitElement(e, c, v)
<1>1. c \in Contexts /\ v \in Values(e) /\ k - 1 \in Nat /\ k \in Nat
  BY DEF Measured
<1> HIDE DEF d
<1>2. /\ d \in Contexts
      /\ d.initStarted /\ d.processingStarted = c.processingStarted
      /\ d.numElements = c.numElements + 1
      /\ d.unpackedBitSize = c.unpackedBitSize + ElementBitSize(e, v)
      /\ ~c.initStarted => /\ d.previousElement = ToWord(v)
                           /\ d.firstElementBitSize = (c.unpackedBitSize + ElementBitSize(e, v)) % 256
                           /\ d.maxBitNumber = c.maxBitNumber /\ d.isPacked = c.isPacked
      /\ c.initStarted => d.firstElementBitSize = c.firstElementBitSize
      /\ c.initStarted /\ c.maxBitNumber =< MAX_BIT_NUMBER_LIMIT =>
           LET bits == CalcBitLength(v, ToValue(e, c.previousElement))
           IN  /\ d.previousElement = ToWord(v)
               /\ d.maxBitNumber = IF bits > c.maxBitNumber THEN bits ELSE c.maxBitNumber
               /\ d.isPacked <=> d.maxBitNumber =< MAX_BIT_NUMBER_LIMIT
      /\ c.initStarted /\ ~(c.maxBitNumber =< MAX_BIT_NUMBER_LIMIT) =>
           d.maxBitNumber = c.maxBitNumber /\ d.isPacked = c.isPacked
  BY <1>1, InitElementIs DEF d
<1>3. d.unpackedBitSize = Unpacked(e, a)[k]
  BY <1>2, UnpackedIs DEF Measured, IsUnpacked
<1>4. d.numElements = k /\ ~d.processingStarted /\ d.initStarted
  BY <1>1, <1>2 DEF Measured
<1>5. CASE k = 1
  <2>1. ~c.initStarted /\ ~c.isPacked
    BY <1>1, <1>5 DEF Measured
  <2>2. c.unpackedBitSize = 0
    BY <1>5, UnpackedIs DEF Measured, IsUnpacked
  <2>3. ElementBitSize(e, v) \in Nat /\ ElementBitSize(e, v) =< 255
    BY <1>1, BitSizesAre
  <2>4. d.firstElementBitSize = ElementBitSize(e, a[1])
    BY <1>2, <1>5, <2>1, <2>2, <2>3
  <2>5. d.previousElement = ToWord(a[k]) /\ ~d.isPacked
    BY <1>2, <2>1
  <2>6. \A i \in 2..k : FALSE
    BY <1>5
  <2> QED
    BY <1>2, <1>3, <1>4, <1>5, <2>4, <2>5, <2>6 DEF Measured, d
<1>6. CASE k # 1
  <2>1. k - 1 > 0 /\ k >= 2 /\ c.initStarted
    BY <1>1, <1>6 DEF Measured
  <2>2. d.firstElementBitSize = ElementBitSize(e, a[1])
    BY <1>2, <2>1 DEF Measured
  <2>3. c.maxBitNumber \in Nat /\ MAX_BIT_NUMBER_LIMIT \in Int
    BY <1>1, WordSize DEF Contexts, MAX_BIT_NUMBER_LIMIT
  <2>4. CASE ~(c.maxBitNumber =< MAX_BIT_NUMBER_LIMIT)
    <3>1. d.maxBitNumber = c.maxBitNumber /\ ~d.isPacked
      BY <1>2, <2>1, <2>4 DEF Measured
    <3> QED
      BY <1>1, <1>2, <1>3, <1>4, <2>1, <2>2, <2>4, <3>1 DEF Measured, d
  <2>5. CASE c.maxBitNumber =< MAX_BIT_NUMBER_LIMIT
    <3> DEFINE u == a[k - 1]
               bits == CalcBitLength(v, u)
    <3>1. u \in Values(e)
      BY <2>1
    <3>2. c.previousElement = ToWord(u) /\ \A i \in 2..(k - 1) : Near(a[i], a[i - 1], c.maxBitNumber)
      BY <2>1, <2>5 DEF Measured
    <3>3. ToValue(e, c.previousElement) = u
      BY <3>1, <3>2, ValueOfToWord
    <3>4. bits \in 0..WordBits /\ Near(v, u, bits)
      BY <1>1, <3>1, CalcBitLengthIs
    <3>5. /\ d.previousElement = ToWord(v)
          /\ d.maxBitNumber = IF bits > c.maxBitNumber THEN bits ELSE c.maxBitNumber
          /\ d.isPacked <=> d.maxBitNumber =< MAX_BIT_NUMBER_LIMIT
      BY <1>2, <2>1, <2>5, <3>3
    <3> HIDE DEF bits
    <3>6. bits \in Nat /\ d.maxBitNumber \in Nat /\ bits =< d.maxBitNumber /\ c.maxBitNumber =< d.maxBitNumber
      BY <2>3, <3>4, <3>5, WordSize
    <3>7. ASSUME NEW i \in 2..k PROVE Near(a[i], a[i - 1], d.maxBitNumber)
      <4>1. a[i] \in Int /\ a[i - 1] \in Int
        <5>1. i \in 1..Len(a) /\ i - 1 \in 1..Len(a)
          BY <1>1
        <5>2. a[i] \in Values(e) /\ a[i - 1] \in Values(e)
          BY <5>1
        <5> QED
          BY <5>2, ValuesAre
      <4>2. CASE i = k
        <5>1. Near(a[i], a[i - 1], bits)
          BY <3>4, <4>2
        <5> QED
          BY <3>6, <4>1, <5>1, NearGrows
      <4>3. CASE i # k
        <5>1. i \in 2..(k - 1)
          BY <1>1, <4>3
        <5>2. Near(a[i], a[i - 1], c.maxBitNumber)
          BY <3>2, <5>1
        <5> QED
          BY <2>3, <3>6, <4>1, <5>2, NearGrows
      <4> QED
        BY <4>2, <4>3
    <3> QED
      BY <1>1, <1>2, <1>3, <1>4, <2>1, <2>2, <3>5, <3>7 DEF Measured, d
  <2> QED
    BY <2>4, <2>5
<1> QED
  BY <1>5, <1>6

\* initContext of a packed array.
InitOf(e, a) ==
  LET c[k \in 0..Len(a)] == IF k = 0 THEN NewContext ELSE InitElement(e, c[k - 1], a[k])
  IN  c[Len(a)]

LEMMA InitOfIs ==
  ASSUME WidthAssumption, NEW e \in ElementTypes, NEW a \in Seq(Values(e))
  PROVE  Measured(e, a, Len(a), InitOf(e, a))
<1> DEFINE last == Len(a)
           init == [k \in 1..last |-> [c \in Contexts |-> InitElement(e, c, a[k])]]
<1>1. last \in Nat /\ \A k \in 1..last : a[k] \in Values(e)
  OBVIOUS
<1>2. \A k \in 1..last, c \in Contexts : InitElement(e, c, a[k]) \in Contexts
  BY <1>1, InitElementIs
<1>3. init \in [1..last -> [Contexts -> Contexts]]
      /\ \A k \in 1..last, c \in Contexts : init[k][c] = InitElement(e, c, a[k])
  BY <1>2
<1> HIDE DEF init, last
<1>4. PICK f : Recursive(f, Contexts, NewContext, init, last)
  <2>1. last \in Nat /\ NewContext \in Contexts /\ init \in [1..last -> [Contexts -> Contexts]]
    BY <1>1, <1>3, NewContextIs
  <2> QED
    BY <2>1, FiniteRecursion
<1>5. \A k \in 1..last : k - 1 \in 0..last /\ f[k - 1] \in Contexts
  BY <1>1, <1>4 DEF Recursive
<1>6. \A k \in 1..last : f[k] = InitElement(e, f[k - 1], a[k])
  BY <1>3, <1>4, <1>5 DEF Recursive
<1> DEFINE is(g) == g = [k \in 0..last |-> IF k = 0 THEN NewContext ELSE InitElement(e, g[k - 1], a[k])]
<1>7. is(f)
  <2>1. \A k \in 0..last : k # 0 => k \in 1..last
    BY <1>1
  <2> QED
    BY <1>4, <1>6, <2>1 DEF Recursive
<1> DEFINE c == CHOOSE g : is(g)
<1>8. is(c)
  <2> HIDE DEF is
  <2> QED
    BY <1>7
<1> HIDE DEF c
<1>9. c[0] = NewContext /\ \A k \in 1..last : c[k] = InitElement(e, c[k - 1], a[k])
  <2>1. \A k \in 1..last : k \in 0..last /\ k # 0
    BY <1>1
  <2>2. 0 \in 0..last
    BY <1>1
  <2> QED
    BY <1>8, <2>1, <2>2
<1> DEFINE T == {k \in Nat : k =< last => Measured(e, a, k, c[k])}
<1>10. 0 \in T
  BY <1>9, MeasuredStarts
<1>11. \A k \in T : k + 1 \in T
  <2>1. ASSUME NEW k \in T PROVE k + 1 \in T
    <3> SUFFICES ASSUME k + 1 =< last PROVE Measured(e, a, k + 1, c[k + 1])
      OBVIOUS
    <3>1. k + 1 \in 1..last /\ (k + 1) - 1 = k /\ k =< last
      BY <1>1
    <3>2. Measured(e, a, (k + 1) - 1, c[k]) /\ c[k + 1] = InitElement(e, c[k], a[k + 1])
      BY <1>9, <3>1
    <3> QED
      BY <3>1, <3>2, MeasuredGoesOn DEF last
  <2> QED
    BY <2>1
<1> HIDE DEF T
<1>12. T = Nat
  <2>1. T \subseteq Nat
    BY DEF T
  <2> QED
    BY <2>1, <1>10, <1>11, SetInduction
<1>13. Measured(e, a, last, c[last])
  BY <1>1, <1>12 DEF T
<1>14. c[last] = InitOf(e, a)
  BY DEF InitOf, c, is, last
<1> QED
  BY <1>13, <1>14 DEF last

\* The context all elements but the first are measured and written with.
Final(e, a) == FinishInit(Started(InitOf(e, a)))

LEMMA FinalIs ==
  ASSUME WidthAssumption, NEW e \in ElementTypes, NEW a \in Seq(Values(e))
  PROVE  LET c == Final(e, a)
         IN  /\ c \in Contexts /\ c.processingStarted
             /\ c.isPacked =>
                  /\ Len(a) >= 2
                  /\ c.maxBitNumber =< MAX_BIT_NUMBER_LIMIT
                  /\ \A i \in 2..Len(a) : Near(a[i], a[i - 1], c.maxBitNumber)
                  /\ 1 + MAX_BIT_NUMBER_BITS + ElementBitSize(e, a[1]) + (Len(a) - 1) * DeltaBits(c)
                       < 1 + Unpacked(e, a)[Len(a)]
<1> DEFINE i == InitOf(e, a)
           s == Started(i)
           c == Final(e, a)
           size == 1 + MAX_BIT_NUMBER_BITS + i.firstElementBitSize + (i.numElements - 1) * DeltaBits(i)
<1>1. Measured(e, a, Len(a), i) /\ i \in Contexts
  BY InitOfIs DEF Measured
<1> HIDE DEF i
<1>2. s = [i EXCEPT !.processingStarted = TRUE] /\ s \in Contexts
  BY <1>1 DEF Started, Contexts
<1>3. s.firstElementBitSize = i.firstElementBitSize /\ s.numElements = i.numElements /\ DeltaBits(s) = DeltaBits(i)
      /\ s.maxBitNumber = i.maxBitNumber /\ s.isPacked = i.isPacked /\ s.unpackedBitSize = i.unpackedBitSize
      /\ s.processingStarted
  BY <1>1, <1>2 DEF Contexts, DeltaBits
<1> HIDE DEF s
<1>4. c = IF s.isPacked /\ size >= 1 + s.unpackedBitSize THEN [s EXCEPT !.isPacked = FALSE] ELSE s
  BY <1>3 DEF Final, FinishInit, s, i
<1> HIDE DEF size, c
<1>5. c \in Contexts /\ c.processingStarted
  <2> DEFINE d == [s EXCEPT !.isPacked = FALSE]
  <2>1. d \in Contexts
    BY <1>2, ContextWith
  <2>2. d.processingStarted = s.processingStarted
    BY <1>2 DEF Contexts
  <2>3. c = d \/ c = s
    BY <1>4
  <2> HIDE DEF d
  <2> QED
    BY <1>2, <1>3, <2>1, <2>2, <2>3
<1>6. ASSUME c.isPacked
      PROVE  /\ Len(a) >= 2
             /\ c.maxBitNumber =< MAX_BIT_NUMBER_LIMIT
             /\ \A k \in 2..Len(a) : Near(a[k], a[k - 1], c.maxBitNumber)
             /\ 1 + MAX_BIT_NUMBER_BITS + ElementBitSize(e, a[1]) + (Len(a) - 1) * DeltaBits(c)
                  < 1 + Unpacked(e, a)[Len(a)]
  <2>1. c = s /\ s.isPacked /\ ~(size >= 1 + s.unpackedBitSize)
    BY <1>2, <1>4, <1>6 DEF Contexts
  <2>2. Len(a) >= 2 /\ i.maxBitNumber =< MAX_BIT_NUMBER_LIMIT
    BY <1>1, <1>3, <2>1 DEF Measured
  <2>3. \A k \in 2..Len(a) : Near(a[k], a[k - 1], i.maxBitNumber)
    BY <1>1, <2>2 DEF Measured
  <2>4. i.numElements = Len(a) /\ i.firstElementBitSize = ElementBitSize(e, a[1])
        /\ i.unpackedBitSize = Unpacked(e, a)[Len(a)]
    BY <1>1, <2>2 DEF Measured
  <2>5. DeltaBits(c) = DeltaBits(i) /\ c.maxBitNumber = i.maxBitNumber
    BY <1>3, <2>1
  <2>6. size = 1 + MAX_BIT_NUMBER_BITS + ElementBitSize(e, a[1]) + (Len(a) - 1) * DeltaBits(c)
    BY <2>4, <2>5 DEF size
  <2>7. size \in Int /\ Unpacked(e, a)[Len(a)] \in Int
    <3>1. DeltaBits(i) \in Int
      BY <1>1, WordSize DEF DeltaBits, Contexts
    <3>2. (i.numElements - 1) * DeltaBits(i) \in Int
      <4>1. i.numElements - 1 \in Int
        BY <1>1 DEF Contexts
      <4> QED
        BY <3>1, <4>1, Product
    <3>3. i.firstElementBitSize \in Int /\ MAX_BIT_NUMBER_BITS \in Int
      <4>1. i.firstElementBitSize \in Int
        <5>1. i.firstElementBitSize \in 0..255
          BY <1>1 DEF Contexts
        <5>2. \A x \in 0..255 : x \in Int
          OBVIOUS
        <5> QED
          BY ONLY <5>1, <5>2, Zenon
      <4>2. MAX_BIT_NUMBER_BITS \in Int
        BY DEF WidthAssumption
      <4> QED
        BY <4>1, <4>2
    <3>4. Unpacked(e, a)[Len(a)] \in Int
      BY UnpackedIs DEF IsUnpacked
    <3> QED
      BY <3>2, <3>3, <3>4 DEF size
  <2>8. s.unpackedBitSize = Unpacked(e, a)[Len(a)]
    BY <1>3, <2>4
  <2>9. size < 1 + Unpacked(e, a)[Len(a)]
    BY <2>1, <2>7, <2>8
  <2> QED
    BY <2>2, <2>3, <2>5, <2>6, <2>9
<1> QED
  BY <1>5, <1>6 DEF c
-------------------------------------------------------------------------------
(* Where the elements are.  r is an array and where it is put.             *)

Sensible(r) ==
  /\ r.element \in ElementTypes /\ r.array \in Seq(Values(r.element))
  /\ r.packed \in BOOLEAN /\ r.type \in AllTypes /\ r.start \in Nat
  /\ Allowed(r.element, r.type, r.packed)
  /\ VarSizeBits(Len(r.array)) \in Nat \ {0}

HasLength(r) == r.type \in {"AUTO", "ALIGNED_AUTO"}

Aligns(r) == r.type \in {"ALIGNED", "ALIGNED_AUTO"}

LengthOf(r) == IF HasLength(r) THEN VarSizeBits(Len(r.array)) ELSE 0

Aligned(r, p) == IF Aligns(r) THEN AlignTo(p) ELSE p

FinalOf(r) == Final(r.element, r.array)

SizeOf(r, k) == ElementBitSize(r.element, r.array[k])

\* The bits element k takes, with the descriptor in front of it.
BitsOf(r, k) ==
  IF r.packed /\ k = 1 THEN BitSizeOfDescriptor(FinalOf(r)) + SizeOf(r, k)
  ELSE IF r.packed /\ FinalOf(r).isPacked THEN DeltaBits(FinalOf(r)) ELSE SizeOf(r, k)

IsEnds(f, r) ==
  /\ f \in [0..Len(r.array) -> Nat]
  /\ f[0] = r.start + LengthOf(r)
  /\ \A k \in 1..Len(r.array) : f[k] = Aligned(r, f[k - 1]) + BitsOf(r, k)

Ends(r) == CHOOSE f \in [0..Len(r.array) -> Nat] : IsEnds(f, r)

PlaceOf(r, k) == Aligned(r, Ends(r)[k - 1])

\* An alignment moves ahead to a byte.
LEMMA AlignedIs ==
  \A p \in Nat : AlignTo(p) \in Nat /\ AlignTo(p) >= p /\ AlignTo(p) % 8 = 0
  BY DEF AlignTo

LEMMA FinalOfIs ==
  ASSUME WidthAssumption, NEW r, Sensible(r), NEW c, c = FinalOf(r)
  PROVE  /\ c \in Contexts /\ c.processingStarted
         /\ c.isPacked \in BOOLEAN /\ c.maxBitNumber \in Nat /\ DeltaBits(c) \in Nat
         /\ BitSizeOfDescriptor(c) \in Nat \ {0}
         /\ c.isPacked =>
              /\ Len(r.array) >= 2
              /\ c.maxBitNumber =< MAX_BIT_NUMBER_LIMIT
              /\ \A i \in 2..Len(r.array) : Near(r.array[i], r.array[i - 1], c.maxBitNumber)
              /\ 1 + MAX_BIT_NUMBER_BITS + SizeOf(r, 1) + (Len(r.array) - 1) * DeltaBits(c)
                   < 1 + Unpacked(r.element, r.array)[Len(r.array)]
<1>1. /\ c \in Contexts /\ c.processingStarted
      /\ c.isPacked =>
              /\ Len(r.array) >= 2
              /\ c.maxBitNumber =< MAX_BIT_NUMBER_LIMIT
              /\ \A i \in 2..Len(r.array) : Near(r.array[i], r.array[i - 1], c.maxBitNumber)
              /\ 1 + MAX_BIT_NUMBER_BITS + SizeOf(r, 1) + (Len(r.array) - 1) * DeltaBits(c)
                   < 1 + Unpacked(r.element, r.array)[Len(r.array)]
  BY FinalIs DEF Sensible, FinalOf, SizeOf
<1>2. c.isPacked \in BOOLEAN /\ c.maxBitNumber \in Nat
  BY <1>1, WordSize DEF Contexts
<1>3. DeltaBits(c) \in Nat
  BY <1>2 DEF DeltaBits
<1>4. BitSizeOfDescriptor(c) \in Nat \ {0}
  BY DEF BitSizeOfDescriptor, WidthAssumption
<1> QED
  BY <1>1, <1>2, <1>3, <1>4

LEMMA BitsAre ==
  ASSUME WidthAssumption, NEW r, Sensible(r), NEW k \in 1..Len(r.array)
  PROVE  /\ BitsOf(r, k) \in Nat /\ SizeOf(r, k) \in Nat \ {0}
         /\ r.array[k] \in Values(r.element) /\ ElementBitSize(r.element, 0) \in Nat \ {0}
         /\ ElementBitSize(r.element, 0) =< SizeOf(r, k)
<1>1. r.array[k] \in Values(r.element)
  BY DEF Sensible
<1>2. SizeOf(r, k) \in Nat \ {0} /\ ElementBitSize(r.element, 0) \in Nat \ {0}
      /\ ElementBitSize(r.element, 0) =< SizeOf(r, k)
  BY <1>1, BitSizesAre DEF Sensible, SizeOf
<1>3. DeltaBits(FinalOf(r)) \in Nat /\ BitSizeOfDescriptor(FinalOf(r)) \in Nat
  BY FinalOfIs
<1> QED
  BY <1>1, <1>2, <1>3 DEF BitsOf

LEMMA EndsAre ==
  ASSUME WidthAssumption, NEW r, Sensible(r)
  PROVE  IsEnds(Ends(r), r)
<1> DEFINE last == Len(r.array)
           first == r.start + LengthOf(r)
           go == [k \in 1..last |-> [x \in Nat |-> Aligned(r, x) + BitsOf(r, k)]]
<1>1. last \in Nat /\ first \in Nat
  BY DEF Sensible, LengthOf
<1>2. \A k \in 1..last : BitsOf(r, k) \in Nat
  BY BitsAre
<1>3. \A x \in Nat : Aligned(r, x) \in Nat
  BY AlignedIs DEF Aligned
<1>4. \A k \in 1..last, x \in Nat : Aligned(r, x) + BitsOf(r, k) \in Nat
  <2>1. \A x, y \in Nat : x + y \in Nat
    OBVIOUS
  <2> HIDE DEF last
  <2> QED
    BY ONLY <1>2, <1>3, <2>1, Zenon
<1>5. go \in [1..last -> [Nat -> Nat]] /\ \A k \in 1..last, x \in Nat : go[k][x] = Aligned(r, x) + BitsOf(r, k)
  BY <1>4
<1> HIDE DEF go, last, first
<1>6. PICK f : Recursive(f, Nat, first, go, last)
  <2>1. last \in Nat /\ first \in Nat /\ go \in [1..last -> [Nat -> Nat]]
    BY <1>1, <1>5
  <2> QED
    BY <2>1, FiniteRecursion
<1>7. \A k \in 1..last : k - 1 \in 0..last /\ f[k - 1] \in Nat
  BY <1>1, <1>6 DEF Recursive
<1>8. IsEnds(f, r)
  BY <1>5, <1>6, <1>7 DEF Recursive, IsEnds, last, first
<1>9. \E g \in [0..Len(r.array) -> Nat] : IsEnds(g, r)
  BY <1>8 DEF IsEnds
<1> QED
  BY <1>9 DEF Ends

\* An element is between the ends of the one in front of it and its own.
LEMMA PlaceIs ==
  ASSUME WidthAssumption, NEW r, Sensible(r), NEW k \in 1..Len(r.array)
  PROVE  /\ PlaceOf(r, k) \in Nat /\ Ends(r)[k - 1] \in Nat /\ Ends(r)[k] \in Nat
         /\ Ends(r)[k - 1] =< PlaceOf(r, k)
         /\ Ends(r)[k] = PlaceOf(r, k) + BitsOf(r, k)
         /\ Aligns(r) => PlaceOf(r, k) % 8 = 0
<1>1. k - 1 \in 0..Len(r.array) /\ k \in 0..Len(r.array)
  OBVIOUS
<1>2. Ends(r)[k - 1] \in Nat /\ Ends(r)[k] \in Nat /\ Ends(r)[k] = Aligned(r, Ends(r)[k - 1]) + BitsOf(r, k)
  BY <1>1, EndsAre DEF IsEnds
<1> DEFINE p == Ends(r)[k - 1]
<1>3. AlignTo(p) \in Nat /\ AlignTo(p) >= p /\ AlignTo(p) % 8 = 0 /\ p \in Nat
  BY <1>2, AlignedIs
<1>4. PlaceOf(r, k) = IF Aligns(r) THEN AlignTo(p) ELSE p
  BY DEF PlaceOf, Aligned
<1>5. Ends(r)[k] = PlaceOf(r, k) + BitsOf(r, k)
  BY <1>2 DEF PlaceOf
<1> HIDE DEF p
<1>6. PlaceOf(r, k) \in Nat /\ p =< PlaceOf(r, k) /\ (Aligns(r) => PlaceOf(r, k) % 8 = 0)
  BY <1>3, <1>4
<1> QED
  BY <1>2, <1>5, <1>6 DEF p

LEMMA EndsGrow ==
  ASSUME WidthAssumption, NEW r, Sensible(r), NEW j \in 0..Len(r.array), NEW k \in 0..Len(r.array), j =< k
  PROVE  Ends(r)[j] \in Nat /\ Ends(r)[k] \in Nat /\ Ends(r)[j] =< Ends(r)[k]
<1> DEFINE T == {n \in Nat : j + n =< Len(r.array) => Ends(r)[j] =< Ends(r)[j + n]}
<1>1. \A n \in 0..Len(r.array) : Ends(r)[n] \in Nat
  BY EndsAre DEF IsEnds
<1>2. Len(r.array) \in Nat
  BY DEF Sensible
<1>3. 0 \in T
  BY <1>1
<1>4. \A n \in T : n + 1 \in T
  <2>1. ASSUME NEW n \in T PROVE n + 1 \in T
    <3> SUFFICES ASSUME j + (n + 1) =< Len(r.array) PROVE Ends(r)[j] =< Ends(r)[j + (n + 1)]
      OBVIOUS
    <3> DEFINE m == j + (n + 1)
    <3>1. m \in 1..Len(r.array) /\ m - 1 = j + n /\ j + n =< Len(r.array) /\ m - 1 \in 0..Len(r.array)
      BY <1>2
    <3>2. Ends(r)[j] =< Ends(r)[j + n]
      BY <3>1
    <3> HIDE DEF m
    <3>3. Ends(r)[m - 1] =< PlaceOf(r, m) /\ Ends(r)[m] = PlaceOf(r, m) + BitsOf(r, m) /\ PlaceOf(r, m) \in Nat
          /\ BitsOf(r, m) \in Nat
      BY <3>1, PlaceIs, BitsAre
    <3>4. Ends(r)[j] =< Ends(r)[m - 1] /\ Ends(r)[j] \in Nat /\ Ends(r)[m - 1] \in Nat
      BY <1>1, <3>1, <3>2
    <3>5. Ends(r)[j] =< Ends(r)[m]
      BY <3>3, <3>4
    <3> QED
      BY <3>5 DEF m
  <2> QED
    BY <2>1
<1> HIDE DEF T
<1>5. T = Nat
  <2>1. T \subseteq Nat
    BY DEF T
  <2> QED
    BY <2>1, <1>3, <1>4, SetInduction
<1>6. k - j \in Nat /\ j + (k - j) = k /\ k =< Len(r.array)
  BY <1>2
<1>7. k - j \in T
  BY <1>5, <1>6
<1>8. Ends(r)[j] =< Ends(r)[k]
  BY <1>6, <1>7 DEF T
<1> QED
  BY <1>1, <1>8
-------------------------------------------------------------------------------
(* What the stream holds.                                                  *)

Put(p, field) == [at |-> p, field |-> field]

\* The fields of element k.
FieldsOf(r, k) ==
  LET c == FinalOf(r)
      p == PlaceOf(r, k)
      whole == Field("element", r.array[k], SizeOf(r, k))
  IN  IF r.packed /\ k = 1
      THEN IF c.isPacked
           THEN {Put(p, Field("flag", 1, 1)), Put(p + 1, Field("number", c.maxBitNumber, MAX_BIT_NUMBER_BITS)),
                 Put(p + 1 + MAX_BIT_NUMBER_BITS, whole)}
           ELSE {Put(p, Field("flag", 0, 1)), Put(p + 1, whole)}
      ELSE IF r.packed /\ c.isPacked
      THEN IF c.maxBitNumber = 0
           THEN {}
           ELSE {Put(p, Field("delta", (r.array[k] - r.array[k - 1]) % Pow2[DeltaBits(c)], DeltaBits(c)))}
      ELSE {Put(p, whole)}

LengthFields(r) ==
  IF HasLength(r)
  THEN {Put(r.start, Field("length", Len(r.array), VarSizeBits(Len(r.array))))}
  ELSE {}

\* The stream with the first n elements.
Coded(r, n) == LengthFields(r) \union UNION {FieldsOf(r, k) : k \in 1..n}

\* The fields of an element are in its bits, and none two of a kind.
LEMMA FieldInside ==
  ASSUME WidthAssumption, NEW r, Sensible(r), NEW k \in 1..Len(r.array), NEW f \in FieldsOf(r, k)
  PROVE  /\ f.at \in Nat /\ PlaceOf(r, k) =< f.at
         /\ f.field.kind # "number" => f.at < Ends(r)[k]
         /\ f.field.kind = "number" => k = 1
         /\ f.field.kind # "length"
<1> DEFINE c == FinalOf(r)
           p == PlaceOf(r, k)
           size == SizeOf(r, k)
           all == Ends(r)[k]
           delta == (r.array[k] - r.array[k - 1]) % Pow2[DeltaBits(c)]
           most == c.maxBitNumber
           width == DeltaBits(c)
           v == r.array[k]
           packs == c.isPacked
           one == Put(p, Field("flag", 1, 1))
           two == Put(p + 1, Field("number", most, MAX_BIT_NUMBER_BITS))
           three == Put(p + 1 + MAX_BIT_NUMBER_BITS, Field("element", v, size))
           none == Put(p, Field("flag", 0, 1))
           after == Put(p + 1, Field("element", v, size))
           diff == Put(p, Field("delta", delta, width))
           alone == Put(p, Field("element", v, size))
<1>1. /\ f \in FieldsOf(r, k)
      /\ p \in Nat /\ all \in Nat /\ all = p + BitsOf(r, k) /\ size \in Nat \ {0} /\ MAX_BIT_NUMBER_BITS \in Nat
      /\ width = most + (IF most > 0 THEN 1 ELSE 0) /\ most \in Nat
  BY PlaceIs, BitsAre, FinalOfIs DEF WidthAssumption, DeltaBits
<1>2. /\ r.packed /\ k = 1 /\ packs => BitsOf(r, k) = 1 + MAX_BIT_NUMBER_BITS + size
      /\ r.packed /\ k = 1 /\ ~packs => BitsOf(r, k) = 1 + size
      /\ ~(r.packed /\ k = 1) /\ r.packed /\ packs => BitsOf(r, k) = width
      /\ ~(r.packed /\ k = 1) /\ ~(r.packed /\ packs) => BitsOf(r, k) = size
  BY DEF BitsOf, BitSizeOfDescriptor
<1>3. /\ r.packed /\ k = 1 /\ packs => f \in {one, two, three}
      /\ r.packed /\ k = 1 /\ ~packs => f \in {none, after}
      /\ ~(r.packed /\ k = 1) /\ r.packed /\ packs => most # 0 /\ f \in {diff}
      /\ ~(r.packed /\ k = 1) /\ ~(r.packed /\ packs) => f \in {alone}
  BY <1>1 DEF FieldsOf
<1> HIDE DEF p, size, all, delta, most, width, v, packs
<1>4. /\ one.at = p /\ one.field.kind = "flag" /\ two.at = p + 1 /\ two.field.kind = "number"
      /\ three.at = p + 1 + MAX_BIT_NUMBER_BITS /\ three.field.kind = "element"
      /\ none.at = p /\ none.field.kind = "flag" /\ after.at = p + 1 /\ after.field.kind = "element"
      /\ diff.at = p /\ diff.field.kind = "delta" /\ alone.at = p /\ alone.field.kind = "element"
  BY DEF Put, Field
<1> HIDE DEF one, two, three, none, after, diff, alone
<1> SUFFICES /\ f.at \in Nat /\ p =< f.at
             /\ f.field.kind # "number" => f.at < all
             /\ f.field.kind = "number" => k = 1
             /\ f.field.kind # "length"
  BY DEF p, all
<1>5. CASE r.packed /\ k = 1 /\ packs
  <2>1. all = p + (1 + MAX_BIT_NUMBER_BITS + size) /\ f \in {one, two, three}
    BY <1>1, <1>2, <1>3, <1>5
  <2>2. p + 1 \in Nat /\ p + 1 + MAX_BIT_NUMBER_BITS \in Nat /\ p =< p + 1 /\ p =< p + 1 + MAX_BIT_NUMBER_BITS
        /\ p < all /\ p + 1 + MAX_BIT_NUMBER_BITS < all
    BY <1>1, <2>1
  <2>3. CASE f = one
    BY <1>1, <1>4, <2>2, <2>3
  <2>4. CASE f = two
    BY <1>1, <1>4, <1>5, <2>2, <2>4
  <2>5. CASE f = three
    BY <1>1, <1>4, <2>2, <2>5
  <2> QED
    BY <2>1, <2>3, <2>4, <2>5
<1>6. CASE r.packed /\ k = 1 /\ ~packs
  <2>1. all = p + (1 + size) /\ f \in {none, after}
    BY <1>1, <1>2, <1>3, <1>6
  <2>2. p + 1 \in Nat /\ p =< p + 1 /\ p < all /\ p + 1 < all
    BY <1>1, <2>1
  <2>3. CASE f = none
    BY <1>1, <1>4, <2>2, <2>3
  <2>4. CASE f = after
    BY <1>1, <1>4, <2>2, <2>4
  <2> QED
    BY <2>1, <2>3, <2>4
<1>7. CASE ~(r.packed /\ k = 1) /\ r.packed /\ packs
  <2>1. all = p + width /\ f = diff /\ width > 0
    BY <1>1, <1>2, <1>3, <1>7
  <2> QED
    BY <1>1, <1>4, <2>1
<1>8. CASE ~(r.packed /\ k = 1) /\ ~(r.packed /\ packs)
  <2>1. all = p + size /\ f = alone
    BY <1>1, <1>2, <1>3, <1>8
  <2> QED
    BY <1>1, <1>4, <2>1
<1> QED
  BY <1>5, <1>6, <1>7, <1>8

LEMMA FieldsDiffer ==
  ASSUME WidthAssumption, NEW r, NEW k, NEW f \in FieldsOf(r, k), NEW g \in FieldsOf(r, k),
         f.field.kind = g.field.kind
  PROVE  f = g
  BY DEF FieldsOf, Put, Field

\* No two fields of a kind are at the same place.
LEMMA OneField ==
  ASSUME WidthAssumption, NEW r, Sensible(r), NEW f \in Coded(r, Len(r.array)), NEW g \in Coded(r, Len(r.array)),
         f.field.kind = g.field.kind, f.at = g.at
  PROVE  f = g
<1>1. \A h \in LengthFields(r) : h.field.kind = "length"
  BY DEF LengthFields, Put, Field
<1>2. \A k \in 1..Len(r.array) : \A h \in FieldsOf(r, k) : h.field.kind # "length"
  BY FieldInside
<1>3. CASE f \in LengthFields(r)
  <2>1. f.field.kind = "length" /\ g.field.kind = "length"
    BY <1>1, <1>3
  <2>2. g \in LengthFields(r)
    BY <1>2, <2>1 DEF Coded
  <2> QED
    BY <1>3, <2>2 DEF LengthFields
<1>4. CASE f \notin LengthFields(r)
  <2>1. PICK k \in 1..Len(r.array) : f \in FieldsOf(r, k)
    BY <1>4 DEF Coded
  <2>2. g.field.kind # "length"
    BY <1>2, <2>1
  <2>3. PICK j \in 1..Len(r.array) : g \in FieldsOf(r, j)
    BY <1>1, <2>2 DEF Coded
  <2>4. Len(r.array) \in Nat
    BY DEF Sensible
  <2>5. k = j
    <3>1. CASE f.field.kind = "number"
      <4>1. \A i \in 1..Len(r.array) : \A h \in FieldsOf(r, i) : h.field.kind = "number" => i = 1
        BY FieldInside
      <4> QED
        BY <2>1, <2>3, <3>1, <4>1
    <3>2. CASE f.field.kind # "number"
      <4>1. f.at \in Nat /\ PlaceOf(r, k) =< f.at /\ f.at < Ends(r)[k] /\ PlaceOf(r, j) =< f.at /\ f.at < Ends(r)[j]
        BY <2>1, <2>3, <3>2, FieldInside
      <4>2. CASE k < j
        <5>1. k \in 0..Len(r.array) /\ j - 1 \in 0..Len(r.array) /\ k =< j - 1
          BY <2>4, <4>2
        <5>2. Ends(r)[k] =< Ends(r)[j - 1] /\ Ends(r)[k] \in Nat /\ Ends(r)[j - 1] \in Nat
          BY <5>1, EndsGrow
        <5>3. Ends(r)[j - 1] =< PlaceOf(r, j) /\ PlaceOf(r, j) \in Nat
          BY PlaceIs
        <5> QED
          BY <4>1, <5>2, <5>3
      <4>3. CASE j < k
        <5>1. j \in 0..Len(r.array) /\ k - 1 \in 0..Len(r.array) /\ j =< k - 1
          BY <2>4, <4>3
        <5>2. Ends(r)[j] =< Ends(r)[k - 1] /\ Ends(r)[j] \in Nat /\ Ends(r)[k - 1] \in Nat
          BY <5>1, EndsGrow
        <5>3. Ends(r)[k - 1] =< PlaceOf(r, k) /\ PlaceOf(r, k) \in Nat
          BY PlaceIs
        <5> QED
          BY <4>1, <5>2, <5>3
      <4> QED
        BY <2>4, <4>2, <4>3
    <3> QED
      BY <3>1, <3>2
  <2> QED
    BY <2>1, <2>3, <2>5, FieldsDiffer
<1> QED
  BY <1>3, <1>4

\* The reader finds what was written, at its place.
LEMMA FieldFound ==
  ASSUME WidthAssumption, NEW r, Sensible(r), Range(stream) = Coded(r, Len(r.array)),
         NEW f \in Coded(r, Len(r.array)), NEW kind, NEW p, f.field.kind = kind, f.at = p
  PROVE  FieldAt(kind, p) = f.field
<1> DEFINE S == FieldsAt(kind, p)
           found == CHOOSE g \in S : TRUE
<1>1. f \in S
  BY DEF FieldsAt
<1>2. \A g \in S : g = f
  BY OneField DEF FieldsAt
<1> HIDE DEF S
<1>3. found = f
  BY <1>1, <1>2
<1>4. S # {}
  BY <1>1
<1>5. FieldAt(kind, p) = IF S = {} THEN Field("none", 0, 1) ELSE found.field
  BY DEF FieldAt, S
<1> QED
  BY <1>3, <1>4, <1>5
-------------------------------------------------------------------------------
(* Fields behind each other.                                               *)

\* The n fields of s are at the places at, from p on.
IsPlaced(at, s, n, p) ==
  /\ at \in [1..n -> Nat]
  /\ n > 0 => at[1] = p
  /\ \A k \in 2..n : at[k] = at[k - 1] + s[k - 1].bits
  /\ Placed(s, p) = [k \in 1..n |-> Put(at[k], s[k])]

LEMMA PlacedIs ==
  ASSUME NEW s, NEW n \in Nat, Len(s) = n, \A k \in 1..n : s[k].bits \in Nat, NEW p \in Nat
  PROVE  \E at : IsPlaced(at, s, n, p)
<1> DEFINE last == IF n = 0 THEN 0 ELSE n - 1
           go == [k \in 1..last |-> [x \in Nat |-> x + s[k].bits]]
<1>1. last \in Nat /\ \A k \in 1..last : k \in 1..n
  OBVIOUS
<1>2. go \in [1..last -> [Nat -> Nat]] /\ \A k \in 1..last, x \in Nat : go[k][x] = x + s[k].bits
  BY <1>1
<1>3. \A k \in 2..n : k - 1 \in 1..last /\ (k - 1) - 1 \in 0..last
  OBVIOUS
<1>4. \A k \in 1..n : k - 1 \in 0..last /\ (k # 1 => k \in 2..n)
  OBVIOUS
<1> HIDE DEF go, last
<1>5. PICK f : Recursive(f, Nat, p, go, last)
  <2>1. last \in Nat /\ p \in Nat /\ go \in [1..last -> [Nat -> Nat]]
    BY <1>1, <1>2
  <2> QED
    BY <2>1, FiniteRecursion
<1>6. \A k \in 1..last : k - 1 \in 0..last /\ f[k - 1] \in Nat
  BY <1>1, <1>5 DEF Recursive
<1>7. \A k \in 1..last : f[k] = f[k - 1] + s[k].bits
  BY <1>2, <1>5, <1>6 DEF Recursive
<1> DEFINE is(g) == g = [k \in 1..n |-> IF k = 1 THEN p ELSE g[k - 1] + s[k - 1].bits]
           of == [k \in 1..n |-> f[k - 1]]
<1>8. is(of)
  <2>1. ASSUME NEW k \in 1..n PROVE of[k] = IF k = 1 THEN p ELSE of[k - 1] + s[k - 1].bits
    <3>1. CASE k = 1
      BY <1>5, <3>1 DEF Recursive
    <3>2. CASE k # 1
      <4>1. k \in 2..n /\ k - 1 \in 1..last /\ k - 1 \in 1..n
        BY <1>1, <1>3, <1>4, <3>2
      <4>2. f[k - 1] = f[(k - 1) - 1] + s[k - 1].bits
        BY <1>7, <4>1
      <4> QED
        BY <3>2, <4>1, <4>2
    <3> QED
      BY <3>1, <3>2
  <2> QED
    BY <2>1
<1> DEFINE at == CHOOSE g : is(g)
<1>9. is(at)
  <2> HIDE DEF is, of
  <2> QED
    BY <1>8
<1>10. Placed(s, p) = [k \in 1..n |-> [at |-> at[k], field |-> s[k]]]
  BY DEF Placed
<1> HIDE DEF at
<1>11. /\ n > 0 => at[1] = p
       /\ \A k \in 2..n : at[k] = at[k - 1] + s[k - 1].bits
  <2>1. \A k \in 2..n : k \in 1..n /\ k # 1
    OBVIOUS
  <2>2. n > 0 => 1 \in 1..n
    OBVIOUS
  <2> QED
    BY <1>9, <2>1, <2>2
<1>12. at \in [1..n -> Nat]
  <2> DEFINE T == {k \in Nat : k + 1 =< n => at[k + 1] \in Nat}
  <2>1. 0 \in T
    BY <1>11
  <2>2. \A k \in T : k + 1 \in T
    <3>1. ASSUME NEW k \in T PROVE k + 1 \in T
      <4> SUFFICES ASSUME (k + 1) + 1 =< n PROVE at[(k + 1) + 1] \in Nat
        OBVIOUS
      <4>1. (k + 1) + 1 \in 2..n /\ ((k + 1) + 1) - 1 = k + 1 /\ k + 1 =< n /\ k + 1 \in 1..n
        OBVIOUS
      <4>2. at[k + 1] \in Nat /\ s[k + 1].bits \in Nat
        BY <4>1
      <4>3. at[(k + 1) + 1] = at[k + 1] + s[k + 1].bits
        BY <1>11, <4>1
      <4> QED
        BY <4>2, <4>3
    <3> QED
      BY <3>1
  <2> HIDE DEF T
  <2>3. T = Nat
    <3>1. T \subseteq Nat
      BY DEF T
    <3> QED
      BY <3>1, <2>1, <2>2, SetInduction
  <2>4. \A k \in 1..n : at[k] \in Nat
    <3>1. ASSUME NEW k \in 1..n PROVE at[k] \in Nat
      <4>1. k - 1 \in T /\ (k - 1) + 1 = k
        BY <2>3
      <4> QED
        BY <4>1 DEF T
    <3> QED
      BY <3>1
  <2> QED
    BY <1>9, <2>4
<1>13. IsPlaced(at, s, n, p)
  BY <1>10, <1>11, <1>12 DEF Put, IsPlaced
<1> QED
  BY <1>13

LEMMA PlacedNone ==
  ASSUME NEW p \in Nat
  PROVE  Placed(<<>>, p) = <<>> /\ EndOf(<<>>, p) = p
<1>1. Placed(<<>>, p) = <<>>
  BY DEF Placed
<1> QED
  BY <1>1 DEF EndOf

LEMMA PlacedOne ==
  ASSUME NEW p \in Nat, NEW f, f.bits \in Nat
  PROVE  Placed(<<f>>, p) = <<Put(p, f)>> /\ EndOf(<<f>>, p) = p + f.bits
<1> DEFINE s == <<f>>
           n == 1
<1>0. n \in Nat /\ n > 0 /\ Len(s) = n /\ \A k \in 1..n : s[k].bits \in Nat
  OBVIOUS
<1> HIDE DEF s, n
<1>9. PICK at : IsPlaced(at, s, n, p)
  BY <1>0, PlacedIs
<1>1. /\ at[1] = p
      /\ Placed(<<f>>, p) = [k \in 1..1 |-> Put(at[k], <<f>>[k])]
  BY <1>0, <1>9 DEF n, s, IsPlaced
<1>2. Placed(<<f>>, p) = <<Put(p, f)>>
  BY <1>1
<1>3. Last(<<f>>) = f /\ Last(<<Put(p, f)>>) = Put(p, f) /\ <<f>> # <<>>
  BY DEF Last
<1>4. EndOf(<<f>>, p) = p + f.bits
  BY <1>2, <1>3 DEF EndOf, Put
<1> QED
  BY <1>2, <1>4

LEMMA PlacedTwo ==
  ASSUME NEW p \in Nat, NEW f, f.bits \in Nat, NEW g, g.bits \in Nat
  PROVE  /\ Placed(<<f, g>>, p) = <<Put(p, f), Put(p + f.bits, g)>>
         /\ EndOf(<<f, g>>, p) = p + f.bits + g.bits
<1> DEFINE s == <<f, g>>
           n == 2
<1>0. n \in Nat /\ n > 0 /\ Len(s) = n /\ \A k \in 1..n : s[k].bits \in Nat
  OBVIOUS
<1> HIDE DEF s, n
<1>9. PICK at : IsPlaced(at, s, n, p)
  BY <1>0, PlacedIs
<1>1. /\ at[1] = p /\ at[2] = p + f.bits
      /\ Placed(<<f, g>>, p) = [k \in 1..2 |-> Put(at[k], <<f, g>>[k])]
  BY <1>0, <1>9 DEF n, s, IsPlaced
<1>2. Placed(<<f, g>>, p) = <<Put(p, f), Put(p + f.bits, g)>>
  BY <1>1
<1>3. Last(<<f, g>>) = g /\ Last(<<Put(p, f), Put(p + f.bits, g)>>) = Put(p + f.bits, g) /\ <<f, g>> # <<>>
  BY DEF Last
<1>4. EndOf(<<f, g>>, p) = p + f.bits + g.bits
  BY <1>2, <1>3 DEF EndOf, Put
<1> QED
  BY <1>2, <1>4

LEMMA PlacedThree ==
  ASSUME NEW p \in Nat, NEW f, f.bits \in Nat, NEW g, g.bits \in Nat, NEW h, h.bits \in Nat
  PROVE  /\ Placed(<<f, g, h>>, p) = <<Put(p, f), Put(p + f.bits, g), Put(p + f.bits + g.bits, h)>>
         /\ EndOf(<<f, g, h>>, p) = p + f.bits + g.bits + h.bits
<1> DEFINE s == <<f, g, h>>
           n == 3
<1>0. n \in Nat /\ n > 0 /\ Len(s) = n /\ \A k \in 1..n : s[k].bits \in Nat
  OBVIOUS
<1> HIDE DEF s, n
<1>9. PICK at : IsPlaced(at, s, n, p)
  BY <1>0, PlacedIs
<1>1. /\ at[1] = p /\ at[2] = p + f.bits /\ at[3] = p + f.bits + g.bits
      /\ Placed(<<f, g, h>>, p) = [k \in 1..3 |-> Put(at[k], <<f, g, h>>[k])]
  <2>1. 2 \in 2..n /\ 3 \in 2..n
    BY DEF n
  <2>2. at[2] = at[1] + s[1].bits /\ at[3] = at[2] + s[2].bits
    BY <1>9, <2>1 DEF IsPlaced
  <2>3. s[1] = f /\ s[2] = g
    BY DEF s
  <2>4. at[1] = p
    BY <1>0, <1>9 DEF IsPlaced
  <2>5. Placed(<<f, g, h>>, p) = [k \in 1..3 |-> Put(at[k], <<f, g, h>>[k])]
    BY <1>9 DEF s, n, IsPlaced
  <2> QED
    BY <2>2, <2>3, <2>4, <2>5
<1>2. Placed(<<f, g, h>>, p) = <<Put(p, f), Put(p + f.bits, g), Put(p + f.bits + g.bits, h)>>
  BY <1>1
<1>3. Last(<<f, g, h>>) = h /\ <<f, g, h>> # <<>>
      /\ Last(<<Put(p, f), Put(p + f.bits, g), Put(p + f.bits + g.bits, h)>>) = Put(p + f.bits + g.bits, h)
  BY DEF Last
<1>4. Put(p + f.bits + g.bits, h).at = p + f.bits + g.bits
  BY DEF Put
<1>5. EndOf(<<f, g, h>>, p) = Last(Placed(<<f, g, h>>, p)).at + Last(<<f, g, h>>).bits
  BY <1>3 DEF EndOf
<1> DEFINE l == Last(<<f, g, h>>)
           m == Last(Placed(<<f, g, h>>, p))
<1>6. l = h /\ m = Put(p + f.bits + g.bits, h)
  BY <1>2, <1>3
<1> HIDE DEF l, m
<1>7. EndOf(<<f, g, h>>, p) = m.at + l.bits
  BY <1>5 DEF l, m
<1> QED
  BY <1>2, <1>4, <1>6, <1>7
-------------------------------------------------------------------------------
(* What one element does.                                                  *)

\* The contexts behind i elements of bitSizeOf and initializeOffsets, and of write.
MeasuringContext(r, i) ==
  IF ~r.packed THEN NewContext ELSE IF i = 0 THEN InitOf(r.element, r.array) ELSE FinalOf(r)

WritingContext(r, i) ==
  IF ~r.packed THEN NewContext
  ELSE IF i = 0 THEN InitOf(r.element, r.array)
  ELSE [FinalOf(r) EXCEPT !.previousElement = ToWord(r.array[i])]

LEMMA FirstContextIs ==
  ASSUME WidthAssumption, NEW r, Sensible(r)
  PROVE  /\ InitOf(r.element, r.array) \in Contexts /\ ~InitOf(r.element, r.array).processingStarted
         /\ FinishInit(Started(InitOf(r.element, r.array))) = FinalOf(r)
  BY InitOfIs DEF Measured, Sensible, FinalOf, Final

LEMMA ContextsAre ==
  ASSUME WidthAssumption, NEW r, Sensible(r), NEW i \in 0..Len(r.array)
  PROVE  MeasuringContext(r, i) \in Contexts /\ WritingContext(r, i) \in Contexts
<1>1. FinalOf(r) \in Contexts /\ InitOf(r.element, r.array) \in Contexts /\ NewContext \in Contexts
  BY FinalOfIs, FirstContextIs, NewContextIs
<1>2. CASE i = 0
  BY <1>1, <1>2 DEF MeasuringContext, WritingContext
<1>3. CASE i # 0
  <2>1. i \in 1..Len(r.array)
    BY <1>3
  <2>2. ToWord(r.array[i]) \in 0..(Pow2[WordBits] - 1)
    BY <2>1, BitsAre, ValueOfToWord DEF Sensible
  <2>3. [FinalOf(r) EXCEPT !.previousElement = ToWord(r.array[i])] \in Contexts
    BY <1>1, <2>2 DEF Contexts
  <2> QED
    BY <1>1, <1>3, <2>3 DEF MeasuringContext, WritingContext
<1> QED
  BY <1>2, <1>3

\* bitSizeOf of an element of a packed array.
LEMMA MeasureIs ==
  ASSUME WidthAssumption, NEW r, Sensible(r), r.packed, NEW k \in 1..Len(r.array)
  PROVE  BitSizeOf(r.element, MeasuringContext(r, k - 1), r.array[k]) = [context |-> FinalOf(r), size |-> BitsOf(r, k)]
<1> DEFINE c == MeasuringContext(r, k - 1)
           final == FinalOf(r)
<1>1. CASE k = 1
  <2>1. c = InitOf(r.element, r.array)
    BY <1>1 DEF MeasuringContext
  <2>2. ~c.processingStarted /\ FinishInit(Started(c)) = final
    BY <2>1, FirstContextIs
  <2>3. BitsOf(r, k) = BitSizeOfDescriptor(final) + ElementBitSize(r.element, r.array[k])
    BY <1>1 DEF BitsOf, SizeOf
  <2> HIDE DEF c, final
  <2>4. BitSizeOf(r.element, c, r.array[k])
          = [context |-> final, size |-> BitSizeOfDescriptor(final) + ElementBitSize(r.element, r.array[k])]
    BY <2>2 DEF BitSizeOf
  <2> QED
    BY <2>3, <2>4 DEF c, final
<1>2. CASE k # 1
  <2>1. c = final
    BY <1>2 DEF MeasuringContext
  <2>2. final.processingStarted
    BY FinalOfIs
  <2>3. BitsOf(r, k) = IF final.isPacked THEN DeltaBits(final) ELSE ElementBitSize(r.element, r.array[k])
    BY <1>2 DEF BitsOf, SizeOf
  <2> HIDE DEF c, final
  <2>4. BitSizeOf(r.element, c, r.array[k])
          = [context |-> final, size |-> IF final.isPacked THEN DeltaBits(final)
                                         ELSE ElementBitSize(r.element, r.array[k])]
    BY <2>1, <2>2 DEF BitSizeOf
  <2> QED
    BY <2>3, <2>4 DEF c, final
<1> QED
  BY <1>1, <1>2

\* The fields of a sequence.
LEMMA RangeIs ==
  /\ \A x : Range(<<x>>) = {x} /\ <<x>> \in Seq({x})
  /\ \A x, y : Range(<<x, y>>) = {x, y} /\ <<x, y>> \in Seq({x, y})
  /\ \A x, y, z : Range(<<x, y, z>>) = {x, y, z} /\ <<x, y, z>> \in Seq({x, y, z})
  /\ Range(<<>>) = {} /\ <<>> \in Seq({})
<1>1. \A x : Range(<<x>>) = {x} /\ <<x>> \in Seq({x})
  BY DEF Range
<1>2. ASSUME NEW x, NEW y PROVE Range(<<x, y>>) = {x, y} /\ <<x, y>> \in Seq({x, y})
  <2>1. DOMAIN <<x, y>> = {1, 2} /\ <<x, y>>[1] = x /\ <<x, y>>[2] = y
    OBVIOUS
  <2> QED
    BY <2>1 DEF Range
<1>3. ASSUME NEW x, NEW y, NEW z PROVE Range(<<x, y, z>>) = {x, y, z} /\ <<x, y, z>> \in Seq({x, y, z})
  <2>1. DOMAIN <<x, y, z>> = {1, 2, 3} /\ <<x, y, z>>[1] = x /\ <<x, y, z>>[2] = y /\ <<x, y, z>>[3] = z
    OBVIOUS
  <2>2. Range(<<x, y, z>>) = {x, y, z}
    BY <2>1 DEF Range
  <2>3. <<x, y, z>> \in Seq({x, y, z})
    OBVIOUS
  <2> QED
    BY <2>2, <2>3
<1>4. Range(<<>>) = {} /\ <<>> \in Seq({})
  BY DEF Range
<1> QED
  BY <1>1, <1>2, <1>3, <1>4

LEMMA BothAre ==
  ASSUME NEW S, NEW s \in Seq(S), NEW t \in Seq(S)
  PROVE  /\ s \o t \in Seq(S) /\ Len(s \o t) = Len(s) + Len(t)
         /\ \A i \in 1..(Len(s) + Len(t)) : (s \o t)[i] = IF i =< Len(s) THEN s[i] ELSE t[i - Len(s)]
  OBVIOUS

LEMMA SameSequence ==
  ASSUME NEW S, NEW s \in Seq(S), NEW t \in Seq(S), Len(s) = Len(t), \A i \in 1..Len(t) : s[i] = t[i]
  PROVE s = t
  OBVIOUS

LEMMA BothIs ==
  ASSUME NEW S, NEW s \in Seq(S), NEW t \in Seq(S), NEW u \in Seq(S),
   Len(u) = Len(s) + Len(t), \A i \in 1..Len(s) : u[i] = s[i], \A i \in 1..Len(t) : u[Len(s) + i] = t[i]
  PROVE s \o t = u
<1>1. s \o t \in Seq(S) /\ Len(s \o t) = Len(s) + Len(t)
         /\ \A i \in 1..(Len(s) + Len(t)) : (s \o t)[i] = IF i =< Len(s) THEN s[i] ELSE t[i - Len(s)]
  BY BothAre, Zenon
<1>2. \A i \in 1..(Len(s) + Len(t)) : (s \o t)[i] = u[i]
  <2> TAKE i \in 1..(Len(s) + Len(t))
  <2>1. Len(s) \in Nat /\ Len(t) \in Nat OBVIOUS
  <2>2. CASE i =< Len(s)
    BY <2>1, <2>2, <1>1
  <2>3. CASE i > Len(s)
    <3>1. i - Len(s) \in 1..Len(t) /\ Len(s) + (i - Len(s)) = i
       BY <2>1, <2>3
    <3>2. u[Len(s) + (i - Len(s))] = t[i - Len(s)]
       BY <3>1, Zenon
    <3> QED BY <3>1, <3>2, <2>1, <2>3, <1>1
  <2> QED BY <2>1, <2>2, <2>3
<1>3. Len(s \o t) = Len(u) /\ \A i \in 1..Len(u) : (s \o t)[i] = u[i]
  BY <1>1, <1>2, Zenon
<1> QED
  BY <1>1, <1>3, SameSequence, Zenon

LEMMA Behind ==
  /\ \A x, y : <<x>> \o <<y>> = <<x, y>>
  /\ \A x, y, z : <<x, y>> \o <<z>> = <<x, y, z>>
<1>1. ASSUME NEW x, NEW y PROVE <<x>> \o <<y>> = <<x, y>>
  <2> DEFINE S == {x, y}
             s == <<x>>
             t == <<y>>
             u == <<x, y>>
  <2>3. s \in Seq(S) /\ t \in Seq(S) /\ u \in Seq(S) /\ Len(s) = 1 /\ Len(t) = 1 /\ Len(u) = 2
        /\ s[1] = x /\ t[1] = y /\ u[1] = x /\ u[2] = y
    OBVIOUS
  <2> HIDE DEF s, t, S, u
  <2>1. s \in Seq(S) /\ t \in Seq(S) /\ u \in Seq(S) /\ Len(u) = Len(s) + Len(t)
        /\ (\A i \in 1..Len(s) : u[i] = s[i]) /\ (\A i \in 1..Len(t) : u[Len(s) + i] = t[i])
    BY <2>3
  <2>2. s \o t = u
    BY <2>1, BothIs, Zenon
  <2> QED
    BY <2>2 DEF s, t, u
<1>2. ASSUME NEW x, NEW y, NEW z PROVE <<x, y>> \o <<z>> = <<x, y, z>>
  <2> DEFINE S == {x, y, z}
             s == <<x, y>>
             t == <<z>>
             u == <<x, y, z>>
  <2>3. s \in Seq(S) /\ t \in Seq(S) /\ u \in Seq(S) /\ Len(s) = 2 /\ Len(t) = 1 /\ Len(u) = 3
        /\ s[1] = x /\ s[2] = y /\ t[1] = z /\ u[1] = x /\ u[2] = y /\ u[3] = z
    OBVIOUS
  <2> HIDE DEF s, t, S, u
  <2>1. s \in Seq(S) /\ t \in Seq(S) /\ u \in Seq(S) /\ Len(u) = Len(s) + Len(t)
        /\ (\A i \in 1..Len(s) : u[i] = s[i]) /\ (\A i \in 1..Len(t) : u[Len(s) + i] = t[i])
    BY <2>3
  <2>2. s \o t = u
    BY <2>1, BothIs, Zenon
  <2> QED
    BY <2>2 DEF s, t, u
<1> QED
  BY <1>1, <1>2

LEMMA RangeOfBoth ==
  ASSUME NEW S, NEW T, NEW s \in Seq(S), NEW t \in Seq(T)
  PROVE  s \o t \in Seq(S \union T) /\ Range(s \o t) = Range(s) \union Range(t)
<1>1. Len(s) \in Nat /\ Len(t) \in Nat /\ Len(s \o t) = Len(s) + Len(t)
      /\ DOMAIN s = 1..Len(s) /\ DOMAIN t = 1..Len(t) /\ DOMAIN (s \o t) = 1..(Len(s) + Len(t))
  OBVIOUS
<1>2. \A i \in 1..(Len(s) + Len(t)) : (s \o t)[i] = IF i =< Len(s) THEN s[i] ELSE t[i - Len(s)]
  OBVIOUS
<1>3. s \o t \in Seq(S \union T)
  <2>1. s \in Seq(S \union T) /\ t \in Seq(S \union T)
    OBVIOUS
  <2> QED
    BY <2>1
<1>4. ASSUME NEW x \in Range(s \o t) PROVE x \in Range(s) \union Range(t)
  <2>1. PICK i \in 1..(Len(s) + Len(t)) : x = (s \o t)[i]
    BY <1>1 DEF Range
  <2>2. CASE i =< Len(s)
    <3>1. i \in DOMAIN s /\ x = s[i]
      BY <1>1, <1>2, <2>1, <2>2
    <3> QED
      BY <3>1 DEF Range
  <2>3. CASE ~(i =< Len(s))
    <3>1. i - Len(s) \in DOMAIN t /\ x = t[i - Len(s)]
      BY <1>1, <1>2, <2>1, <2>3
    <3> QED
      BY <3>1 DEF Range
  <2> QED
    BY <2>2, <2>3
<1>5. ASSUME NEW x \in Range(s) PROVE x \in Range(s \o t)
  <2>1. PICK i \in 1..Len(s) : x = s[i]
    BY <1>1 DEF Range
  <2>2. i \in DOMAIN (s \o t) /\ x = (s \o t)[i]
    BY <1>1, <1>2, <2>1
  <2> QED
    BY <2>2 DEF Range
<1>6. ASSUME NEW x \in Range(t) PROVE x \in Range(s \o t)
  <2>1. PICK i \in 1..Len(t) : x = t[i]
    BY <1>1 DEF Range
  <2>2. i + Len(s) \in 1..(Len(s) + Len(t)) /\ ~(i + Len(s) =< Len(s)) /\ (i + Len(s)) - Len(s) = i
    BY <1>1
  <2>3. i + Len(s) \in DOMAIN (s \o t) /\ x = (s \o t)[i + Len(s)]
    BY <1>1, <1>2, <2>1, <2>2
  <2> QED
    BY <2>3 DEF Range
<1> QED
  BY <1>3, <1>4, <1>5, <1>6

\* What writing of element k gives, in a context c.
Written(r, k, c) ==
  IF r.packed THEN Write(r.element, c, r.array[k])
  ELSE [context |-> c, refused |-> FALSE, fields |-> <<Field("element", r.array[k], SizeOf(r, k))>>]

\* The fields s are those of element k, at its place.
AreFields(s, r, k) ==
  /\ EndOf(s, PlaceOf(r, k)) = Ends(r)[k]
  /\ Range(Placed(s, PlaceOf(r, k))) = FieldsOf(r, k)
  /\ Placed(s, PlaceOf(r, k)) \in Seq(FieldsOf(r, k))

\* A descriptor and the first element.
LEMMA FirstFields ==
  ASSUME WidthAssumption, NEW r, Sensible(r), r.packed, NEW k \in 1..Len(r.array), k = 1
  PROVE  AreFields(Descriptor(FinalOf(r)) \o <<Field("element", r.array[k], SizeOf(r, k))>>, r, k)
<1> DEFINE c == FinalOf(r)
           p == PlaceOf(r, k)
           size == SizeOf(r, k)
           last == Field("element", r.array[k], size)
           most == c.maxBitNumber
           one == Field("flag", 1, 1)
           none == Field("flag", 0, 1)
           two == Field("number", most, MAX_BIT_NUMBER_BITS)
           s == Descriptor(c) \o <<last>>
<1>1. p \in Nat /\ Ends(r)[k] = p + BitsOf(r, k) /\ size \in Nat /\ MAX_BIT_NUMBER_BITS \in Nat
  BY PlaceIs, BitsAre DEF WidthAssumption
<1>2. BitsOf(r, k) = BitSizeOfDescriptor(c) + size
  BY DEF BitsOf
<1>3. last.bits = size /\ one.bits = 1 /\ none.bits = 1 /\ two.bits = MAX_BIT_NUMBER_BITS
  BY DEF Field
<1>4. CASE c.isPacked
  <2>1. s = <<one, two, last>>
    <3>1. Descriptor(c) = <<one, two>>
      BY <1>4 DEF Descriptor
    <3> HIDE DEF one, two, last, c
    <3> QED
      BY <3>1, Behind DEF s
  <2>2. FieldsOf(r, k) = {Put(p, one), Put(p + 1, two), Put(p + 1 + MAX_BIT_NUMBER_BITS, last)}
    BY <1>4 DEF FieldsOf
  <2>3. BitsOf(r, k) = 1 + MAX_BIT_NUMBER_BITS + size
    BY <1>2, <1>4 DEF BitSizeOfDescriptor
  <2> HIDE DEF c, p, size, last, one, two, s
  <2>4. /\ Placed(s, p) = <<Put(p, one), Put(p + 1, two), Put(p + 1 + MAX_BIT_NUMBER_BITS, last)>>
        /\ EndOf(s, p) = p + 1 + MAX_BIT_NUMBER_BITS + size
    <3>1. /\ Placed(<<one, two, last>>, p)
               = <<Put(p, one), Put(p + one.bits, two), Put(p + one.bits + two.bits, last)>>
          /\ EndOf(<<one, two, last>>, p) = p + one.bits + two.bits + last.bits
      <4>1. one.bits \in Nat /\ two.bits \in Nat /\ last.bits \in Nat
        BY <1>1, <1>3
      <4> QED
        BY <1>1, <4>1, PlacedThree
    <3> QED
      BY <1>3, <2>1, <3>1
  <2>5. EndOf(s, p) = Ends(r)[k]
    BY <1>1, <2>3, <2>4
  <2>6. Range(Placed(s, p)) = FieldsOf(r, k) /\ Placed(s, p) \in Seq(FieldsOf(r, k))
    <3> DEFINE x == Put(p, one)
               y == Put(p + 1, two)
               z == Put(p + 1 + MAX_BIT_NUMBER_BITS, last)
    <3>1. Placed(s, p) = <<x, y, z>> /\ FieldsOf(r, k) = {x, y, z}
      BY <2>2, <2>4
    <3> HIDE DEF x, y, z
    <3>2. Range(<<x, y, z>>) = {x, y, z} /\ <<x, y, z>> \in Seq({x, y, z})
      BY RangeIs
    <3> QED
      BY ONLY <3>1, <3>2
  <2> QED
    BY <2>5, <2>6 DEF AreFields, s, p, last, size, c
<1>5. CASE ~c.isPacked
  <2>1. s = <<none, last>>
    <3>1. Descriptor(c) = <<none>>
      BY <1>5 DEF Descriptor
    <3> HIDE DEF none, last, c
    <3> QED
      BY <3>1, Behind DEF s
  <2>2. FieldsOf(r, k) = {Put(p, none), Put(p + 1, last)}
    BY <1>5 DEF FieldsOf
  <2>3. BitsOf(r, k) = 1 + size
    BY <1>2, <1>5 DEF BitSizeOfDescriptor
  <2> HIDE DEF c, p, size, last, none, s
  <2>4. Placed(s, p) = <<Put(p, none), Put(p + 1, last)>> /\ EndOf(s, p) = p + 1 + size
    <3>1. /\ Placed(<<none, last>>, p) = <<Put(p, none), Put(p + none.bits, last)>>
          /\ EndOf(<<none, last>>, p) = p + none.bits + last.bits
      <4>1. none.bits \in Nat /\ last.bits \in Nat
        BY <1>1, <1>3
      <4> QED
        BY <1>1, <4>1, PlacedTwo
    <3> QED
      BY <1>3, <2>1, <3>1
  <2>5. EndOf(s, p) = Ends(r)[k]
    BY <1>1, <2>3, <2>4
  <2>6. Range(Placed(s, p)) = FieldsOf(r, k) /\ Placed(s, p) \in Seq(FieldsOf(r, k))
    <3> DEFINE x == Put(p, none)
               y == Put(p + 1, last)
    <3>1. Placed(s, p) = <<x, y>> /\ FieldsOf(r, k) = {x, y}
      BY <2>2, <2>4
    <3> HIDE DEF x, y
    <3>2. Range(<<x, y>>) = {x, y} /\ <<x, y>> \in Seq({x, y})
      BY RangeIs
    <3> QED
      BY ONLY <3>1, <3>2
  <2> QED
    BY <2>5, <2>6 DEF AreFields, s, p, last, size, c
<1> QED
  BY <1>4, <1>5

\* An element that is written as it is, without a descriptor.
LEMMA PlainFields ==
  ASSUME WidthAssumption, NEW r, Sensible(r), NEW k \in 1..Len(r.array),
         ~(r.packed /\ k = 1), ~(r.packed /\ FinalOf(r).isPacked)
  PROVE  AreFields(<<Field("element", r.array[k], SizeOf(r, k))>>, r, k)
<1> DEFINE p == PlaceOf(r, k)
           size == SizeOf(r, k)
           field == Field("element", r.array[k], size)
<1>1. p \in Nat /\ Ends(r)[k] = p + size /\ size \in Nat
  BY PlaceIs, BitsAre DEF BitsOf
<1>2. field.bits = size
  BY DEF Field
<1>3. FieldsOf(r, k) = {Put(p, field)}
  BY DEF FieldsOf
<1> HIDE DEF p, size, field
<1>4. Placed(<<field>>, p) = <<Put(p, field)>> /\ EndOf(<<field>>, p) = p + size
  BY <1>1, <1>2, PlacedOne
<1>5. Range(Placed(<<field>>, p)) = FieldsOf(r, k) /\ Placed(<<field>>, p) \in Seq(FieldsOf(r, k))
  BY <1>3, <1>4, RangeIs
<1> QED
  BY <1>1, <1>4, <1>5 DEF AreFields, p, size, field

\* A difference, which takes no bits when all elements are equal.
LEMMA DeltaFields ==
  ASSUME WidthAssumption, NEW r, Sensible(r), NEW k \in 1..Len(r.array), k # 1, r.packed, FinalOf(r).isPacked
  PROVE  /\ FinalOf(r).maxBitNumber = 0 => AreFields(<<>>, r, k)
         /\ FinalOf(r).maxBitNumber # 0 =>
              AreFields(<<Field("delta", (r.array[k] - r.array[k - 1]) % Pow2[DeltaBits(FinalOf(r))],
                                DeltaBits(FinalOf(r)))>>, r, k)
<1> DEFINE c == FinalOf(r)
           p == PlaceOf(r, k)
           bits == DeltaBits(c)
           field == Field("delta", (r.array[k] - r.array[k - 1]) % Pow2[bits], bits)
<1>1. p \in Nat /\ Ends(r)[k] = p + bits /\ bits \in Nat
  BY PlaceIs, FinalOfIs DEF BitsOf
<1>2. field.bits = bits
  BY DEF Field
<1>3. ASSUME c.maxBitNumber = 0 PROVE AreFields(<<>>, r, k)
  <2>1. bits = 0
    BY <1>3 DEF DeltaBits
  <2>2. FieldsOf(r, k) = {}
    BY <1>3 DEF FieldsOf
  <2> HIDE DEF p, bits
  <2>3. Placed(<<>>, p) = <<>> /\ EndOf(<<>>, p) = p
    BY <1>1, PlacedNone
  <2>4. EndOf(<<>>, p) = Ends(r)[k]
    BY <1>1, <2>1, <2>3
  <2>5. Range(Placed(<<>>, p)) = {} /\ Placed(<<>>, p) \in Seq({})
    BY <2>3, RangeIs
  <2> QED
    BY <2>2, <2>4, <2>5, Zenon DEF AreFields, p
<1>4. ASSUME c.maxBitNumber # 0 PROVE AreFields(<<field>>, r, k)
  <2>1. FieldsOf(r, k) = {Put(p, field)}
    BY <1>4 DEF FieldsOf
  <2> HIDE DEF p, bits, field
  <2>2. Placed(<<field>>, p) = <<Put(p, field)>> /\ EndOf(<<field>>, p) = p + bits
    BY <1>1, <1>2, PlacedOne
  <2>3. Range(Placed(<<field>>, p)) = FieldsOf(r, k) /\ Placed(<<field>>, p) \in Seq(FieldsOf(r, k))
    BY <2>1, <2>2, RangeIs
  <2> QED
    BY <1>1, <2>2, <2>3 DEF AreFields, p
<1> QED
  BY <1>3, <1>4

\* Write leaves the context and the fields it is to leave, and no difference is refused.
LEMMA WriteIs ==
  ASSUME WidthAssumption, NEW r, Sensible(r), NEW k \in 1..Len(r.array),
         NEW w, w = Written(r, k, WritingContext(r, k - 1))
  PROVE  w.context = WritingContext(r, k) /\ ~w.refused /\ AreFields(w.fields, r, k)
<1> DEFINE c == WritingContext(r, k - 1)
           final == FinalOf(r)
           e == r.element
           v == r.array[k]
           next == WritingContext(r, k)
           whole == Field("element", v, ElementBitSize(e, v))
<1>1. v \in Values(e) /\ e \in ElementTypes /\ final \in Contexts /\ final.processingStarted
  BY BitsAre, FinalOfIs DEF Sensible
<1>2. CASE ~r.packed
  <2>1. w = [context |-> c, refused |-> FALSE, fields |-> <<whole>>] /\ c = NewContext /\ next = NewContext
    BY <1>2 DEF Written, WritingContext, SizeOf
  <2>2. AreFields(<<whole>>, r, k)
    BY <1>2, PlainFields DEF SizeOf
  <2> QED
    BY <2>1, <2>2
<1>3. CASE r.packed /\ k = 1
  <2>1. c = InitOf(e, r.array) /\ next = [final EXCEPT !.previousElement = ToWord(v)]
    BY <1>3 DEF WritingContext
  <2>2. ~c.processingStarted /\ FinishInit(Started(c)) = final
    BY <2>1, FirstContextIs
  <2>3. w = Write(e, c, v)
    BY <1>3 DEF Written
  <2>4. AreFields(Descriptor(final) \o <<whole>>, r, k)
    BY <1>3, FirstFields DEF SizeOf
  <2> HIDE DEF c, e, v, whole
  <2>5. Write(e, c, v) = [context |-> [final EXCEPT !.previousElement = ToWord(v)], refused |-> FALSE,
                          fields |-> Descriptor(final) \o <<whole>>]
    BY <2>2 DEF Write, whole
  <2>6. w = [context |-> next, refused |-> FALSE, fields |-> Descriptor(final) \o <<whole>>]
    BY <2>1, <2>3, <2>5
  <2> HIDE DEF next
  <2>7. w.context = next /\ w.refused = FALSE /\ w.fields = Descriptor(final) \o <<whole>>
    BY <2>6
  <2> QED
    BY <2>4, <2>7 DEF next
<1>4. CASE r.packed /\ k # 1
  <2> DEFINE u == r.array[k - 1]
             delta == CalcUncheckedDelta(v, c.previousElement)
             m == final.maxBitNumber
  <2>1. k - 1 \in 1..Len(r.array) /\ k - 1 # 0 /\ k # 0 /\ k \in 2..Len(r.array)
    BY <1>4
  <2>2. c = [final EXCEPT !.previousElement = ToWord(u)] /\ next = [final EXCEPT !.previousElement = ToWord(v)]
    BY <1>4, <2>1 DEF WritingContext
  <2>3. /\ c.previousElement = ToWord(u) /\ c.processingStarted /\ c.isPacked = final.isPacked
        /\ c.maxBitNumber = final.maxBitNumber /\ DeltaBits(c) = DeltaBits(final)
        /\ [c EXCEPT !.previousElement = ToWord(v)] = next
    BY <1>1, <2>2 DEF Contexts, DeltaBits
  <2>4. w = Write(e, c, v) /\ u \in Values(e)
    BY <1>4, <2>1, BitsAre DEF Written
  <2>5. CASE ~final.isPacked
    <3>1. AreFields(<<whole>>, r, k)
      BY <1>4, <2>5, PlainFields DEF SizeOf
    <3> HIDE DEF c, e, v, whole, next
    <3>2. Write(e, c, v) = [context |-> next, refused |-> FALSE, fields |-> <<whole>>]
      BY <2>3, <2>5 DEF Write, whole
    <3>3. w.context = next /\ w.refused = FALSE /\ w.fields = <<whole>>
      BY <2>4, <3>2
    <3> QED
      BY <3>1, <3>3 DEF next
  <2>6. CASE final.isPacked /\ m = 0
    <3>1. AreFields(<<>>, r, k)
      BY <1>4, <2>6, DeltaFields
    <3>2. Near(v, u, 0)
      BY <2>1, <2>6, FinalOfIs
    <3>3. v = u
      <4>1. v \in Int /\ u \in Int
        BY <1>1, <2>4, ValuesAre
      <4>2. v - u < 1 /\ u - v < 1
        BY <3>2, Pow2Is DEF Near
      <4> HIDE DEF v, u
      <4> QED
        BY <4>1, <4>2
    <3>4. c = next
      BY <2>2, <3>3
    <3> HIDE DEF c, e, v, next
    <3>5. Write(e, c, v) = [context |-> c, refused |-> FALSE, fields |-> <<>>]
      BY <2>3, <2>6 DEF Write
    <3>6. w.context = c /\ w.refused = FALSE /\ w.fields = <<>>
      BY <2>4, <3>5
    <3> QED
      BY <3>1, <3>4, <3>6 DEF next
  <2>7. CASE final.isPacked /\ m # 0
    <3>1. m \in Nat /\ m =< MAX_BIT_NUMBER_LIMIT /\ Near(v, u, m)
      BY <2>1, <2>7, FinalOfIs
    <3>2. delta = v - u /\ FitsSigned(v - u, m + 1)
      BY <1>1, <2>3, <2>4, <3>1, ValuesAre, DifferenceIs
    <3>3. DeltaBits(final) = m + 1
      BY <2>7, <3>1 DEF DeltaBits
    <3>4. AreFields(<<Field("delta", (v - u) % Pow2[DeltaBits(final)], DeltaBits(final))>>, r, k)
      BY <1>4, <2>7, DeltaFields
    <3> DEFINE f == Field("delta", delta % Pow2[DeltaBits(c)], DeltaBits(c))
    <3>5. f = Field("delta", (v - u) % Pow2[DeltaBits(final)], DeltaBits(final))
      BY <2>3, <3>2
    <3>6. FitsSigned(delta, DeltaBits(c))
      BY <2>3, <3>2, <3>3
    <3> HIDE DEF c, e, v, next
    <3>7. Write(e, c, v) = [context |-> [c EXCEPT !.previousElement = ToWord(v)],
                            refused |-> ~FitsSigned(delta, DeltaBits(c)), fields |-> <<f>>]
      BY <2>3, <2>7 DEF Write
    <3> DEFINE refused == ~FitsSigned(delta, DeltaBits(c))
    <3>8. refused = FALSE
      BY <3>6
    <3> HIDE DEF refused, f
    <3>9. w.context = [c EXCEPT !.previousElement = ToWord(v)] /\ w.refused = refused /\ w.fields = <<f>>
      BY <2>4, <3>7 DEF refused
    <3> QED
      BY <2>3, <3>4, <3>5, <3>8, <3>9 DEF next
  <2> QED
    BY <2>5, <2>6, <2>7
<1> QED
  BY <1>2, <1>3, <1>4
-------------------------------------------------------------------------------
(* What the reader makes of one element.                                   *)

\* The context behind i elements of read.
ReadingContext(r, i) ==
  IF i = 0 THEN NewContext
  ELSE [NewContext EXCEPT !.processingStarted = r.packed, !.isPacked = r.packed /\ FinalOf(r).isPacked,
                          !.maxBitNumber = IF r.packed /\ FinalOf(r).isPacked THEN FinalOf(r).maxBitNumber ELSE 0,
                          !.previousElement = ToWord(r.array[i])]

\* A field of an element that was written is found.
LEMMA FindIt ==
  ASSUME WidthAssumption, NEW r, Sensible(r), Range(stream) = Coded(r, Len(r.array)),
         NEW k \in 1..Len(r.array), NEW kind, NEW value, NEW bits, NEW p,
         Put(p, Field(kind, value, bits)) \in FieldsOf(r, k)
  PROVE  FieldAt(kind, p) = Field(kind, value, bits)
<1> DEFINE f == Put(p, Field(kind, value, bits))
<1>1. f \in Coded(r, Len(r.array))
  BY DEF Coded
<1>2. f.field.kind = kind /\ f.at = p /\ f.field = Field(kind, value, bits)
  BY DEF Put, Field
<1> HIDE DEF f
<1> QED
  BY <1>1, <1>2, FieldFound

LEMMA PlainIs ==
  ASSUME NEW p, NEW v, NEW s, FieldAt("element", p) = Field("element", v, s), NEW c
  PROVE  ReadPlain(c, p) = [context |-> [c EXCEPT !.previousElement = ToWord(v)], value |-> v, end |-> p + s,
                            garbled |-> FALSE]
<1> DEFINE f == FieldAt("element", p)
<1>1. f.value = v /\ f.bits = s /\ (f.kind = "none") = FALSE
  BY DEF Field
<1> HIDE DEF f
<1>2. ReadPlain(c, p) = [context |-> ReadUnpacked(c, f.value), value |-> f.value, end |-> p + f.bits,
                         garbled |-> f.kind = "none"]
  BY DEF ReadPlain, f
<1>3. ReadUnpacked(c, v) = [c EXCEPT !.previousElement = ToWord(v)]
  BY DEF ReadUnpacked
<1> QED
  BY <1>1, <1>2, <1>3

\* What reading of element k gives, in a context c.
ReadOf(r, k, c) == IF r.packed THEN ReadCompressed(c, PlaceOf(r, k)) ELSE ReadPlain(c, PlaceOf(r, k))

\* Read gives the element that was written, and stops where it ends.
GivesElement(x, r, k) ==
  /\ x.context = ReadingContext(r, k)
  /\ x.value = r.array[k]
  /\ x.end = Ends(r)[k]
  /\ x.garbled = FALSE

\* An element that is read as it was written.
LEMMA ReadWhole ==
  ASSUME WidthAssumption, NEW r, Sensible(r), NEW k \in 1..Len(r.array), NEW c, NEW p, p \in Nat,
         FieldAt("element", p) = Field("element", r.array[k], SizeOf(r, k)),
         p + SizeOf(r, k) = Ends(r)[k],
         [c EXCEPT !.previousElement = ToWord(r.array[k])] = ReadingContext(r, k)
  PROVE  /\ GivesElement(ReadPlain(c, p), r, k)
         /\ \A g : g = FALSE => GivesElement([ReadPlain(c, p) EXCEPT !.garbled = @ \/ g], r, k)
<1> DEFINE x == ReadPlain(c, p)
           v == r.array[k]
           s == SizeOf(r, k)
           next == ReadingContext(r, k)
           end == Ends(r)[k]
<1> HIDE DEF x, v, s, next, end
<1>3. x = [context |-> [c EXCEPT !.previousElement = ToWord(v)], value |-> v, end |-> p + s, garbled |-> FALSE]
  BY PlainIs DEF x, v, s
<1>4. [c EXCEPT !.previousElement = ToWord(v)] = next /\ p + s = end
  BY DEF v, s, next, end
<1>1. x = [context |-> next, value |-> v, end |-> end, garbled |-> FALSE]
  BY <1>3, <1>4
<1>5. GivesElement(x, r, k)
  BY <1>1 DEF GivesElement, next, v, end
<1>6. ASSUME NEW g, g = FALSE PROVE GivesElement([x EXCEPT !.garbled = @ \/ g], r, k)
  <2> DEFINE h == x.garbled \/ g
             y == [x EXCEPT !.garbled = h]
  <2>1. h = FALSE
    BY <1>1, <1>6
  <2> HIDE DEF h
  <2>2. y.context = next /\ y.value = v /\ y.end = end
    BY <1>1
  <2>3. y.garbled = h
    BY <1>1
  <2>4. GivesElement(y, r, k)
    BY <2>1, <2>2, <2>3 DEF GivesElement, next, v, end
  <2> QED
    BY <2>4 DEF h
<1> QED
  BY <1>5, <1>6 DEF x

\* The first element of a packed array, behind a descriptor.
LEMMA ReadFirst ==
  ASSUME WidthAssumption, NEW r, Sensible(r), r.packed, Range(stream) = Coded(r, Len(r.array)),
         NEW k \in 1..Len(r.array), k = 1
  PROVE  GivesElement(ReadCompressed(NewContext, PlaceOf(r, k)), r, k)
<1> DEFINE final == FinalOf(r)
           c == NewContext
           p == PlaceOf(r, k)
           m == final.maxBitNumber
           flag == FieldAt("flag", p)
           number == FieldAt("number", p + 1)
           described == ReadPackedFlag(Started(c), flag.value)
           bits == MAX_BIT_NUMBER_BITS
           size == SizeOf(r, k)
           x == ReadCompressed(c, p)
           one == ReadPlain(ReadMaxBitNumber(described, number.value), p + 1 + bits)
           none == ReadPlain(described, p + 1)
           noNumber == number.kind = "none"
           noFlag == flag.kind = "none"
<1>1. p \in Nat /\ Ends(r)[k] = p + BitsOf(r, k) /\ size \in Nat /\ bits \in Nat
  BY PlaceIs, BitsAre DEF WidthAssumption
<1>2. BitsOf(r, k) = BitSizeOfDescriptor(final) + size
  BY DEF BitsOf
<1>3. x = IF described.isPacked THEN [one EXCEPT !.garbled = @ \/ noNumber] ELSE [none EXCEPT !.garbled = @ \/ noFlag]
  BY DEF ReadCompressed, NewContext
<1>4. ReadingContext(r, k) = [NewContext EXCEPT !.processingStarted = TRUE, !.isPacked = final.isPacked,
                                !.maxBitNumber = IF final.isPacked THEN m ELSE 0,
                                !.previousElement = ToWord(r.array[k])]
  <2>1. r.packed = TRUE /\ final.isPacked \in BOOLEAN
    BY FinalOfIs DEF Sensible
  <2>2. (r.packed /\ final.isPacked) = final.isPacked
    BY <2>1
  <2>3. ReadingContext(r, k) = [NewContext EXCEPT !.processingStarted = r.packed,
                                  !.isPacked = r.packed /\ final.isPacked,
                                  !.maxBitNumber = IF r.packed /\ final.isPacked THEN m ELSE 0,
                                  !.previousElement = ToWord(r.array[k])]
    BY DEF ReadingContext
  <2> QED
    BY <2>1, <2>2, <2>3
<1>5. m \in Nat /\ final.isPacked \in BOOLEAN
  BY FinalOfIs
<1>6. CASE final.isPacked
  <2>1. /\ Put(p, Field("flag", 1, 1)) \in FieldsOf(r, k)
        /\ Put(p + 1, Field("number", m, bits)) \in FieldsOf(r, k)
        /\ Put(p + 1 + bits, Field("element", r.array[k], size)) \in FieldsOf(r, k)
    BY <1>6 DEF FieldsOf
  <2>2. /\ flag = Field("flag", 1, 1) /\ number = Field("number", m, bits)
        /\ FieldAt("element", p + 1 + bits) = Field("element", r.array[k], size)
    BY <2>1, FindIt
  <2>3. flag.value = 1 /\ number.value = m /\ noNumber = FALSE
    BY <2>2 DEF Field
  <2>4. m % 256 = m
    <3>1. m =< MAX_BIT_NUMBER_LIMIT
      BY <1>6, FinalOfIs
    <3> HIDE DEF m
    <3>2. m < 256
      <4>1. WordBits \in 1..256
        BY DEF WidthAssumption
      <4> QED
        BY <1>5, <3>1, <4>1 DEF MAX_BIT_NUMBER_LIMIT
    <3> QED
      BY <1>5, <3>2
  <2> DEFINE d == ReadMaxBitNumber(described, number.value)
  <2> HIDE DEF m
  <2>5. described = [NewContext EXCEPT !.processingStarted = TRUE, !.isPacked = TRUE]
    BY <2>3 DEF ReadPackedFlag, Started, NewContext
  <2>6. d = [NewContext EXCEPT !.processingStarted = TRUE, !.isPacked = TRUE, !.maxBitNumber = m]
    BY <2>3, <2>4, <2>5 DEF ReadMaxBitNumber, UInt8, NewContext
  <2>7. [d EXCEPT !.previousElement = ToWord(r.array[k])] = ReadingContext(r, k)
    <3>1. final.isPacked = TRUE
      BY <1>5, <1>6
    <3> HIDE DEF d, final
    <3> QED
      BY <1>4, <2>6, <3>1 DEF NewContext
  <2>8. p + 1 + bits + size = Ends(r)[k] /\ p + 1 + bits \in Nat
    BY <1>1, <1>2, <1>6 DEF BitSizeOfDescriptor
  <2>9. described.isPacked
    BY <2>5 DEF NewContext
  <2>10. x = [one EXCEPT !.garbled = @ \/ noNumber]
    BY <1>3, <2>9
  <2> DEFINE q == p + 1 + bits
  <2> HIDE DEF noNumber, p, size, described, d, q
  <2>11. \A g : g = FALSE => GivesElement([ReadPlain(d, q) EXCEPT !.garbled = @ \/ g], r, k)
    BY <2>2, <2>7, <2>8, ReadWhole DEF q, size
  <2>12. GivesElement([ReadPlain(d, q) EXCEPT !.garbled = @ \/ noNumber], r, k)
    BY <2>3, <2>11
  <2> QED
    BY <2>10, <2>12 DEF d, q, p
<1>7. CASE ~final.isPacked
  <2>1. /\ Put(p, Field("flag", 0, 1)) \in FieldsOf(r, k)
        /\ Put(p + 1, Field("element", r.array[k], size)) \in FieldsOf(r, k)
    BY <1>7 DEF FieldsOf
  <2>2. flag = Field("flag", 0, 1) /\ FieldAt("element", p + 1) = Field("element", r.array[k], size)
    BY <2>1, FindIt
  <2>3. flag.value = 0 /\ noFlag = FALSE
    BY <2>2 DEF Field
  <2> DEFINE isPacked == flag.value = 1
  <2>4. isPacked = FALSE
    BY <2>3
  <2>5. described = [NewContext EXCEPT !.processingStarted = TRUE, !.isPacked = isPacked]
    BY DEF ReadPackedFlag, Started, NewContext
  <2> HIDE DEF isPacked
  <2>6. described = [NewContext EXCEPT !.processingStarted = TRUE, !.isPacked = FALSE]
    BY ONLY <2>4, <2>5, Zenon
  <2>7. [described EXCEPT !.previousElement = ToWord(r.array[k])] = ReadingContext(r, k)
    <3>1. final.isPacked = FALSE
      BY <1>5, <1>7
    <3> DEFINE begun == [NewContext EXCEPT !.processingStarted = TRUE, !.isPacked = FALSE]
               word == ToWord(r.array[k])
    <3> HIDE DEF described, final, word
    <3>2. ReadingContext(r, k) = [begun EXCEPT !.maxBitNumber = 0, !.previousElement = word]
      BY <1>4, <3>1 DEF word
    <3>3. [begun EXCEPT !.maxBitNumber = 0, !.previousElement = word] = [begun EXCEPT !.previousElement = word]
      <4> DEFINE yes == TRUE
                 no == FALSE
      <4> HIDE DEF yes, no
      <4>1. NewContext = [previousElement |-> 0, maxBitNumber |-> 0, firstElementBitSize |-> 0, numElements |-> 0,
                          unpackedBitSize |-> 0, initStarted |-> no, isPacked |-> no, processingStarted |-> no]
        BY DEF NewContext, no
      <4>3. begun = [NewContext EXCEPT !.processingStarted = yes, !.isPacked = no]
        BY DEF yes, no
      <4> HIDE DEF begun
      <4>4. begun = [previousElement |-> 0, maxBitNumber |-> 0, firstElementBitSize |-> 0, numElements |-> 0,
                     unpackedBitSize |-> 0, initStarted |-> no, isPacked |-> no, processingStarted |-> yes]
        BY <4>1, <4>3
      <4>2. [begun EXCEPT !.maxBitNumber = 0] = begun
        BY <4>4
      <4> QED
        BY <4>2
    <3> QED
      BY <2>6, <3>2, <3>3 DEF word
  <2>8. p + 1 + size = Ends(r)[k] /\ p + 1 \in Nat
    BY <1>1, <1>2, <1>7 DEF BitSizeOfDescriptor
  <2>9. ~described.isPacked
    BY <2>6 DEF NewContext
  <2>10. x = [none EXCEPT !.garbled = @ \/ noFlag]
    BY <1>3, <2>9
  <2> DEFINE q == p + 1
  <2> HIDE DEF noFlag, p, size, described, q
  <2>11. \A g : g = FALSE => GivesElement([ReadPlain(described, q) EXCEPT !.garbled = @ \/ g], r, k)
    BY <2>2, <2>7, <2>8, ReadWhole DEF q, size
  <2>12. GivesElement([ReadPlain(described, q) EXCEPT !.garbled = @ \/ noFlag], r, k)
    BY <2>3, <2>11
  <2> QED
    BY <2>10, <2>12 DEF q, p
<1> QED
  BY <1>6, <1>7

\* The reader goes on from c, the context of the elements in front of element k, to that of element k.
GoesOn(c, r, k) ==
  /\ [c EXCEPT !.previousElement = ToWord(r.array[k])] = ReadingContext(r, k)
  /\ c.previousElement = ToWord(r.array[k - 1]) /\ c.processingStarted = r.packed
  /\ c.isPacked = (r.packed /\ FinalOf(r).isPacked)
  /\ c.maxBitNumber = IF r.packed /\ FinalOf(r).isPacked THEN FinalOf(r).maxBitNumber ELSE 0
  /\ c \in Contexts

LEMMA ReadingGoesOn ==
  ASSUME WidthAssumption, NEW r, Sensible(r), NEW k \in 1..Len(r.array), k # 1
  PROVE  GoesOn(ReadingContext(r, k - 1), r, k)
<1> DEFINE c == ReadingContext(r, k - 1)
           started == r.packed
           packs == r.packed /\ FinalOf(r).isPacked
           most == IF packs THEN FinalOf(r).maxBitNumber ELSE 0
           word == ToWord(r.array[k - 1])
           next == ToWord(r.array[k])
<1>1. k - 1 \in 1..Len(r.array) /\ k - 1 # 0 /\ k # 0
  OBVIOUS
<1>2. /\ c = [NewContext EXCEPT !.processingStarted = started, !.isPacked = packs, !.maxBitNumber = most,
                                !.previousElement = word]
      /\ ReadingContext(r, k) = [NewContext EXCEPT !.processingStarted = started, !.isPacked = packs,
                                                   !.maxBitNumber = most, !.previousElement = next]
  BY <1>1 DEF ReadingContext
<1>3. word \in 0..(Pow2[WordBits] - 1)
  <2>1. r.array[k - 1] \in Values(r.element) /\ r.element \in ElementTypes
    BY <1>1, BitsAre DEF Sensible
  <2> QED
    BY <2>1, ValueOfToWord
<1>4. started \in BOOLEAN
  BY DEF Sensible
<1>5. packs \in BOOLEAN
  OBVIOUS
<1>6. most \in 0..WordBits
  <2>1. FinalOf(r).maxBitNumber \in 0..WordBits /\ 0 \in 0..WordBits
    BY FinalOfIs, WordSize DEF Contexts
  <2> QED
    BY <2>1
<1>7. NewContext \in Contexts
  BY NewContextIs
<1> HIDE DEF started, packs, most, word, next, c
<1>8. c \in Contexts
  <2>1. c = Used(started, packs, most, word)
    BY <1>2 DEF Used
  <2> QED
    BY <1>3, <1>4, <1>5, <1>6, <2>1, UsedContext
<1>9. c.previousElement = word /\ c.processingStarted = started /\ c.isPacked = packs /\ c.maxBitNumber = most
  BY <1>2, <1>7 DEF Contexts
<1>10. [c EXCEPT !.previousElement = next] = ReadingContext(r, k)
  BY <1>2, <1>7 DEF Contexts
<1> QED
  BY <1>8, <1>9, <1>10 DEF GoesOn, started, packs, most, word, next, c

\* Another element of a packed array.
LEMMA ReadLater ==
  ASSUME WidthAssumption, NEW r, Sensible(r), r.packed, r.element = element, Range(stream) = Coded(r, Len(r.array)),
         NEW k \in 1..Len(r.array), k # 1
  PROVE  GivesElement(ReadCompressed(ReadingContext(r, k - 1), PlaceOf(r, k)), r, k)
<1> DEFINE c == ReadingContext(r, k - 1)
           final == FinalOf(r)
           p == PlaceOf(r, k)
           m == final.maxBitNumber
           e == r.element
           v == r.array[k]
           u == r.array[k - 1]
           next == ReadingContext(r, k)
           size == SizeOf(r, k)
           bits == DeltaBits(final)
           delta == FieldAt("delta", p)
           added == AddDelta(e, c, delta.value)
           x == ReadCompressed(c, p)
<1>1. p \in Nat /\ Ends(r)[k] = p + BitsOf(r, k) /\ size \in Nat /\ v \in Values(e) /\ e \in ElementTypes
  BY PlaceIs, BitsAre DEF Sensible
<1>2. u \in Values(e) /\ k \in 2..Len(r.array)
  <2>1. k - 1 \in 1..Len(r.array)
    OBVIOUS
  <2> QED
    BY <2>1, BitsAre
<1>3. /\ [c EXCEPT !.previousElement = ToWord(v)] = next
      /\ c.previousElement = ToWord(u) /\ c.processingStarted
      /\ c.isPacked <=> final.isPacked
      /\ c.maxBitNumber = IF final.isPacked THEN m ELSE 0
      /\ c \in Contexts
  <2> DEFINE packs == r.packed /\ final.isPacked
             most == IF packs THEN m ELSE 0
  <2>3. GoesOn(c, r, k)
    BY ReadingGoesOn
  <2> HIDE DEF c
  <2>1. /\ [c EXCEPT !.previousElement = ToWord(v)] = next
        /\ c.previousElement = ToWord(u) /\ c.processingStarted = r.packed
        /\ c.isPacked = packs /\ c.maxBitNumber = most /\ c \in Contexts
    BY <2>3 DEF GoesOn
  <2>2. packs <=> final.isPacked
    OBVIOUS
  <2> HIDE DEF packs, c, next, final
  <2> QED
    BY <2>1, <2>2
<1>4. x = IF ~c.isPacked THEN ReadPlain(c, p)
          ELSE IF c.maxBitNumber = 0
          THEN [context |-> c, value |-> Current(e, c), end |-> p, garbled |-> FALSE]
          ELSE [context |-> added, value |-> Current(e, added), end |-> p + c.maxBitNumber + 1,
                garbled |-> delta.bits # c.maxBitNumber + 1]
  BY <1>3 DEF ReadCompressed
<1>5. CASE ~final.isPacked
  <2>1. Put(p, Field("element", v, size)) \in FieldsOf(r, k) /\ BitsOf(r, k) = size
    BY <1>5 DEF FieldsOf, BitsOf
  <2>2. FieldAt("element", p) = Field("element", v, size)
    BY <2>1, FindIt
  <2>3. p + size = Ends(r)[k]
    BY <1>1, <2>1
  <2>4. x = ReadPlain(c, p)
    BY <1>3, <1>4, <1>5
  <2> HIDE DEF c, p
  <2>5. GivesElement(ReadPlain(c, p), r, k)
    BY <1>1, <1>3, <2>2, <2>3, ReadWhole
  <2> QED
    BY <2>4, <2>5 DEF c, p
<1>6. CASE final.isPacked /\ m = 0
  <2>1. Near(v, u, 0)
    BY <1>2, <1>6, FinalOfIs
  <2>2. v = u
    <3>1. v \in Int /\ u \in Int
      BY <1>1, <1>2, ValuesAre
    <3>2. v - u < 1 /\ u - v < 1
      BY <2>1, Pow2Is DEF Near
    <3> HIDE DEF v, u
    <3> QED
      BY <3>1, <3>2
  <2>3. Current(e, c) = v
    BY <1>1, <1>3, <2>2, ValueOfToWord DEF Current
  <2>4. c = next
    <3>1. [c EXCEPT !.previousElement = c.previousElement] = c
      BY <1>3 DEF Contexts
    <3> QED
      BY <1>3, <2>2, <3>1
  <2>5. BitsOf(r, k) = 0
    BY <1>6 DEF BitsOf, DeltaBits
  <2>6. Ends(r)[k] = p
    BY <1>1, <2>5
  <2>7. x = [context |-> c, value |-> Current(e, c), end |-> p, garbled |-> FALSE]
    BY <1>3, <1>4, <1>6
  <2> HIDE DEF x, c, p, v, next
  <2>8. x.context = c /\ x.value = Current(e, c) /\ x.end = p /\ x.garbled = FALSE
    BY <2>7
  <2>9. x.context = next /\ x.value = v /\ x.end = Ends(r)[k] /\ x.garbled = FALSE
    BY <2>3, <2>4, <2>6, <2>8
  <2> QED
    BY <2>9 DEF GivesElement, x, c, p, v, next
<1>7. CASE final.isPacked /\ m # 0
  <2>1. m \in Nat /\ m =< MAX_BIT_NUMBER_LIMIT /\ Near(v, u, m)
    BY <1>2, <1>7, FinalOfIs
  <2>2. FitsSigned(v - u, m + 1)
    BY <1>1, <1>2, <2>1, ValuesAre, DifferenceIs
  <2>3. bits = m + 1 /\ BitsOf(r, k) = m + 1
    BY <1>7, <2>1 DEF DeltaBits, BitsOf
  <2>4. Put(p, Field("delta", (v - u) % Pow2[bits], bits)) \in FieldsOf(r, k)
    BY <1>7 DEF FieldsOf
  <2>5. delta = Field("delta", (v - u) % Pow2[bits], bits)
    BY <2>4, FindIt
  <2>6. delta.value = (v - u) % Pow2[m + 1] /\ delta.bits = m + 1
    BY <2>3, <2>5 DEF Field
  <2>7. c.maxBitNumber = m
    BY <1>3, <1>7
  <2>8. added = next
    <3>1. AddDelta(e, c, (v - u) % Pow2[c.maxBitNumber + 1]) = [c EXCEPT !.previousElement = ToWord(v)]
      BY <1>1, <1>2, <1>3, <2>2, <2>7, AddDeltaIs
    <3> QED
      BY <1>3, <2>6, <2>7, <3>1
  <2>9. next.previousElement = ToWord(v)
    BY <1>3 DEF Contexts
  <2>10. Current(e, added) = v
    BY <1>1, <2>8, <2>9, ValueOfToWord DEF Current
  <2>11. p + m + 1 = Ends(r)[k]
    BY <1>1, <2>1, <2>3
  <2> DEFINE garbles == delta.bits # c.maxBitNumber + 1
  <2>12. garbles = FALSE
    BY <2>6, <2>7
  <2>13. x = [context |-> added, value |-> Current(e, added), end |-> p + c.maxBitNumber + 1, garbled |-> garbles]
    BY <1>3, <1>4, <1>7, <2>7
  <2> HIDE DEF garbles, added, x, c, p, v, next
  <2>14. x.context = added /\ x.value = Current(e, added) /\ x.end = p + c.maxBitNumber + 1 /\ x.garbled = garbles
    BY <2>13
  <2>15. x.context = next /\ x.value = v /\ x.end = Ends(r)[k] /\ x.garbled = FALSE
    BY <2>7, <2>8, <2>10, <2>11, <2>12, <2>14
  <2> QED
    BY <2>15 DEF GivesElement, x, c, p, v, next
<1> QED
  BY <1>5, <1>6, <1>7

\* An element of an array that is not packed.
LEMMA ReadUnpackedElement ==
  ASSUME WidthAssumption, NEW r, Sensible(r), ~r.packed, Range(stream) = Coded(r, Len(r.array)),
         NEW k \in 1..Len(r.array)
  PROVE  GivesElement(ReadPlain(ReadingContext(r, k - 1), PlaceOf(r, k)), r, k)
<1> DEFINE c == ReadingContext(r, k - 1)
           p == PlaceOf(r, k)
           v == r.array[k]
           size == SizeOf(r, k)
<1>1. p \in Nat /\ Ends(r)[k] = p + BitsOf(r, k) /\ size \in Nat
  BY PlaceIs, BitsAre
<1>2. Put(p, Field("element", v, size)) \in FieldsOf(r, k) /\ BitsOf(r, k) = size
  BY DEF FieldsOf, BitsOf
<1>3. FieldAt("element", p) = Field("element", v, size)
  BY <1>2, FindIt
<1>4. p + size = Ends(r)[k]
  BY <1>1, <1>2
<1>5. [c EXCEPT !.previousElement = ToWord(v)] = ReadingContext(r, k)
  <2>1. CASE k = 1
    <3> DEFINE packs == r.packed /\ FinalOf(r).isPacked
               most == IF packs THEN FinalOf(r).maxBitNumber ELSE 0
               word == ToWord(v)
               started == r.packed
               no == FALSE
    <3>1. /\ c = NewContext
          /\ ReadingContext(r, k) = [NewContext EXCEPT !.processingStarted = started, !.isPacked = packs,
                                                       !.maxBitNumber = most, !.previousElement = word]
      BY <2>1 DEF ReadingContext
    <3>2. started = no /\ packs = no /\ most = 0
      BY DEF Sensible
    <3>3. NewContext = [previousElement |-> 0, maxBitNumber |-> 0, firstElementBitSize |-> 0, numElements |-> 0,
                        unpackedBitSize |-> 0, initStarted |-> no, isPacked |-> no, processingStarted |-> no]
      BY DEF NewContext
    <3> HIDE DEF no, packs, most, started, word, c
    <3>4. [NewContext EXCEPT !.processingStarted = no, !.isPacked = no, !.maxBitNumber = 0, !.previousElement = word]
            = [NewContext EXCEPT !.previousElement = word]
      <4>1. [NewContext EXCEPT !.processingStarted = no] = NewContext
        BY <3>3
      <4>2. [NewContext EXCEPT !.isPacked = no] = NewContext
        BY <3>3
      <4>3. [NewContext EXCEPT !.maxBitNumber = 0] = NewContext
        BY <3>3
      <4> QED
        BY <4>1, <4>2, <4>3
    <3> QED
      BY <3>1, <3>2, <3>4 DEF word
  <2>2. CASE k # 1
    BY <2>2, ReadingGoesOn DEF GoesOn
  <2> QED
    BY <2>1, <2>2
<1> HIDE DEF c, p
<1>6. GivesElement(ReadPlain(c, p), r, k)
  BY <1>1, <1>3, <1>4, <1>5, ReadWhole
<1> QED
  BY <1>6 DEF c, p

LEMMA ReadIs ==
  ASSUME WidthAssumption, NEW r, Sensible(r), r.element = element, Range(stream) = Coded(r, Len(r.array)),
         NEW k \in 1..Len(r.array)
  PROVE  GivesElement(ReadOf(r, k, ReadingContext(r, k - 1)), r, k)
<1>1. CASE ~r.packed
  BY <1>1, ReadUnpackedElement DEF ReadOf
<1>2. CASE r.packed /\ k = 1
  <2>1. ReadingContext(r, k - 1) = NewContext
    BY <1>2 DEF ReadingContext
  <2> QED
    BY <1>2, <2>1, ReadFirst DEF ReadOf
<1>3. CASE r.packed /\ k # 1
  BY <1>3, ReadLater DEF ReadOf
<1> QED
  BY <1>1, <1>2, <1>3
-------------------------------------------------------------------------------
(* Where arrays end.                                                       *)

\* A fact about the ends that holds at the start and at the next element holds at all of them.
LEMMA AllEnds ==
  ASSUME NEW N \in Nat, NEW S \in SUBSET Nat, 0 \in S, \A k \in 1..N : k - 1 \in S => k \in S
  PROVE  \A k \in 0..N : k \in S
<1> DEFINE T == {k \in Nat : k =< N => k \in S}
<1>1. 0 \in T
  OBVIOUS
<1>2. \A k \in T : k + 1 \in T
  <2>1. ASSUME NEW k \in T PROVE k + 1 \in T
    <3> SUFFICES ASSUME k + 1 =< N PROVE k + 1 \in S
      OBVIOUS
    <3>1. k + 1 \in 1..N /\ (k + 1) - 1 = k /\ k =< N
      OBVIOUS
    <3>2. k \in S
      BY <3>1
    <3> QED
      BY <3>1, <3>2
  <2> QED
    BY <2>1
<1> HIDE DEF T
<1>3. T = Nat
  <2>1. T \subseteq Nat
    BY DEF T
  <2> QED
    BY <2>1, <1>1, <1>2, SetInduction
<1> QED
  BY <1>3 DEF T

\* Without a descriptor and differences, no element is shorter than a 0.
LEMMA PlainEnds ==
  ASSUME WidthAssumption, NEW r, Sensible(r), ~r.packed, NEW n \in 0..Len(r.array)
  PROVE  r.start + LengthOf(r) + n * ElementBitSize(r.element, 0) =< Ends(r)[n]
<1> DEFINE least == ElementBitSize(r.element, 0)
           first == r.start + LengthOf(r)
           S == {k \in 0..Len(r.array) : first + k * least =< Ends(r)[k]}
<1>1. Len(r.array) \in Nat /\ first \in Nat
  BY DEF Sensible, LengthOf
<1>2. Ends(r)[0] = first
  BY EndsAre DEF IsEnds
<1>3. least \in Nat
  <2>1. r.element \in ElementTypes /\ 0 \in Values(r.element)
    BY ValuesAre DEF Sensible
  <2> QED
    BY <2>1, BitSizesAre
<1>4. 0 \in S
  BY <1>1, <1>2, <1>3
<1>5. ASSUME NEW k \in 1..Len(r.array), k - 1 \in S PROVE k \in S
  <2>1. /\ Ends(r)[k - 1] \in Nat /\ Ends(r)[k] \in Nat /\ PlaceOf(r, k) \in Nat /\ Ends(r)[k - 1] =< PlaceOf(r, k)
        /\ Ends(r)[k] = PlaceOf(r, k) + SizeOf(r, k) /\ SizeOf(r, k) \in Nat /\ least =< SizeOf(r, k)
    BY PlaceIs, BitsAre DEF BitsOf
  <2>2. first + (k - 1) * least =< Ends(r)[k - 1]
    BY <1>5
  <2>3. k * least = (k - 1) * least + least /\ (k - 1) * least \in Int
    BY <1>3
  <2> HIDE DEF first, least
  <2>4. first + k * least =< Ends(r)[k]
    BY <1>1, <1>3, <2>1, <2>2, <2>3
  <2>5. k \in 0..Len(r.array)
    OBVIOUS
  <2> QED
    BY <2>4, <2>5 DEF first, least
<1>6. \A k \in 0..Len(r.array) : k \in S
  <2>1. S \in SUBSET Nat
    OBVIOUS
  <2> HIDE DEF S
  <2> QED
    BY <1>1, <1>4, <1>5, <2>1, AllEnds
<1> QED
  BY <1>6

\* The elements of an implicit array are all of the same size.
LEMMA ImplicitEnds ==
  ASSUME WidthAssumption, NEW r, Sensible(r), r.type = "IMPLICIT", NEW n \in 0..Len(r.array)
  PROVE  Ends(r)[n] = r.start + n * ElementBitSize(r.element, 0)
<1> DEFINE least == ElementBitSize(r.element, 0)
           first == r.start
           S == {k \in 0..Len(r.array) : Ends(r)[k] = first + k * least}
<1>1. Len(r.array) \in Nat /\ first \in Nat /\ ~r.packed /\ ~HasLength(r) /\ ~Aligns(r)
      /\ \A v \in Values(r.element) : ElementBitSize(r.element, v) = least
  BY DEF Sensible, Allowed, HasLength, Aligns
<1>2. Ends(r)[0] = first
  BY <1>1, EndsAre DEF IsEnds, LengthOf
<1>3. least \in Nat
  <2>1. r.element \in ElementTypes /\ 0 \in Values(r.element)
    BY ValuesAre DEF Sensible
  <2> QED
    BY <2>1, BitSizesAre
<1>4. 0 \in S
  BY <1>1, <1>2, <1>3
<1>5. ASSUME NEW k \in 1..Len(r.array), k - 1 \in S PROVE k \in S
  <2>1. SizeOf(r, k) = least
    BY <1>1, BitsAre DEF SizeOf
  <2>2. Ends(r)[k] = PlaceOf(r, k) + SizeOf(r, k) /\ PlaceOf(r, k) = Ends(r)[k - 1]
    BY <1>1, PlaceIs DEF BitsOf, PlaceOf, Aligned
  <2>3. Ends(r)[k - 1] = first + (k - 1) * least
    BY <1>5
  <2>4. k * least = (k - 1) * least + least /\ (k - 1) * least \in Int
    BY <1>3
  <2> HIDE DEF first, least
  <2>5. Ends(r)[k] = first + k * least
    BY <1>1, <1>3, <2>1, <2>2, <2>3, <2>4
  <2>6. k \in 0..Len(r.array)
    OBVIOUS
  <2> QED
    BY <2>5, <2>6 DEF first, least
<1>6. \A k \in 0..Len(r.array) : k \in S
  <2>1. S \in SUBSET Nat
    OBVIOUS
  <2> HIDE DEF S
  <2> QED
    BY <1>1, <1>4, <1>5, <2>1, AllEnds
<1> QED
  BY <1>6

\* Behind a descriptor, a packed array that is not aligned takes the bits of its elements, or
\* those of its first one and of the differences.
PackedEnd(r, k) ==
  IF k = 0 THEN 0
  ELSE IF FinalOf(r).isPacked
  THEN 1 + MAX_BIT_NUMBER_BITS + SizeOf(r, 1) + (k - 1) * DeltaBits(FinalOf(r))
  ELSE 1 + Unpacked(r.element, r.array)[k]

LEMMA PackedEnds ==
  ASSUME WidthAssumption, NEW r, Sensible(r), r.packed, ~Aligns(r), NEW n \in 0..Len(r.array)
  PROVE  Ends(r)[n] = r.start + LengthOf(r) + PackedEnd(r, n)
<1> DEFINE first == r.start + LengthOf(r)
           S == {k \in 0..Len(r.array) : Ends(r)[k] = first + PackedEnd(r, k)}
           final == FinalOf(r)
           bits == DeltaBits(final)
           plain == Unpacked(r.element, r.array)
           all == Len(r.array)
<1>1. all \in Nat /\ first \in Nat
  BY DEF Sensible, LengthOf
<1>2. Ends(r)[0] = first
  BY EndsAre DEF IsEnds
<1>3. bits \in Nat /\ MAX_BIT_NUMBER_BITS \in Nat
  BY FinalOfIs DEF WidthAssumption
<1>4. /\ \A k \in 0..all : plain[k] \in Nat
      /\ plain[0] = 0
      /\ \A k \in 1..all : plain[k] = plain[k - 1] + SizeOf(r, k)
  BY UnpackedIs DEF IsUnpacked, Sensible, SizeOf
<1>5. 0 \in S
  <2>1. PackedEnd(r, 0) = 0
    BY DEF PackedEnd
  <2> QED
    BY <1>1, <1>2, <2>1
<1>6. ASSUME NEW k \in 1..all, k - 1 \in S PROVE k \in S
  <2>1. /\ Ends(r)[k] = Ends(r)[k - 1] + BitsOf(r, k) /\ SizeOf(r, k) \in Nat
    BY PlaceIs, BitsAre DEF PlaceOf, Aligned
  <2>2. Ends(r)[k - 1] = first + PackedEnd(r, k - 1)
    BY <1>6
  <2>3. PackedEnd(r, k) = PackedEnd(r, k - 1) + BitsOf(r, k) /\ PackedEnd(r, k - 1) \in Int /\ BitsOf(r, k) \in Int
    <3>1. CASE k = 1
      <4>1. PackedEnd(r, k - 1) = 0
        BY <3>1 DEF PackedEnd
      <4>2. BitsOf(r, k) = (IF final.isPacked THEN 1 + MAX_BIT_NUMBER_BITS ELSE 1) + SizeOf(r, k)
        BY <3>1 DEF BitsOf, BitSizeOfDescriptor
      <4>3. plain[1] = SizeOf(r, 1)
        <5>1. plain[k] = plain[k - 1] + SizeOf(r, k) /\ k - 1 = 0
          BY <1>4, <3>1
        <5> HIDE DEF plain
        <5> QED
          BY <1>4, <2>1, <3>1, <5>1
      <4>4. PackedEnd(r, k) = IF final.isPacked THEN 1 + MAX_BIT_NUMBER_BITS + SizeOf(r, 1) + 0 * bits
                              ELSE 1 + plain[1]
        BY <3>1 DEF PackedEnd
      <4>5. 0 * bits = 0
        BY <1>3
      <4> HIDE DEF final, bits, plain
      <4> QED
        BY <1>3, <2>1, <3>1, <4>1, <4>2, <4>3, <4>4, <4>5
    <3>2. CASE k # 1 /\ final.isPacked
      <4>1. BitsOf(r, k) = bits
        BY <3>2 DEF BitsOf
      <4>2. /\ PackedEnd(r, k) = 1 + MAX_BIT_NUMBER_BITS + SizeOf(r, 1) + (k - 1) * bits
            /\ PackedEnd(r, k - 1) = 1 + MAX_BIT_NUMBER_BITS + SizeOf(r, 1) + ((k - 1) - 1) * bits
        BY <3>2 DEF PackedEnd
      <4>3. (k - 1) * bits = ((k - 1) - 1) * bits + bits /\ ((k - 1) - 1) * bits \in Int
        <5> HIDE DEF bits
        <5> QED
          BY <1>3
      <4>4. SizeOf(r, 1) \in Int
        <5>1. 1 \in 1..Len(r.array)
          OBVIOUS
        <5> QED
          BY <5>1, BitsAre
      <4> HIDE DEF bits
      <4> QED
        BY <1>3, <4>1, <4>2, <4>3, <4>4
    <3>3. CASE k # 1 /\ ~final.isPacked
      <4>1. BitsOf(r, k) = SizeOf(r, k)
        BY <3>3 DEF BitsOf
      <4>2. PackedEnd(r, k) = 1 + plain[k] /\ PackedEnd(r, k - 1) = 1 + plain[k - 1]
        BY <3>3 DEF PackedEnd
      <4>3. plain[k] = plain[k - 1] + SizeOf(r, k) /\ plain[k - 1] \in Nat
        BY <1>4
      <4> HIDE DEF plain
      <4> QED
        BY <2>1, <4>1, <4>2, <4>3
    <3> QED
      BY <3>1, <3>2, <3>3
  <2> HIDE DEF first
  <2>4. Ends(r)[k] = first + PackedEnd(r, k)
    BY <1>1, <2>1, <2>2, <2>3
  <2>5. k \in 0..Len(r.array)
    OBVIOUS
  <2> QED
    BY <2>4, <2>5 DEF first
<1>7. \A k \in 0..Len(r.array) : k \in S
  <2>1. S \in SUBSET Nat
    OBVIOUS
  <2> HIDE DEF S
  <2> QED
    BY <1>1, <1>5, <1>6, <2>1, AllEnds
<1> QED
  BY <1>7
-------------------------------------------------------------------------------
(* The array of the state, and the inductive invariant.                    *)

This == [element |-> element, type |-> type, packed |-> packed, array |-> array, start |-> start]

LEMMA ThisIs ==
  /\ This.element = element /\ This.type = type /\ This.packed = packed /\ This.array = array
  /\ This.start = start
  /\ LengthBits = LengthOf(This) /\ ElementPosition = Aligned(This, position)
  /\ IsAligned = Aligns(This) /\ IsAuto = HasLength(This)
<1>1. /\ This.element = element /\ This.type = type /\ This.packed = packed /\ This.array = array
      /\ This.start = start
  BY DEF This
<1>2. IsAligned = Aligns(This) /\ IsAuto = HasLength(This)
  BY <1>1 DEF IsAligned, Aligns, IsAuto, HasLength
<1>3. LengthBits = LengthOf(This) /\ ElementPosition = Aligned(This, position)
  BY <1>1, <1>2 DEF LengthBits, LengthOf, ElementPosition, Aligned
<1> QED
  BY <1>1, <1>2, <1>3

\* The contexts operations start with.
LEMMA ContextsStart ==
  ASSUME packed \in BOOLEAN
  PROVE  InitContext = MeasuringContext(This, 0) /\ InitContext = WritingContext(This, 0)
         /\ NewContext = ReadingContext(This, 0)
<1>1. InitContext = IF packed THEN InitOf(element, array) ELSE NewContext
  BY DEF InitContext, InitOf
<1> QED
  BY <1>1, ThisIs DEF MeasuringContext, WritingContext, ReadingContext

\* A walk over n elements, of which index are behind it.
Walks(n) ==
  /\ index \in 0..n
  /\ status = IF index = n THEN "done" ELSE "busy"
  /\ position = Ends(This)[index]

\* The offsets, the fields and the places of the first n elements.
HasOffsets(n) ==
  /\ offsets \in Seq(Nat)
  /\ IsAligned => Len(offsets) = n /\ \A k \in 1..n : offsets[k] = PlaceOf(This, k) \div 8

HasFields(n) ==
  /\ stream \in Seq(Coded(This, n))
  /\ Range(stream) = Coded(This, n)

HasPlaces(n) ==
  /\ places \in Seq(Nat)
  /\ Len(places) = n /\ \A k \in 1..n : places[k] = PlaceOf(This, k)

\* The vector read into holds the first n elements.
HasElements(n) == n =< Len(rawArray) /\ n =< Len(array) /\ \A k \in 1..n : rawArray[k] = array[k]

Sound ==
  /\ Sensible(This)
  /\ operation \in {"new", "bitSizeOf", "initializeOffsets", "write", "read"}
  /\ status \in {"busy", "done", "thrown"}
  /\ index \in 0..Len(array)
  /\ position \in Nat /\ bitSize \in Nat /\ offsetsSize \in Nat /\ cut \in Nat /\ readLength \in Nat
  /\ context \in Contexts
  /\ rawArray \in Seq(Values(element))
  /\ garbled = FALSE

NotBegun ==
  /\ operation \in {"new", "bitSizeOf"} => offsets = <<>>
  /\ operation \in {"new", "bitSizeOf", "initializeOffsets"} => places = <<>>
  /\ operation # "read" => rawArray = <<>>

Measures ==
  operation \in {"bitSizeOf", "initializeOffsets"} =>
    Walks(Len(array)) /\ context = MeasuringContext(This, index)

Sized ==
  /\ operation = "bitSizeOf" => bitSize = Ends(This)[index] - start
  /\ operation \in {"initializeOffsets", "write", "read"} => bitSize = Ends(This)[Len(array)] - start

Offset ==
  /\ operation = "initializeOffsets" => offsetsSize = Ends(This)[index] - start /\ HasOffsets(index)
  /\ operation \in {"write", "read"} => HasOffsets(Len(array))

Writes ==
  operation = "write" =>
    /\ cut =< bitSize
    /\ status = "thrown" => cut > 0
    /\ status # "thrown" =>
         Walks(Len(array)) /\ position =< BufferBitSize /\ context = WritingContext(This, index)
         /\ HasFields(index) /\ HasPlaces(index)

\* How many elements are read: of an implicit array, those that fit.
ReadLength ==
  /\ readLength \in 0..Len(array)
  /\ type # "IMPLICIT" \/ cut = 0 => readLength = Len(array)
  /\ type = "IMPLICIT" => start + readLength * ElementBitSize(element, 0) =< BufferBitSize

Reads ==
  operation = "read" =>
    /\ cut =< bitSize
    /\ HasFields(Len(array))
    /\ status = "thrown" =>
         /\ cut > 0 /\ type # "IMPLICIT"
         /\ \E n \in Nat : HasElements(n) /\ Len(rawArray) \in {n, n + 1}
    /\ status # "thrown" =>
         Walks(readLength) /\ ReadLength /\ position =< BufferBitSize /\ context = ReadingContext(This, index)
         /\ HasElements(index) /\ Len(rawArray) = index

Inv == Sound /\ NotBegun /\ Measures /\ Sized /\ Offset /\ Writes /\ Reads

LEMMA InitInv ==
  ASSUME WidthAssumption, ArrayAssumption, Init
  PROVE  Inv
<1>1. /\ element \in ElementTypes /\ type \in AllTypes /\ packed \in BOOLEAN /\ Allowed(element, type, packed)
      /\ start \in Nat /\ array \in Seq(Values(element)) /\ VarSizeBits(Len(array)) \in Nat \ {0}
  BY DEF Init, ArrayAssumption
<1>2. Sensible(This)
  BY <1>1, ThisIs DEF Sensible
<1>3. operation = "new" /\ status = "done" /\ index = 0 /\ position = 0 /\ bitSize = 0 /\ offsetsSize = 0 /\ cut = 0
      /\ readLength = 0 /\ context = NewContext /\ rawArray = <<>> /\ offsets = <<>> /\ places = <<>> /\ garbled = FALSE
  BY DEF Init, Fresh
<1>4. NewContext \in Contexts
  BY NewContextIs
<1>5. Sound
  BY <1>1, <1>2, <1>3, <1>4 DEF Sound
<1>6. NotBegun /\ Measures /\ Sized /\ Offset /\ Writes /\ Reads
  BY <1>3 DEF NotBegun, Measures, Sized, Offset, Writes, Reads
<1> QED
  BY <1>5, <1>6 DEF Inv

\* What the array is does not change.
LEMMA SameArray ==
  ASSUME UNCHANGED Array
  PROVE  This' = This /\ element' = element /\ type' = type /\ packed' = packed /\ array' = array /\ start' = start
         /\ IsAligned' = IsAligned /\ LengthBits' = LengthBits
<1>1. element' = element /\ type' = type /\ packed' = packed /\ array' = array /\ start' = start
  BY DEF Array
<1>2. IsAligned' = IsAligned /\ LengthBits' = LengthBits
  BY <1>1 DEF IsAligned, LengthBits, IsAuto
<1> QED
  BY <1>1, <1>2 DEF This

\* The first part of the invariant goes on to hold.
LEMMA SoundGoesOn ==
  ASSUME Sound, UNCHANGED Array,
         operation' \in {"new", "bitSizeOf", "initializeOffsets", "write", "read"},
         status' \in {"busy", "done", "thrown"}, index' \in 0..Len(array), position' \in Nat, bitSize' \in Nat,
         offsetsSize' \in Nat, cut' \in Nat, readLength' \in Nat, context' \in Contexts,
         rawArray' \in Seq(Values(element)), garbled' = FALSE
  PROVE  Sound'
<1>1. This' = This /\ array' = array /\ element' = element
  BY SameArray
<1>2. Sensible(This)'
  BY <1>1 DEF Sound
<1> QED
  BY <1>1, <1>2 DEF Sound

\* An operation starts in front of the first element.
LEMMA BeginIs ==
  ASSUME WidthAssumption, Inv, NEW name, NEW n \in Nat, NEW p, p = start + LengthBits, Begin(name, n, p)
  PROVE  /\ operation' = name /\ index' = 0 /\ status' = (IF 0 = n THEN "done" ELSE "busy") /\ position' = p
         /\ p = Ends(This)[0] /\ p \in Nat /\ LengthBits = Ends(This)[0] - start /\ LengthBits \in Nat /\ start \in Nat
         /\ Len(array) \in Nat /\ status' \in {"busy", "done", "thrown"}
<1>1. Sensible(This) /\ array \in Seq(Values(element)) /\ start \in Nat
  BY ThisIs DEF Inv, Sound, Sensible
<1>2. Ends(This)[0] = This.start + LengthOf(This)
  BY <1>1, EndsAre DEF IsEnds
<1>3. LengthBits \in Nat
  BY <1>1, ThisIs DEF Sensible, LengthOf
<1> QED
  BY <1>1, <1>2, <1>3, ThisIs DEF Begin

LEMMA BitSizeOfArrayStep ==
  ASSUME WidthAssumption, Inv, BitSizeOfArray
  PROVE  Inv'
<1>1. /\ operation = "new" /\ Begin("bitSizeOf", Len(array), start + LengthBits)
      /\ bitSize' = LengthBits /\ context' = InitContext /\ UNCHANGED Array
      /\ UNCHANGED <<offsetsSize, offsets, stream, places, cut, rawArray, readLength, garbled>>
  BY DEF BitSizeOfArray
<1>2. Len(array) \in Nat
  BY DEF Inv, Sound
<1>3. /\ operation' = "bitSizeOf" /\ index' = 0 /\ status' = (IF 0 = Len(array) THEN "done" ELSE "busy")
      /\ position' = start + LengthBits /\ start + LengthBits = Ends(This)[0] /\ start + LengthBits \in Nat
      /\ LengthBits = Ends(This)[0] - start /\ LengthBits \in Nat /\ status' \in {"busy", "done", "thrown"}
  BY <1>1, <1>2, BeginIs
<1>4. This' = This /\ array' = array /\ element' = element /\ start' = start
  BY <1>1, SameArray
<1>5. context' = MeasuringContext(This, 0) /\ context' \in Contexts
  <2>1. packed \in BOOLEAN /\ Sensible(This) /\ 0 \in 0..Len(This.array)
    BY <1>2, ThisIs DEF Inv, Sound, Sensible
  <2> QED
    BY <1>1, <2>1, ContextsStart, ContextsAre
<1>6. Sound'
  <2>1. Sound
    BY DEF Inv
  <2>2. offsetsSize' \in Nat /\ cut' \in Nat /\ readLength' \in Nat /\ rawArray' \in Seq(Values(element))
        /\ garbled' = FALSE
    BY <1>1, <2>1 DEF Sound
  <2>3. 0 \in 0..Len(array) /\ bitSize' \in Nat /\ offsetsSize' \in Nat
    BY <1>1, <1>2, <1>3, <2>1 DEF Sound
  <2> QED
    BY <1>1, <1>3, <1>5, <2>1, <2>2, <2>3, SoundGoesOn
<1>7. NotBegun'
  BY <1>1, <1>3 DEF Inv, NotBegun
<1>8. Measures'
  BY <1>2, <1>3, <1>4, <1>5 DEF Measures, Walks
<1>9. Sized'
  BY <1>1, <1>3, <1>4 DEF Sized
<1>10. Offset' /\ Writes' /\ Reads'
  BY <1>3 DEF Offset, Writes, Reads
<1> QED
  BY <1>6, <1>7, <1>8, <1>9, <1>10 DEF Inv

LEMMA InitializeOffsetsStep ==
  ASSUME WidthAssumption, Inv, InitializeOffsets
  PROVE  Inv'
<1>1. /\ operation = "bitSizeOf" /\ status = "done" /\ Begin("initializeOffsets", Len(array), start + LengthBits)
      /\ offsetsSize' = LengthBits /\ context' = InitContext /\ UNCHANGED Array
      /\ UNCHANGED <<bitSize, offsets, stream, places, cut, rawArray, readLength, garbled>>
  BY DEF InitializeOffsets
<1>2. Len(array) \in Nat
  BY DEF Inv, Sound
<1>3. /\ operation' = "initializeOffsets" /\ index' = 0 /\ status' = (IF 0 = Len(array) THEN "done" ELSE "busy")
      /\ position' = start + LengthBits /\ start + LengthBits = Ends(This)[0] /\ start + LengthBits \in Nat
      /\ LengthBits = Ends(This)[0] - start /\ LengthBits \in Nat /\ status' \in {"busy", "done", "thrown"}
  BY <1>1, <1>2, BeginIs
<1>4. This' = This /\ array' = array /\ element' = element /\ start' = start
  BY <1>1, SameArray
<1>5. context' = MeasuringContext(This, 0) /\ context' \in Contexts
  <2>1. packed \in BOOLEAN /\ Sensible(This) /\ 0 \in 0..Len(This.array)
    BY <1>2, ThisIs DEF Inv, Sound, Sensible
  <2> QED
    BY <1>1, <2>1, ContextsStart, ContextsAre
<1>6. Sound'
  <2>1. Sound
    BY DEF Inv
  <2>2. bitSize' \in Nat /\ cut' \in Nat /\ readLength' \in Nat /\ rawArray' \in Seq(Values(element))
        /\ garbled' = FALSE
    BY <1>1, <2>1 DEF Sound
  <2>3. 0 \in 0..Len(array) /\ bitSize' \in Nat /\ offsetsSize' \in Nat
    BY <1>1, <1>2, <1>3, <2>1 DEF Sound
  <2> QED
    BY <1>1, <1>3, <1>5, <2>1, <2>2, <2>3, SoundGoesOn
<1>7. NotBegun'
  BY <1>1, <1>3 DEF Inv, NotBegun
<1>8. Measures'
  BY <1>2, <1>3, <1>4, <1>5 DEF Measures, Walks
<1>9. Sized'
  <2>1. index = Len(array) /\ bitSize = Ends(This)[index] - start
    BY <1>1 DEF Inv, Measures, Walks, Sized
  <2> QED
    BY <1>1, <1>3, <1>4, <2>1 DEF Sized
<1>10. Offset'
  <2>1. offsets' = <<>>
    BY <1>1 DEF Inv, NotBegun
  <2> QED
    BY <1>1, <1>3, <1>4, <2>1 DEF Offset, HasOffsets
<1>11. Writes' /\ Reads'
  BY <1>3 DEF Writes, Reads
<1> QED
  BY <1>6, <1>7, <1>8, <1>9, <1>10, <1>11 DEF Inv

\* A walk stands in front of an element.
LEMMA ElementIs ==
  ASSUME WidthAssumption, Inv, NEW n \in Nat, n =< Len(array), Walks(n), status = "busy", NEW k, k = index + 1
  PROVE  /\ k \in 1..n /\ k \in 1..Len(array) /\ k - 1 = index /\ n \in Nat
         /\ ElementPosition = PlaceOf(This, k) /\ PlaceOf(This, k) \in Nat /\ Ends(This)[k] \in Nat
         /\ array[k] \in Values(element) /\ Ends(This)[k] =< Ends(This)[Len(array)]
         /\ Ends(This)[Len(array)] \in Nat
<1>1. index \in 0..n /\ position = Ends(This)[index] /\ index # n
  BY DEF Walks
<1>2. k \in 1..n /\ k \in 1..Len(array) /\ k - 1 = index
  BY <1>1 DEF Inv, Sound
<1>3. ElementPosition = PlaceOf(This, k)
  BY <1>1, <1>2, ThisIs DEF PlaceOf
<1>4. Sensible(This) /\ k \in 1..Len(This.array)
  BY <1>2, ThisIs DEF Inv, Sound
<1>5. PlaceOf(This, k) \in Nat /\ Ends(This)[k] \in Nat /\ array[k] \in Values(element)
  BY <1>4, PlaceIs, BitsAre, ThisIs
<1>6. Ends(This)[k] =< Ends(This)[Len(array)] /\ Ends(This)[Len(array)] \in Nat
  <2>1. k \in 0..Len(This.array) /\ Len(array) \in 0..Len(This.array) /\ k =< Len(array)
    BY <1>2, ThisIs DEF Inv, Sound
  <2> QED
    BY <1>4, <2>1, EndsGrow
<1> QED
  BY <1>2, <1>3, <1>5, <1>6

\* bitSizeOf of one element.
LEMMA MeasuredIs ==
  ASSUME WidthAssumption, Inv, NEW k \in 1..Len(array), context = MeasuringContext(This, k - 1),
         NEW measured, measured = IF packed THEN BitSizeOf(element, context, array[k])
                                  ELSE [context |-> context, size |-> ElementBitSize(element, array[k])]
  PROVE  measured.context = MeasuringContext(This, k) /\ measured.size = BitsOf(This, k)
<1>1. Sensible(This) /\ k \in 1..Len(This.array)
  BY ThisIs DEF Inv, Sound
<1>2. CASE packed
  <2>1. This.packed
    BY <1>2, ThisIs
  <2>2. BitSizeOf(This.element, MeasuringContext(This, k - 1), This.array[k])
          = [context |-> FinalOf(This), size |-> BitsOf(This, k)]
    BY <1>1, <2>1, MeasureIs
  <2>3. BitSizeOf(element, context, array[k]) = [context |-> FinalOf(This), size |-> BitsOf(This, k)]
    BY <2>2, ThisIs
  <2>4. MeasuringContext(This, k) = FinalOf(This)
    BY <1>1, <2>1 DEF MeasuringContext
  <2> QED
    BY <1>2, <2>3, <2>4
<1>3. CASE ~packed
  <2>1. ~This.packed
    BY <1>3, ThisIs
  <2>2. BitsOf(This, k) = ElementBitSize(element, array[k])
    BY <2>1, ThisIs DEF BitsOf, SizeOf
  <2>3. MeasuringContext(This, k) = NewContext /\ context = NewContext
    BY <2>1 DEF MeasuringContext
  <2> QED
    BY <1>3, <2>2, <2>3
<1> QED
  BY <1>2, <1>3

LEMMA MeasureElementStep ==
  ASSUME WidthAssumption, Inv, MeasureElement
  PROVE  Inv'
<1> DEFINE k == index + 1
           v == array[k]
           p == ElementPosition
           measured == IF packed THEN BitSizeOf(element, context, v)
                       ELSE [context |-> context, size |-> ElementBitSize(element, v)]
           end == p + measured.size
<1>1. /\ operation \in {"bitSizeOf", "initializeOffsets"} /\ status = "busy"
      /\ position' = end /\ context' = measured.context /\ index' = k
      /\ status' = IF k = Len(array) THEN "done" ELSE "busy"
      /\ UNCHANGED Array /\ UNCHANGED <<operation, stream, places, cut, rawArray, readLength, garbled>>
      /\ operation = "bitSizeOf" => bitSize' = end - start /\ UNCHANGED <<offsetsSize, offsets>>
      /\ operation = "initializeOffsets" => offsetsSize' = end - start /\ offsets' = SetOffset(p) /\ UNCHANGED bitSize
  BY DEF MeasureElement
<1>2. /\ Len(array) \in Nat /\ Walks(Len(array)) /\ context = MeasuringContext(This, index)
      /\ Sensible(This)
  BY <1>1 DEF Inv, Sound, Measures
<1> HIDE DEF k, v, measured, end, p
<1>3. /\ k \in 1..Len(array) /\ k - 1 = index /\ p = PlaceOf(This, k) /\ Ends(This)[k] \in Nat
      /\ p \in Nat
  BY <1>1, <1>2, ElementIs DEF k, p
<1>4. measured.context = MeasuringContext(This, k) /\ measured.size = BitsOf(This, k)
  BY <1>2, <1>3, MeasuredIs DEF measured, v
<1>5. end = Ends(This)[k] /\ k \in 1..Len(This.array)
  BY <1>2, <1>3, <1>4, PlaceIs, ThisIs DEF end
<1>6. start \in Nat /\ start =< end
  <2>1. 0 \in 0..Len(This.array) /\ k \in 0..Len(This.array) /\ 0 =< k
    BY <1>2, <1>3, ThisIs
  <2>2. Ends(This)[0] =< Ends(This)[k] /\ Ends(This)[0] = start + LengthOf(This) /\ LengthOf(This) \in Nat
        /\ start \in Nat
    BY <1>2, <2>1, EndsGrow, EndsAre, ThisIs DEF IsEnds, Sensible, LengthOf
  <2> QED
    BY <1>3, <1>5, <2>2
<1>7. This' = This /\ array' = array /\ element' = element /\ start' = start /\ IsAligned' = IsAligned
  BY <1>1, SameArray
<1>8. Walks(Len(array))' /\ status' \in {"busy", "done", "thrown"}
  <2>1. index' \in 0..Len(array)' /\ status' = (IF index' = Len(array)' THEN "done" ELSE "busy")
        /\ position' = Ends(This)[k]
    BY <1>1, <1>2, <1>3, <1>5, <1>7
  <2> QED
    BY <1>1, <1>7, <2>1 DEF Walks
<1>9. context' = MeasuringContext(This, k) /\ context' \in Contexts
  <2>1. k \in 0..Len(This.array)
    BY <1>3, ThisIs
  <2> QED
    BY <1>1, <1>2, <1>4, <2>1, ContextsAre
<1>10. end - start \in Nat
  BY <1>3, <1>5, <1>6
<1>11. Sound'
  <2>1. Sound
    BY DEF Inv
  <2>2. /\ bitSize' \in Nat /\ offsetsSize' \in Nat /\ cut' \in Nat /\ readLength' \in Nat
        /\ rawArray' \in Seq(Values(element)) /\ garbled' = FALSE
    BY <1>1, <1>10, <2>1 DEF Sound
  <2>3. /\ operation' \in {"new", "bitSizeOf", "initializeOffsets", "write", "read"}
        /\ index' \in 0..Len(array) /\ position' \in Nat
    BY <1>1, <1>3, <1>5, <2>1 DEF Sound
  <2> QED
    BY <1>1, <1>8, <1>9, <2>1, <2>2, <2>3, SoundGoesOn
<1>12. NotBegun'
  BY <1>1 DEF Inv, NotBegun
<1>13. Measures'
  BY <1>1, <1>7, <1>8, <1>9 DEF Measures
<1>14. Sized'
  BY <1>1, <1>5, <1>7 DEF Inv, Sized
<1>15. Offset'
  <2>1. CASE operation = "bitSizeOf"
    BY <1>1, <2>1 DEF Offset
  <2>2. CASE operation = "initializeOffsets"
    <3>1. offsets' = SetOffset(p) /\ HasOffsets(index)
      BY <1>1, <2>2 DEF Inv, Offset
    <3>2. /\ offsets' \in Seq(Nat)
          /\ IsAligned => Len(offsets') = k /\ \A j \in 1..k : offsets'[j] = PlaceOf(This, j) \div 8
      <4>1. CASE ~IsAligned
        <5>1. offsets' = offsets /\ offsets \in Seq(Nat)
          BY <3>1, <4>1 DEF SetOffset, HasOffsets
        <5> QED
          BY <4>1, <5>1
      <4>2. CASE IsAligned
        <5> DEFINE o == p \div 8
        <5>1. offsets' = Append(offsets, o)
          BY <3>1, <4>2 DEF SetOffset
        <5>2. offsets \in Seq(Nat) /\ Len(offsets) = index /\ \A j \in 1..index : offsets[j] = PlaceOf(This, j) \div 8
          BY <3>1, <4>2 DEF HasOffsets
        <5>3. o \in Nat /\ o = PlaceOf(This, k) \div 8
          BY <1>3
        <5> HIDE DEF o
        <5>4. offsets' \in Seq(Nat) /\ Len(offsets') = index + 1 /\ offsets'[index + 1] = o
              /\ \A j \in 1..index : offsets'[j] = offsets[j]
          BY <5>1, <5>2, <5>3
        <5>5. k = index + 1 /\ index \in Nat
          BY DEF k, Inv, Sound
        <5>6. ASSUME NEW j \in 1..k PROVE offsets'[j] = PlaceOf(This, j) \div 8
          <6>1. j \in 1..index \/ j = k
            BY <5>5
          <6> QED
            BY <5>2, <5>3, <5>4, <5>5, <6>1
        <5> QED
          BY <5>4, <5>5, <5>6
      <4> QED
        BY <4>1, <4>2
    <3>3. HasOffsets(index)'
      BY <1>1, <1>7, <3>2 DEF HasOffsets
    <3> QED
      BY <1>1, <1>5, <1>7, <2>2, <3>3 DEF Offset
  <2> QED
    BY <1>1, <2>1, <2>2
<1>16. Writes' /\ Reads'
  BY <1>1 DEF Writes, Reads
<1> QED
  BY <1>11, <1>12, <1>13, <1>14, <1>15, <1>16 DEF Inv

\* The hidden length is what stands in front of the first element.
LEMMA LengthFieldIs ==
  ASSUME WidthAssumption, NEW r, Sensible(r), NEW s,
         s = IF HasLength(r) THEN <<Field("length", Len(r.array), VarSizeBits(Len(r.array)))>> ELSE <<>>
  PROVE  /\ EndOf(s, r.start) = Ends(r)[0]
         /\ Range(Placed(s, r.start)) = Coded(r, 0) /\ Placed(s, r.start) \in Seq(Coded(r, 0))
<1>1. Coded(r, 0) = LengthFields(r)
  <2>1. 1..0 = {}
    OBVIOUS
  <2>2. UNION {FieldsOf(r, k) : k \in 1..0} = {}
    BY <2>1
  <2> QED
    BY <2>2 DEF Coded
<1>2. Ends(r)[0] = r.start + LengthOf(r)
  BY EndsAre DEF IsEnds
<1>3. r.start \in Nat
  BY DEF Sensible
<1>4. CASE HasLength(r)
  <2> DEFINE f == Field("length", Len(r.array), VarSizeBits(Len(r.array)))
             p == r.start
  <2>1. f.bits = VarSizeBits(Len(r.array)) /\ VarSizeBits(Len(r.array)) \in Nat
    BY DEF Field, Sensible
  <2>2. s = <<f>> /\ LengthFields(r) = {Put(p, f)} /\ Ends(r)[0] = p + f.bits
    BY <1>2, <1>4, <2>1 DEF LengthFields, LengthOf
  <2> HIDE DEF f, p
  <2>3. p \in Nat /\ f.bits \in Nat
    BY <1>3, <2>1 DEF p
  <2>4. Placed(<<f>>, p) = <<Put(p, f)>> /\ EndOf(<<f>>, p) = p + f.bits
    BY <2>3, PlacedOne
  <2>5. Range(<<Put(p, f)>>) = {Put(p, f)} /\ <<Put(p, f)>> \in Seq({Put(p, f)})
    BY RangeIs
  <2> QED
    BY <1>1, <2>2, <2>4, <2>5 DEF p
<1>5. CASE ~HasLength(r)
  <2>1. s = <<>> /\ LengthFields(r) = {} /\ Ends(r)[0] = r.start + 0
    BY <1>2, <1>5 DEF LengthFields, LengthOf
  <2>2. Placed(<<>>, r.start) = <<>> /\ EndOf(<<>>, r.start) = r.start
    BY <1>3, PlacedNone
  <2>3. Range(<<>>) = {} /\ <<>> \in Seq({})
    BY RangeIs
  <2>4. Ends(r)[0] = r.start
    BY <1>3, <2>1
  <2> QED
    BY <1>1, <2>1, <2>2, <2>3, <2>4
<1> QED
  BY <1>4, <1>5

LEMMA WriteArrayStep ==
  ASSUME WidthAssumption, Inv, NEW d \in Nat, WriteArray(d)
  PROVE  Inv'
<1> DEFINE length == IF IsAuto THEN <<Field("length", Len(array), VarSizeBits(Len(array)))>> ELSE <<>>
           end == EndOf(length, start)
           limit == start + bitSize - d
<1>1. /\ operation = "initializeOffsets" /\ status = "done" /\ d =< bitSize /\ cut' = d /\ context' = InitContext
      /\ UNCHANGED Array /\ UNCHANGED <<bitSize, offsetsSize, offsets, places, rawArray, readLength, garbled>>
      /\ IF end > limit
         THEN operation' = "write" /\ status' = "thrown" /\ UNCHANGED <<index, position, stream>>
         ELSE Begin("write", Len(array), end) /\ stream' = Placed(length, start)
  BY DEF WriteArray
<1>2. /\ Len(array) \in Nat /\ Sensible(This) /\ index = Len(array) /\ bitSize = Ends(This)[Len(array)] - start
      /\ bitSize \in Nat /\ start \in Nat /\ packed \in BOOLEAN
  BY <1>1, ThisIs DEF Inv, Sound, Measures, Walks, Sized, Sensible
<1>3. end = Ends(This)[0] /\ Range(Placed(length, start)) = Coded(This, 0)
      /\ Placed(length, start) \in Seq(Coded(This, 0))
  <2>1. length = IF HasLength(This) THEN <<Field("length", Len(This.array), VarSizeBits(Len(This.array)))>> ELSE <<>>
    BY ThisIs
  <2> HIDE DEF length
  <2> QED
    BY <1>2, <2>1, LengthFieldIs, ThisIs
<1> HIDE DEF length, end
<1>4. /\ 0 \in 0..Len(This.array) /\ Len(array) \in 0..Len(This.array)
      /\ Ends(This)[0] \in Nat /\ Ends(This)[Len(array)] \in Nat /\ Ends(This)[0] =< Ends(This)[Len(array)]
  <2>1. 0 \in 0..Len(This.array) /\ Len(array) \in 0..Len(This.array) /\ 0 =< Len(array)
    BY <1>2, ThisIs
  <2> QED
    BY <1>2, <2>1, EndsGrow
<1>5. This' = This /\ array' = array /\ element' = element /\ start' = start /\ IsAligned' = IsAligned
  BY <1>1, SameArray
<1>6. operation' = "write"
  BY <1>1 DEF Begin
<1>7. context' = WritingContext(This, 0) /\ context' \in Contexts
  BY <1>1, <1>2, <1>4, ContextsStart, ContextsAre
<1>8. BufferBitSize' = limit
  BY <1>1, <1>5 DEF BufferBitSize
<1>9. CASE end > limit
  <2>1. d > 0
    BY <1>2, <1>3, <1>4, <1>9
  <2>2. status' = "thrown" /\ index' = index /\ position' = position
    BY <1>1, <1>9
  <2>3. Sound'
    <3>1. Sound
      BY DEF Inv
    <3>2. /\ bitSize' \in Nat /\ offsetsSize' \in Nat /\ cut' \in Nat /\ readLength' \in Nat
          /\ rawArray' \in Seq(Values(element)) /\ garbled' = FALSE /\ index' \in 0..Len(array) /\ position' \in Nat
      BY <1>1, <2>2, <3>1 DEF Sound
    <3> QED
      BY <1>1, <1>6, <1>7, <2>2, <3>1, <3>2, SoundGoesOn
  <2>4. Writes'
    BY <1>1, <1>6, <2>1, <2>2 DEF Writes
  <2> QED
    <3>1. NotBegun' /\ Measures' /\ Reads'
      BY <1>1, <1>6 DEF Inv, NotBegun, Measures, Reads
    <3>2. Sized'
      BY <1>1, <1>2, <1>5, <1>6 DEF Sized
    <3>3. Offset'
      BY <1>1, <1>2, <1>5, <1>6 DEF Inv, Offset, HasOffsets
    <3> QED
      BY <2>3, <2>4, <3>1, <3>2, <3>3 DEF Inv
<1>10. CASE ~(end > limit)
  <2>1. Begin("write", Len(array), end) /\ stream' = Placed(length, start)
    BY <1>1, <1>10
  <2>2. index' = 0 /\ status' = (IF 0 = Len(array) THEN "done" ELSE "busy") /\ position' = Ends(This)[0]
    BY <1>3, <2>1 DEF Begin
  <2>3. Sound'
    <3>1. Sound
      BY DEF Inv
    <3>2. /\ bitSize' \in Nat /\ offsetsSize' \in Nat /\ cut' \in Nat /\ readLength' \in Nat
          /\ rawArray' \in Seq(Values(element)) /\ garbled' = FALSE /\ index' \in 0..Len(array) /\ position' \in Nat
          /\ status' \in {"busy", "done", "thrown"}
      BY <1>1, <1>2, <1>4, <2>2, <3>1 DEF Sound
    <3> QED
      BY <1>1, <1>6, <1>7, <3>1, <3>2, SoundGoesOn
  <2>4. Walks(Len(array))'
    BY <1>2, <1>5, <2>2 DEF Walks
  <2>5. HasFields(index)'
    BY <1>3, <1>5, <2>1, <2>2 DEF HasFields
  <2>6. HasPlaces(index)'
    <3>1. places' = <<>>
      BY <1>1 DEF Inv, NotBegun
    <3> QED
      BY <1>5, <2>2, <3>1 DEF HasPlaces
  <2>7. Writes'
    <3>1. cut' =< bitSize' /\ status' # "thrown"
      BY <1>1, <2>2
    <3>2. position' =< BufferBitSize'
      BY <1>2, <1>3, <1>4, <1>8, <1>10, <2>2
    <3>3. context' = WritingContext(This', index')
      BY <1>5, <1>7, <2>2
    <3> QED
      BY <2>4, <2>5, <2>6, <3>1, <3>2, <3>3 DEF Writes
  <2> QED
    <3>1. NotBegun' /\ Measures' /\ Reads'
      BY <1>1, <1>6 DEF Inv, NotBegun, Measures, Reads
    <3>2. Sized'
      BY <1>1, <1>2, <1>5, <1>6 DEF Sized
    <3>3. Offset'
      BY <1>1, <1>2, <1>5, <1>6 DEF Inv, Offset, HasOffsets
    <3> QED
      BY <2>3, <2>7, <3>1, <3>2, <3>3 DEF Inv
<1> QED
  BY <1>9, <1>10

LEMMA CodedGrows ==
  ASSUME NEW r, NEW k \in Nat \ {0}
  PROVE  Coded(r, k) = Coded(r, k - 1) \union FieldsOf(r, k)
<1>1. 1..k = (1..(k - 1)) \union {k}
  OBVIOUS
<1>2. UNION {FieldsOf(r, j) : j \in 1..k} = (UNION {FieldsOf(r, j) : j \in 1..(k - 1)}) \union FieldsOf(r, k)
  BY <1>1
<1> QED
  BY <1>2 DEF Coded

\* The sequence s holds what is in S, and nothing else.
Holds(s, S) == s \in Seq(S) /\ Range(s) = S

LEMMA HoldsBoth ==
  ASSUME NEW S, NEW T, NEW s, Holds(s, S), NEW t, Holds(t, T)
  PROVE  Holds(s \o t, S \union T)
<1>1. s \in Seq(S) /\ t \in Seq(T) /\ Range(s) = S /\ Range(t) = T
  BY DEF Holds
<1>2. s \o t \in Seq(S \union T) /\ Range(s \o t) = Range(s) \union Range(t)
  BY <1>1, RangeOfBoth
<1> QED
  BY <1>1, <1>2 DEF Holds

LEMMA WriteElementStep ==
  ASSUME WidthAssumption, Inv, WriteElement
  PROVE  Inv'
<1> DEFINE k == index + 1
           v == array[k]
           p == ElementPosition
           written == IF packed THEN Write(element, context, v)
                      ELSE [context |-> context, refused |-> FALSE,
                            fields |-> <<Field("element", v, ElementBitSize(element, v))>>]
           end == EndOf(written.fields, p)
           fits == end =< BufferBitSize /\ ~written.refused
<1>1. /\ operation = "write" /\ status = "busy"
      /\ \/ /\ fits
            /\ position' = end /\ context' = written.context
            /\ stream' = stream \o Placed(written.fields, p) /\ places' = Append(places, p)
            /\ index' = k /\ status' = IF k = Len(array) THEN "done" ELSE "busy"
         \/ ~fits /\ status' = "thrown" /\ UNCHANGED <<position, context, stream, places, index>>
      /\ UNCHANGED Array
      /\ UNCHANGED <<operation, bitSize, offsetsSize, offsets, cut, rawArray, readLength, garbled>>
  BY DEF WriteElement
<1>2. /\ Len(array) \in Nat /\ Walks(Len(array)) /\ context = WritingContext(This, index)
      /\ Sensible(This) /\ HasFields(index) /\ HasPlaces(index) /\ cut =< bitSize /\ position =< BufferBitSize
      /\ bitSize = Ends(This)[Len(array)] - start /\ cut \in Nat /\ start \in Nat /\ Sound
  BY <1>1, ThisIs DEF Inv, Sound, Writes, Sized, Sensible
<1>3. written = Written(This, k, context)
  BY ThisIs DEF Written, SizeOf
<1> HIDE DEF k, v, written, end, p, fits
<1>4. /\ k \in 1..Len(array) /\ k - 1 = index /\ p = PlaceOf(This, k) /\ Ends(This)[k] \in Nat
      /\ p \in Nat /\ Ends(This)[k] =< Ends(This)[Len(array)] /\ Ends(This)[Len(array)] \in Nat
  BY <1>1, <1>2, ElementIs DEF k, p
<1>5. k \in 1..Len(This.array) /\ k \in 0..Len(This.array)
  BY <1>4, ThisIs
<1>6. written.context = WritingContext(This, k) /\ ~written.refused /\ AreFields(written.fields, This, k)
  BY <1>2, <1>3, <1>4, <1>5, WriteIs
<1>7. /\ end = Ends(This)[k]
      /\ Range(Placed(written.fields, p)) = FieldsOf(This, k) /\ Placed(written.fields, p) \in Seq(FieldsOf(This, k))
  BY <1>4, <1>6 DEF AreFields, end
<1>8. This' = This /\ array' = array /\ element' = element /\ start' = start /\ IsAligned' = IsAligned
  BY <1>1, SameArray
<1>9. BufferBitSize' = BufferBitSize /\ BufferBitSize = Ends(This)[Len(array)] - cut
  BY <1>1, <1>2, <1>4, <1>8 DEF BufferBitSize
<1>10. NotBegun' /\ Measures' /\ Reads'
  BY <1>1 DEF Inv, NotBegun, Measures, Reads
<1>11. Sized' /\ Offset'
  BY <1>1, <1>8 DEF Inv, Sized, Offset, HasOffsets
<1>12. CASE fits
  <2>1. /\ position' = end /\ context' = written.context
        /\ stream' = stream \o Placed(written.fields, p) /\ places' = Append(places, p)
        /\ index' = k /\ status' = IF k = Len(array) THEN "done" ELSE "busy"
    BY <1>1, <1>12
  <2>2. context' = WritingContext(This, k) /\ context' \in Contexts
    BY <1>2, <1>5, <1>6, <2>1, ContextsAre
  <2>3. Sound'
    <3>2. /\ bitSize' \in Nat /\ offsetsSize' \in Nat /\ cut' \in Nat /\ readLength' \in Nat
          /\ rawArray' \in Seq(Values(element)) /\ garbled' = FALSE /\ index' \in 0..Len(array) /\ position' \in Nat
          /\ status' \in {"busy", "done", "thrown"}
          /\ operation' \in {"new", "bitSizeOf", "initializeOffsets", "write", "read"}
      BY <1>1, <1>2, <1>4, <1>7, <2>1 DEF Sound
    <3> QED
      BY <1>1, <1>2, <2>2, <3>2, SoundGoesOn
  <2>4. Walks(Len(array))'
    BY <1>4, <1>7, <1>8, <2>1 DEF Walks
  <2>5. HasFields(index)'
    <3> DEFINE more == Placed(written.fields, p)
    <3>1. Holds(stream, Coded(This, index))
      BY <1>2 DEF HasFields, Holds
    <3>2. Holds(more, FieldsOf(This, k))
      BY <1>7 DEF Holds
    <3>3. Coded(This, k) = Coded(This, index) \union FieldsOf(This, k)
      <4>1. k \in Nat \ {0}
        BY <1>4
      <4> QED
        BY <1>4, <4>1, CodedGrows
    <3> HIDE DEF more
    <3>4. Holds(stream \o more, Coded(This, index) \union FieldsOf(This, k))
      BY ONLY <3>1, <3>2, HoldsBoth, Zenon
    <3>5. Holds(stream', Coded(This, k))
      BY <2>1, <3>3, <3>4 DEF more
    <3> QED
      BY <1>8, <2>1, <3>5 DEF HasFields, Holds
  <2>6. HasPlaces(index)'
    <3>1. places \in Seq(Nat) /\ Len(places) = index /\ \A j \in 1..index : places[j] = PlaceOf(This, j)
      BY <1>2 DEF HasPlaces
    <3>2. places' \in Seq(Nat) /\ Len(places') = index + 1 /\ places'[index + 1] = p
          /\ \A j \in 1..index : places'[j] = places[j]
      BY <1>4, <2>1, <3>1
    <3>3. k = index + 1 /\ index \in Nat
      BY <1>2 DEF k, Sound
    <3>4. ASSUME NEW j \in 1..k PROVE places'[j] = PlaceOf(This, j)
      <4>1. j \in 1..index \/ j = k
        BY <3>3
      <4> QED
        BY <1>4, <3>1, <3>2, <3>3, <4>1
    <3> QED
      BY <1>8, <2>1, <3>2, <3>3, <3>4 DEF HasPlaces
  <2>7. Writes'
    <3>1. cut' =< bitSize' /\ status' # "thrown"
      BY <1>1, <1>2, <2>1
    <3>2. position' =< BufferBitSize'
      BY <1>9, <1>12, <2>1 DEF fits
    <3>3. context' = WritingContext(This', index')
      BY <1>8, <2>1, <2>2
    <3> QED
      BY <2>4, <2>5, <2>6, <3>1, <3>2, <3>3 DEF Writes
  <2> QED
    BY <1>10, <1>11, <2>3, <2>7 DEF Inv
<1>13. CASE ~fits
  <2>1. status' = "thrown" /\ UNCHANGED <<position, context, stream, places, index>>
    BY <1>1, <1>13
  <2>2. cut > 0
    <3>1. ~(end =< BufferBitSize)
      BY <1>6, <1>13 DEF fits
    <3> QED
      BY <1>2, <1>4, <1>7, <1>9, <3>1
  <2>3. Sound'
    <3>2. /\ bitSize' \in Nat /\ offsetsSize' \in Nat /\ cut' \in Nat /\ readLength' \in Nat
          /\ rawArray' \in Seq(Values(element)) /\ garbled' = FALSE /\ index' \in 0..Len(array) /\ position' \in Nat
          /\ status' \in {"busy", "done", "thrown"} /\ context' \in Contexts
          /\ operation' \in {"new", "bitSizeOf", "initializeOffsets", "write", "read"}
      BY <1>1, <1>2, <2>1 DEF Sound
    <3> QED
      BY <1>1, <1>2, <3>2, SoundGoesOn
  <2>4. Writes'
    BY <1>1, <1>2, <2>1, <2>2 DEF Writes
  <2> QED
    BY <1>10, <1>11, <2>3, <2>4 DEF Inv
<1> QED
  BY <1>12, <1>13

\* How many numbers of e bits there are where d bits are missing to N of them.
LEMMA QuotientIs ==
  ASSUME NEW N \in Nat, NEW e \in Nat \ {0}, NEW d \in Nat, NEW x, x = N * e - d, 0 =< x, NEW n, n = x \div e
  PROVE  n \in 0..N /\ n * e =< x /\ (d = 0 => n = N)
<1>1. N * e \in Int /\ x \in Nat
  <2>1. N * e \in Int
    BY Product
  <2> QED
    BY <2>1
<1>2. n \in Nat /\ x = e * n + (x % e) /\ x % e \in 0..(e - 1)
  BY <1>1
<1>3. e * n = n * e /\ n * e \in Int
  BY <1>2
<1>4. n * e =< x /\ x < n * e + e
  BY <1>1, <1>2, <1>3
<1>5. n =< N
  <2> SUFFICES ASSUME n >= N + 1 PROVE FALSE
    BY <1>2
  <2> DEFINE m == n - (N + 1)
  <2>1. m \in Nat /\ n = N + 1 + m
    BY <1>2
  <2> HIDE DEF m
  <2>2. m * e \in Nat
    BY <2>1, Product
  <2>3. n * e = N * e + e + m * e
    BY <2>1
  <2> QED
    BY <1>1, <1>3, <1>4, <2>2, <2>3
<1>6. ASSUME d = 0 PROVE n = N
  <2> SUFFICES ASSUME n # N PROVE FALSE
    OBVIOUS
  <2> DEFINE m == N - (n + 1)
  <2>1. m \in Nat /\ N = n + 1 + m
    BY <1>2, <1>5
  <2> HIDE DEF m
  <2>2. m * e \in Nat
    BY <2>1, Product
  <2>3. N * e = n * e + e + m * e
    BY <1>2, <2>1
  <2> QED
    BY <1>1, <1>3, <1>4, <1>6, <2>2, <2>3
<1> QED
  BY <1>2, <1>4, <1>5, <1>6

\* The reader finds the length, and takes the number of elements from it or from the buffer.
LEMMA LengthIs ==
  ASSUME WidthAssumption, NEW r, Sensible(r), HasLength(r), Range(stream) = Coded(r, Len(r.array))
  PROVE  FieldAt("length", r.start) = Field("length", Len(r.array), VarSizeBits(Len(r.array)))
<1> DEFINE f == Put(r.start, Field("length", Len(r.array), VarSizeBits(Len(r.array))))
<1>1. f \in Coded(r, Len(r.array))
  BY DEF Coded, LengthFields
<1>2. f.field.kind = "length" /\ f.at = r.start /\ f.field = Field("length", Len(r.array), VarSizeBits(Len(r.array)))
  BY DEF Put, Field
<1> HIDE DEF f
<1> QED
  BY <1>1, <1>2, FieldFound

LEMMA ReadArrayStep ==
  ASSUME WidthAssumption, Inv, NEW d \in Nat, ReadArray(d)
  PROVE  Inv'
<1> DEFINE length == FieldAt("length", start)
           p == start + (IF IsAuto THEN length.bits ELSE 0)
           n == IF IsAuto THEN length.value ELSE IF type = "IMPLICIT" THEN Remaining(bitSize - d) ELSE Len(array)
           limit == start + bitSize - d
           least == ElementBitSize(element, 0)
           tooLong == ~packed /\ TooLong(p + n * least, limit)
<1>1. /\ operation = "write" /\ status = "done" /\ cut = 0 /\ d =< bitSize /\ cut' = d
      /\ IF p > limit \/ tooLong
         THEN operation' = "read" /\ status' = "thrown" /\ UNCHANGED <<index, position, readLength>>
         ELSE Begin("read", n, p) /\ readLength' = n
      /\ rawArray' = <<>> /\ context' = NewContext /\ garbled' = (IsAuto /\ length.kind = "none")
      /\ UNCHANGED Array /\ UNCHANGED <<bitSize, offsetsSize, offsets, stream, places>>
  BY DEF ReadArray
<1>2. /\ Len(array) \in Nat /\ Sensible(This) /\ bitSize = Ends(This)[Len(array)] - start
      /\ bitSize \in Nat /\ start \in Nat /\ packed \in BOOLEAN /\ HasFields(index) /\ index = Len(array) /\ Sound
      /\ element \in ElementTypes /\ type \in AllTypes
  BY <1>1, ThisIs DEF Inv, Sound, Writes, Walks, Sized, Sensible
<1>3. Range(stream) = Coded(This, Len(This.array)) /\ HasFields(Len(array))
  BY <1>2, ThisIs DEF HasFields
<1>4. IsAuto => length = Field("length", Len(array), VarSizeBits(Len(array)))
  BY <1>2, <1>3, LengthIs, ThisIs
<1>5. garbled' = FALSE
  <2>1. IsAuto => length.kind # "none"
    BY <1>4 DEF Field
  <2> QED
    BY <1>1, <2>1
<1>6. p = Ends(This)[0] /\ p = start + LengthOf(This)
  <2>1. p = start + LengthOf(This)
    BY <1>4, ThisIs DEF LengthOf, Field
  <2> HIDE DEF p
  <2> QED
    BY <1>2, <2>1, EndsAre, ThisIs DEF IsEnds
<1>7. least \in Nat \ {0}
  <2>1. 0 \in Values(element)
    BY <1>2, ValuesAre
  <2> QED
    BY <1>2, <2>1, BitSizesAre
<1>8. type # "IMPLICIT" => n = Len(array)
  BY <1>4 DEF Field
<1>9. ASSUME type = "IMPLICIT" PROVE n \in 0..Len(array) /\ start + n * least =< limit /\ p = start
                                     /\ (d = 0 => n = Len(array))
  <2>1. ~IsAuto /\ n = (bitSize - d) \div least /\ p = start + 0
    BY <1>9 DEF IsAuto, Remaining
  <2>2. bitSize = Len(array) * least
    <3>1. Len(array) \in 0..Len(This.array) /\ This.type = "IMPLICIT"
      BY <1>2, <1>9, ThisIs
    <3>2. Ends(This)[Len(array)] = start + Len(array) * least
      BY <1>2, <3>1, ImplicitEnds, ThisIs
    <3>3. Len(array) * least \in Int
      BY <1>2, <1>7, Product
    <3> HIDE DEF least
    <3> QED
      BY <1>2, <3>2, <3>3
  <2> DEFINE x == bitSize - d
  <2>3. x = Len(array) * least - d /\ 0 =< x /\ n = x \div least /\ x \in Int
    BY <1>1, <1>2, <2>1, <2>2
  <2> HIDE DEF x, n, least, p
  <2>4. n \in 0..Len(array) /\ n * least =< x /\ (d = 0 => n = Len(array))
    BY <1>2, <1>7, <2>3, QuotientIs
  <2>5. n * least \in Int
    BY <1>7, <2>4
  <2> QED
    BY <1>1, <1>2, <2>1, <2>4, <2>5 DEF x
<1>10. n \in 0..Len(array) /\ (d = 0 => n = Len(array))
  <2> HIDE DEF n
  <2> QED
    BY <1>2, <1>8, <1>9
<1> HIDE DEF length, p, n, tooLong, least
<1>11. /\ 0 \in 0..Len(This.array) /\ Len(array) \in 0..Len(This.array) /\ n \in 0..Len(This.array)
       /\ Ends(This)[0] \in Nat /\ Ends(This)[Len(array)] \in Nat /\ Ends(This)[0] =< Ends(This)[Len(array)]
       /\ Ends(This)[n] \in Nat /\ Ends(This)[n] =< Ends(This)[Len(array)]
  <2>1. 0 \in 0..Len(This.array) /\ Len(array) \in 0..Len(This.array) /\ 0 =< Len(array)
        /\ n \in 0..Len(This.array) /\ n =< Len(array)
    BY <1>2, <1>10, ThisIs
  <2> QED
    BY <1>2, <2>1, EndsGrow
<1>12. This' = This /\ array' = array /\ element' = element /\ type' = type /\ start' = start /\ IsAligned' = IsAligned
  BY <1>1, SameArray
<1>13. operation' = "read"
  BY <1>1 DEF Begin
<1>14. context' = ReadingContext(This, 0) /\ context' \in Contexts
  BY <1>1, <1>2, ContextsStart, NewContextIs
<1>15. BufferBitSize' = limit
  BY <1>1, <1>12 DEF BufferBitSize
<1>16. NotBegun' /\ Measures' /\ Writes'
  BY <1>13 DEF NotBegun, Measures, Writes
<1>17. Sized' /\ Offset'
  BY <1>1, <1>2, <1>12, <1>13 DEF Inv, Sized, Offset, HasOffsets
<1>18. HasFields(Len(array))' /\ cut' =< bitSize' /\ rawArray' \in Seq(Values(element)) /\ HasElements(0)'
       /\ Len(rawArray') = 0
  BY <1>1, <1>2, <1>3, <1>12 DEF HasFields, HasElements
<1>19. CASE p > limit \/ tooLong
  <2>1. status' = "thrown" /\ UNCHANGED <<index, position, readLength>>
    BY <1>1, <1>19
  <2>2. d > 0
    <3> SUFFICES ASSUME d = 0 PROVE FALSE
      OBVIOUS
    <3>1. limit = Ends(This)[Len(array)]
      BY <1>2, <1>11
    <3>2. ~(p > limit)
      BY <1>6, <1>11, <3>1
    <3>3. ~packed /\ p + n * least > limit
      BY <1>19, <3>2 DEF tooLong, TooLong
    <3>4. This.start + LengthOf(This) + n * ElementBitSize(This.element, 0) =< Ends(This)[n]
      BY <1>2, <1>11, <3>3, PlainEnds, ThisIs
    <3>5. p + n * least =< Ends(This)[n]
      BY <1>6, <3>4, ThisIs DEF least
    <3>6. n * least \in Int /\ p \in Int
      BY <1>6, <1>7, <1>10, <1>11, Product
    <3> QED
      BY <1>11, <3>1, <3>3, <3>5, <3>6
  <2>3. type # "IMPLICIT"
    <3> SUFFICES ASSUME type = "IMPLICIT" PROVE FALSE
      OBVIOUS
    <3>1. start + n * least =< limit /\ p = start
      BY <1>9
    <3>2. n * least \in Nat
      BY <1>7, <1>10, Product
    <3>3. ~(p > limit)
      BY <1>1, <1>2, <3>1
    <3>4. p + n * least > limit
      BY <1>19, <3>3 DEF tooLong, TooLong
    <3> QED
      BY <1>1, <1>2, <3>1, <3>2, <3>4
  <2>4. Sound'
    <3>1. /\ bitSize' \in Nat /\ offsetsSize' \in Nat /\ cut' \in Nat /\ readLength' \in Nat
          /\ index' \in 0..Len(array) /\ position' \in Nat
      BY <1>1, <1>2, <2>1 DEF Sound
    <3> QED
      BY <1>1, <1>2, <1>5, <1>13, <1>14, <1>18, <2>1, <3>1, SoundGoesOn
  <2>5. Reads'
    <3>1. \E m \in Nat : HasElements(m)' /\ Len(rawArray') \in {m, m + 1}
      BY <1>18
    <3> QED
      BY <1>1, <1>12, <1>18, <2>1, <2>2, <2>3, <3>1 DEF Reads
  <2> QED
    BY <1>16, <1>17, <2>4, <2>5 DEF Inv
<1>20. CASE ~(p > limit \/ tooLong)
  <2>1. Begin("read", n, p) /\ readLength' = n
    BY <1>1, <1>20
  <2>2. index' = 0 /\ status' = (IF 0 = n THEN "done" ELSE "busy") /\ position' = Ends(This)[0]
    BY <1>6, <2>1 DEF Begin
  <2>3. Sound'
    <3>1. /\ bitSize' \in Nat /\ offsetsSize' \in Nat /\ cut' \in Nat /\ readLength' \in Nat
          /\ index' \in 0..Len(array) /\ position' \in Nat /\ status' \in {"busy", "done", "thrown"}
      BY <1>1, <1>2, <1>10, <1>11, <2>1, <2>2 DEF Sound
    <3> QED
      BY <1>1, <1>2, <1>5, <1>13, <1>14, <1>18, <3>1, SoundGoesOn
  <2>4. Walks(readLength)'
    BY <1>10, <1>12, <2>1, <2>2 DEF Walks
  <2>5. ReadLength'
    BY <1>1, <1>2, <1>8, <1>9, <1>10, <1>12, <1>15, <2>1 DEF ReadLength, least
  <2>6. position' =< BufferBitSize'
    <3>1. ~(p > limit)
      BY ONLY <1>20, Zenon
    <3>2. p \in Int /\ limit \in Int
      BY <1>1, <1>2, <1>6, <1>11
    <3> HIDE DEF limit
    <3>3. position' = p /\ p =< limit
      <4>1. position' = p
        BY ONLY <1>6, <2>2, Zenon
      <4>2. p =< limit
        BY ONLY <3>1, <3>2
      <4> QED
        BY <4>1, <4>2
    <3> QED
      BY <1>15, <3>3
  <2>7. HasElements(index)' /\ Len(rawArray') = index' /\ context' = ReadingContext(This', index')
    BY <1>12, <1>14, <1>18, <2>2 DEF HasElements
  <2>8. Reads'
    <3>1. status' # "thrown"
      BY <2>2
    <3> QED
      BY <1>18, <2>4, <2>5, <2>6, <2>7, <3>1 DEF Reads
  <2> QED
    BY <1>16, <1>17, <2>3, <2>8 DEF Inv
<1> QED
  BY <1>19, <1>20

LEMMA ReadingContextIs ==
  ASSUME WidthAssumption, NEW r, Sensible(r), NEW k \in 1..Len(r.array)
  PROVE  ReadingContext(r, k) \in Contexts
<1> DEFINE started == r.packed
           packs == r.packed /\ FinalOf(r).isPacked
           most == IF packs THEN FinalOf(r).maxBitNumber ELSE 0
           word == ToWord(r.array[k])
<1>1. ReadingContext(r, k) = [NewContext EXCEPT !.processingStarted = started, !.isPacked = packs,
                                !.maxBitNumber = most, !.previousElement = word]
  BY DEF ReadingContext
<1>2. word \in 0..(Pow2[WordBits] - 1)
  <2>1. r.array[k] \in Values(r.element) /\ r.element \in ElementTypes
    BY BitsAre DEF Sensible
  <2> QED
    BY <2>1, ValueOfToWord
<1>3. started \in BOOLEAN
  BY DEF Sensible
<1>4. packs \in BOOLEAN
  OBVIOUS
<1>5. most \in 0..WordBits
  <2>1. FinalOf(r).maxBitNumber \in 0..WordBits /\ 0 \in 0..WordBits
    BY FinalOfIs, WordSize DEF Contexts
  <2> QED
    BY <2>1
<1> HIDE DEF started, packs, most, word
<1>6. ReadingContext(r, k) = Used(started, packs, most, word)
  BY <1>1 DEF Used
<1> QED
  BY <1>2, <1>3, <1>4, <1>5, <1>6, UsedContext

LEMMA ReadElementStep ==
  ASSUME WidthAssumption, Inv, ReadElement
  PROVE  Inv'
<1> DEFINE k == index + 1
           p == ReadPosition
           r == IF packed THEN ReadCompressed(context, p) ELSE ReadPlain(context, p)
           eof == r.end > BufferBitSize
           least == ElementBitSize(element, 0)
<1>1. /\ operation = "read" /\ status = "busy"
      /\ \/ /\ ~eof
            /\ rawArray' = Append(rawArray, r.value) /\ position' = r.end /\ context' = r.context
            /\ garbled' = (garbled \/ r.garbled) /\ index' = k
            /\ status' = IF k = readLength THEN "done" ELSE "busy"
         \/ /\ eof
            /\ rawArray' = (IF IsAligned /\ p > BufferBitSize THEN rawArray ELSE Append(rawArray, Default))
            /\ status' = "thrown" /\ UNCHANGED <<position, context, index, garbled>>
      /\ UNCHANGED Array
      /\ UNCHANGED <<operation, bitSize, offsetsSize, offsets, stream, places, cut, readLength>>
  BY DEF ReadElement
<1>2. /\ Len(array) \in Nat /\ Walks(readLength) /\ context = ReadingContext(This, index) /\ ReadLength
      /\ Sensible(This) /\ HasFields(Len(array)) /\ cut =< bitSize /\ position =< BufferBitSize
      /\ bitSize = Ends(This)[Len(array)] - start /\ cut \in Nat /\ start \in Nat /\ Sound
      /\ HasElements(index) /\ Len(rawArray) = index /\ element \in ElementTypes
  BY <1>1, ThisIs DEF Inv, Sound, Reads, Sized, Sensible
<1>3. readLength \in Nat /\ readLength =< Len(array) /\ index \in Nat /\ rawArray \in Seq(Values(element))
  BY <1>2 DEF ReadLength, Sound
<1>4. k = index + 1 /\ p = ElementPosition
  BY DEF ReadPosition
<1> HIDE DEF k, p
<1>5. /\ k \in 1..readLength /\ k \in 1..Len(array) /\ k - 1 = index /\ p = PlaceOf(This, k) /\ Ends(This)[k] \in Nat
      /\ p \in Nat /\ Ends(This)[k] =< Ends(This)[Len(array)] /\ Ends(This)[Len(array)] \in Nat
      /\ array[k] \in Values(element)
  BY <1>1, <1>2, <1>3, <1>4, ElementIs
<1>6. k \in 1..Len(This.array)
  BY <1>5, ThisIs
<1>7. r = ReadOf(This, k, ReadingContext(This, k - 1))
  BY <1>2, <1>5, ThisIs DEF ReadOf
<1> HIDE DEF r
<1>8. r.context = ReadingContext(This, k) /\ r.value = array[k] /\ r.end = Ends(This)[k] /\ r.garbled = FALSE
  <2>1. Range(stream) = Coded(This, Len(This.array)) /\ This.element = element
    BY <1>2, ThisIs DEF HasFields
  <2>2. GivesElement(r, This, k)
    BY <1>2, <1>6, <1>7, <2>1, ReadIs
  <2> QED
    BY <2>2, ThisIs DEF GivesElement
<1> HIDE DEF eof
<1>9. This' = This /\ array' = array /\ element' = element /\ type' = type /\ start' = start /\ IsAligned' = IsAligned
  BY <1>1, SameArray
<1>10. BufferBitSize' = BufferBitSize /\ BufferBitSize = Ends(This)[Len(array)] - cut
  BY <1>1, <1>2, <1>5, <1>9 DEF BufferBitSize
<1>11. NotBegun' /\ Measures' /\ Writes'
  BY <1>1 DEF NotBegun, Measures, Writes
<1>12. Sized' /\ Offset'
  BY <1>1, <1>2, <1>9 DEF Inv, Sized, Offset, HasOffsets
<1>13. HasFields(Len(array))' /\ cut' =< bitSize'
  BY <1>1, <1>2, <1>9 DEF HasFields
<1>14. CASE ~eof
  <2>1. /\ rawArray' = Append(rawArray, array[k]) /\ position' = Ends(This)[k] /\ context' = ReadingContext(This, k)
        /\ garbled' = (garbled \/ r.garbled) /\ index' = k
        /\ status' = IF k = readLength THEN "done" ELSE "busy"
    BY <1>1, <1>8, <1>14
  <2>2. garbled' = FALSE
    BY <1>2, <1>8, <2>1 DEF Sound
  <2>3. rawArray' \in Seq(Values(element)) /\ Len(rawArray') = k /\ rawArray'[k] = array[k]
        /\ \A j \in 1..index : rawArray'[j] = rawArray[j]
    <3> DEFINE v == array[k]
    <3>1. v \in Values(element) /\ rawArray' = Append(rawArray, v)
      BY <1>5, <2>1
    <3> HIDE DEF v
    <3>2. rawArray' \in Seq(Values(element)) /\ Len(rawArray') = index + 1 /\ rawArray'[index + 1] = v
          /\ \A j \in 1..index : rawArray'[j] = rawArray[j]
      BY <1>2, <1>3, <3>1
    <3> QED
      BY <1>4, <3>2 DEF v
  <2>4. ReadingContext(This, k) \in Contexts
    BY <1>2, <1>6, ReadingContextIs
  <2>5. Sound'
    <3>1. /\ bitSize' \in Nat /\ offsetsSize' \in Nat /\ cut' \in Nat /\ readLength' \in Nat
          /\ index' \in 0..Len(array) /\ position' \in Nat /\ status' \in {"busy", "done", "thrown"}
          /\ operation' \in {"new", "bitSizeOf", "initializeOffsets", "write", "read"}
      BY <1>1, <1>2, <1>5, <2>1 DEF Sound
    <3>2. context' \in Contexts
      BY <2>1, <2>4
    <3> QED
      BY <1>1, <1>2, <2>2, <2>3, <3>1, <3>2, SoundGoesOn
  <2>6. Walks(readLength)'
    BY <1>1, <1>5, <1>9, <2>1 DEF Walks
  <2>7. ReadLength'
    BY <1>1, <1>2, <1>9, <1>10 DEF ReadLength
  <2>8. position' =< BufferBitSize'
    <3>1. ~(r.end > BufferBitSize)
      BY <1>14 DEF eof
    <3> QED
      BY <1>2, <1>5, <1>8, <1>10, <2>1, <3>1
  <2>9. HasElements(index)' /\ Len(rawArray') = index'
    <3>1. \A j \in 1..index : rawArray[j] = array[j]
      BY <1>2 DEF HasElements
    <3>2. ASSUME NEW j \in 1..k PROVE rawArray'[j] = array[j]
      <4>1. j \in 1..index \/ j = k
        BY <1>3, <1>4
      <4> QED
        BY <2>3, <3>1, <4>1
    <3> QED
      BY <1>2, <1>5, <1>9, <2>1, <2>3, <3>2 DEF HasElements
  <2>10. Reads'
    <3>1. status' # "thrown" /\ context' = ReadingContext(This', index')
      BY <1>9, <2>1
    <3> QED
      BY <1>13, <2>6, <2>7, <2>8, <2>9, <3>1 DEF Reads
  <2> QED
    BY <1>11, <1>12, <2>5, <2>10 DEF Inv
<1>15. CASE eof
  <2>1. /\ rawArray' = (IF IsAligned /\ p > BufferBitSize THEN rawArray ELSE Append(rawArray, Default))
        /\ status' = "thrown" /\ UNCHANGED <<position, context, index, garbled>>
    BY <1>1, <1>15
  <2>2. Ends(This)[k] > BufferBitSize
    BY <1>8, <1>15 DEF eof
  <2>3. cut > 0
    BY <1>2, <1>5, <1>10, <2>2
  <2>4. type # "IMPLICIT"
    <3> SUFFICES ASSUME type = "IMPLICIT" PROVE FALSE
      OBVIOUS
    <3>1. start + readLength * least =< BufferBitSize
      BY <1>2 DEF ReadLength
    <3>2. Ends(This)[k] = start + k * least
      <4>1. k \in 0..Len(This.array) /\ This.type = "IMPLICIT"
        BY <1>6, ThisIs
      <4> QED
        BY <1>2, <4>1, ImplicitEnds, ThisIs
    <3>3. least \in Nat
      <4>1. 0 \in Values(element)
        BY <1>2, ValuesAre
      <4> QED
        BY <1>2, <4>1, BitSizesAre
    <3> DEFINE m == readLength - k
    <3>4. m \in Nat /\ readLength = k + m /\ k \in Nat
      BY <1>3, <1>5
    <3> HIDE DEF m, least
    <3>5. m * least \in Nat /\ k * least \in Int /\ readLength * least = k * least + m * least
      BY <3>3, <3>4, Product
    <3> QED
      BY <1>2, <1>5, <1>10, <2>2, <3>1, <3>2, <3>5
  <2>5. rawArray' \in Seq(Values(element)) /\ Len(rawArray') \in {index, index + 1}
        /\ \A j \in 1..index : rawArray'[j] = rawArray[j]
    <3> DEFINE v == Default
    <3>1. v \in Values(element) /\ (rawArray' = rawArray \/ rawArray' = Append(rawArray, v))
      BY <1>2, <2>1, ValuesAre DEF Default
    <3> HIDE DEF v
    <3> QED
      BY <1>2, <1>3, <3>1
  <2>6. HasElements(index)'
    <3>1. \A j \in 1..index : rawArray[j] = array[j]
      BY <1>2 DEF HasElements
    <3> QED
      BY <1>2, <1>3, <1>9, <2>1, <2>5, <3>1 DEF HasElements
  <2>7. Sound'
    <3>1. /\ bitSize' \in Nat /\ offsetsSize' \in Nat /\ cut' \in Nat /\ readLength' \in Nat
          /\ index' \in 0..Len(array) /\ position' \in Nat /\ context' \in Contexts /\ garbled' = FALSE
          /\ operation' \in {"new", "bitSizeOf", "initializeOffsets", "write", "read"}
      BY <1>1, <1>2, <2>1 DEF Sound
    <3> QED
      BY <1>1, <1>2, <2>1, <2>5, <3>1, SoundGoesOn
  <2>8. Reads'
    <3>1. HasElements(index)' /\ Len(rawArray') \in {index', index' + 1} /\ index' \in Nat
      BY <1>3, <2>1, <2>5, <2>6
    <3>2. (\E n \in Nat : HasElements(n) /\ Len(rawArray) \in {n, n + 1})'
      BY <3>1
    <3> QED
      BY <1>1, <1>9, <1>13, <2>1, <2>3, <2>4, <3>2 DEF Reads
  <2> QED
    BY <1>11, <1>12, <2>7, <2>8 DEF Inv
<1> QED
  BY <1>14, <1>15

LEMMA NothingStep ==
  ASSUME Inv, UNCHANGED vars
  PROVE  Inv'
<1>1. /\ UNCHANGED Array
      /\ UNCHANGED <<operation, status, index, position, context, bitSize, offsetsSize, offsets, stream, places, cut,
                     rawArray, readLength, garbled>>
  BY DEF vars, Array
<1>2. This' = This /\ array' = array /\ element' = element /\ type' = type /\ start' = start /\ IsAligned' = IsAligned
  BY <1>1, SameArray
<1>3. BufferBitSize' = BufferBitSize
  BY <1>1, <1>2 DEF BufferBitSize
<1>4. Sound'
  BY <1>1, <1>2 DEF Inv, Sound
<1>5. NotBegun'
  BY <1>1, <1>2 DEF Inv, NotBegun
<1>6. Measures'
  BY <1>1, <1>2 DEF Inv, Measures, Walks
<1>7. Sized'
  BY <1>1, <1>2 DEF Inv, Sized
<1>8. Offset'
  BY <1>1, <1>2 DEF Inv, Offset, HasOffsets
<1>9. Writes'
  BY <1>1, <1>2, <1>3 DEF Inv, Writes, Walks, HasFields, HasPlaces
<1>10. Reads'
  BY <1>1, <1>2, <1>3 DEF Inv, Reads, Walks, HasFields, HasElements, ReadLength
<1> QED
  BY <1>4, <1>5, <1>6, <1>7, <1>8, <1>9, <1>10 DEF Inv

\* The inductive invariant holds in every state.
LEMMA InvHolds ==
  ASSUME WidthAssumption, ArrayAssumption
  PROVE  Spec => []Inv
<1>1. Init => Inv
  BY InitInv
<1>2. Inv /\ [Next]_vars => Inv'
  <2> SUFFICES ASSUME Inv, [Next]_vars PROVE Inv'
    OBVIOUS
  <2>1. CASE BitSizeOfArray
    BY <2>1, BitSizeOfArrayStep
  <2>2. CASE InitializeOffsets
    BY <2>2, InitializeOffsetsStep
  <2>3. CASE MeasureElement
    BY <2>3, MeasureElementStep
  <2>4. CASE \E d \in Cuts : WriteArray(d) \/ ReadArray(d)
    <3>1. PICK d \in Cuts : WriteArray(d) \/ ReadArray(d)
      BY <2>4
    <3>2. d \in Nat
      BY DEF ArrayAssumption
    <3> QED
      BY <3>1, <3>2, WriteArrayStep, ReadArrayStep
  <2>5. CASE WriteElement
    BY <2>5, WriteElementStep
  <2>6. CASE ReadElement
    BY <2>6, ReadElementStep
  <2>7. CASE UNCHANGED vars
    BY <2>7, NothingStep
  <2> QED
    BY <2>1, <2>2, <2>3, <2>4, <2>5, <2>6, <2>7 DEF Next
<1> QED
  BY <1>1, <1>2, PTL DEF Spec
-------------------------------------------------------------------------------
(* The properties.                                                         *)

LEMMA InvTypes ==
  ASSUME WidthAssumption, Inv
  PROVE  TypeOK
<1>1. Sound
  BY DEF Inv
<1>2. Allowed(element, type, packed) /\ Len(array) \in Nat
  BY <1>1, ThisIs DEF Sound, Sensible
<1>3. /\ operation \in {"new", "bitSizeOf", "initializeOffsets", "write", "read"}
      /\ status \in {"busy", "done", "thrown"} /\ index \in 0..(Len(array) + 1)
      /\ {position, bitSize, offsetsSize, cut, readLength} \subseteq Nat
  BY <1>1, <1>2 DEF Sound
<1>4. context.previousElement \in 0..(Pow2[WordBits] - 1) /\ context.maxBitNumber \in 0..WordBits
  BY <1>1 DEF Sound, Contexts
<1>5. \A k \in 1..Len(rawArray) : rawArray[k] \in Values(element)
  BY <1>1 DEF Sound
<1>6. garbled \in BOOLEAN
  <2>1. garbled = FALSE
    BY <1>1 DEF Sound
  <2> QED
    BY ONLY <2>1
<1> QED
  BY <1>2, <1>3, <1>4, <1>5, <1>6 DEF TypeOK

LEMMA InvLayout ==
  ASSUME WidthAssumption, Inv
  PROVE  LayoutAgrees
<1>1. Sensible(This) /\ Len(array) \in Nat /\ Len(This.array) = Len(array) /\ start \in Nat /\ IsAligned = Aligns(This)
  BY ThisIs DEF Inv, Sound, Sensible
<1>2. Ends(This)[Len(array)] \in Nat
  BY <1>1, EndsAre DEF IsEnds
<1>3. ASSUME Did("initializeOffsets") PROVE offsetsSize = bitSize
  BY <1>3 DEF Did, Inv, Measures, Walks, Offset, Sized
<1>4. ASSUME Did("write")
      PROVE  position = start + bitSize /\ HasOffsets(Len(array)) /\ HasPlaces(Len(array))
  BY <1>1, <1>2, <1>4 DEF Did, Inv, Writes, Walks, Offset, Sized
<1>5. ASSUME Did("write"), IsAligned
      PROVE  /\ offsets = [k \in 1..Len(array) |-> places[k] \div 8]
             /\ \A k \in 1..Len(array) : places[k] % 8 = 0
  <2>1. /\ offsets \in Seq(Nat) /\ Len(offsets) = Len(array)
        /\ \A k \in 1..Len(array) : offsets[k] = PlaceOf(This, k) \div 8
        /\ \A k \in 1..Len(array) : places[k] = PlaceOf(This, k)
    BY <1>4, <1>5 DEF HasOffsets, HasPlaces
  <2>2. \A k \in 1..Len(array) : PlaceOf(This, k) % 8 = 0
    BY <1>1, <1>5, PlaceIs
  <2>3. offsets = [k \in 1..Len(array) |-> places[k] \div 8]
    BY <2>1
  <2> QED
    BY <2>1, <2>2, <2>3
<1> QED
  BY <1>3, <1>4, <1>5 DEF LayoutAgrees

LEMMA InvThrows ==
  ASSUME WidthAssumption, Inv
  PROVE  WriteThrowsIffCut
<1>1. Sensible(This) /\ Len(array) \in Nat /\ Len(This.array) = Len(array) /\ start \in Nat /\ cut \in Nat
  BY ThisIs DEF Inv, Sound, Sensible
<1>2. Ends(This)[Len(array)] \in Nat
  BY <1>1, EndsAre DEF IsEnds
<1>3. ASSUME operation = "write", status = "done" PROVE cut = 0
  <2>1. position = Ends(This)[Len(array)] /\ bitSize = Ends(This)[Len(array)] - start
        /\ position =< start + bitSize - cut
    BY <1>3 DEF Inv, Writes, Walks, Sized, BufferBitSize
  <2> QED
    BY <1>1, <1>2, <2>1
<1>4. operation = "write" /\ status = "thrown" => cut > 0
  BY DEF Inv, Writes
<1> QED
  BY <1>3, <1>4 DEF WriteThrowsIffCut

LEMMA InvRoundTrip ==
  ASSUME WidthAssumption, Inv
  PROVE  RoundTrip
<1>1. ASSUME Did("read"), cut = 0 PROVE rawArray = array
  <2>1. /\ index = Len(array) /\ Len(rawArray) = index /\ \A k \in 1..index : rawArray[k] = array[k]
    BY <1>1 DEF Did, Inv, Reads, Walks, ReadLength, HasElements
  <2>2. rawArray \in Seq(Values(element)) /\ array \in Seq(Values(element))
    BY ThisIs DEF Inv, Sound, Sensible
  <2> QED
    BY <2>1, <2>2
<1>2. ~garbled
  BY DEF Inv, Sound
<1> QED
  BY <1>1, <1>2 DEF RoundTrip

LEMMA InvPrefix ==
  ASSUME WidthAssumption, Inv
  PROVE  CutReadsPrefix
<1> SUFFICES ASSUME operation = "read"
             PROVE  /\ status = "thrown" => cut > 0 /\ type # "IMPLICIT"
                    /\ status = "done" => cut = 0 \/ type = "IMPLICIT"
                    /\ \E k \in {Len(rawArray) - 1, Len(rawArray)} :
                         k >= 0 /\ IsPrefix(SubSeq(rawArray, 1, k), array)
  BY DEF CutReadsPrefix
<1>1. /\ Sensible(This) /\ Len(array) \in Nat /\ Len(This.array) = Len(array) /\ start \in Nat /\ cut \in Nat
      /\ rawArray \in Seq(Values(element)) /\ array \in Seq(Values(element))
  BY ThisIs DEF Inv, Sound, Sensible
<1>2. Ends(This)[Len(array)] \in Nat
  BY <1>1, EndsAre DEF IsEnds
<1>3. status = "thrown" => cut > 0 /\ type # "IMPLICIT"
  BY DEF Inv, Reads
<1>4. ASSUME status = "done", type # "IMPLICIT" PROVE cut = 0
  <2>1. position = Ends(This)[Len(array)] /\ bitSize = Ends(This)[Len(array)] - start
        /\ position =< start + bitSize - cut
    BY <1>4 DEF Inv, Reads, Walks, Sized, ReadLength, BufferBitSize
  <2> QED
    BY <1>1, <1>2, <2>1
<1>5. PICK n \in Nat : HasElements(n) /\ Len(rawArray) \in {n, n + 1}
  <2>1. CASE status = "thrown"
    BY <2>1 DEF Inv, Reads
  <2>2. CASE status # "thrown"
    <3>1. HasElements(index) /\ Len(rawArray) = index /\ index \in Nat
      BY <2>2 DEF Inv, Reads, Sound
    <3> QED
      BY <3>1
  <2> QED
    BY <2>1, <2>2
<1>6. n \in {Len(rawArray) - 1, Len(rawArray)} /\ n >= 0
  BY <1>1, <1>5
<1>7. IsPrefix(SubSeq(rawArray, 1, n), array)
  <2> DEFINE s == SubSeq(rawArray, 1, n)
  <2>1. n =< Len(rawArray) /\ n =< Len(array) /\ \A k \in 1..n : rawArray[k] = array[k]
    BY <1>5 DEF HasElements
  <2>2. s \in Seq(Values(element)) /\ Len(s) = n /\ \A k \in 1..n : s[k] = rawArray[k]
    BY <1>1, <2>1
  <2> HIDE DEF s
  <2>3. SubSeq(s, 1, Len(s)) = SubSeq(array, 1, Len(s))
    <3>1. SubSeq(s, 1, n) \in Seq(Values(element)) /\ Len(SubSeq(s, 1, n)) = n
          /\ \A k \in 1..n : SubSeq(s, 1, n)[k] = s[k]
      BY <2>2
    <3>2. SubSeq(array, 1, n) \in Seq(Values(element)) /\ Len(SubSeq(array, 1, n)) = n
          /\ \A k \in 1..n : SubSeq(array, 1, n)[k] = array[k]
      BY <1>1, <2>1
    <3> QED
      BY <2>1, <2>2, <3>1, <3>2
  <2> QED
    BY <1>1, <2>1, <2>2, <2>3 DEF IsPrefix, s
<1> QED
  BY <1>3, <1>4, <1>6, <1>7

\* The bits of an array that is not packed, behind a length of l bits.
PlainBits(l, e, a) ==
  LET plain[k \in 0..Len(a)] == IF k = 0 THEN l ELSE plain[k - 1] + ElementBitSize(e, a[k])
  IN  plain[Len(a)]

LEMMA PlainBitsAre ==
  ASSUME WidthAssumption, NEW l \in Nat, NEW e \in ElementTypes, NEW a \in Seq(Values(e))
  PROVE  PlainBits(l, e, a) = l + Unpacked(e, a)[Len(a)]
<1> DEFINE last == Len(a)
           s == Unpacked(e, a)
           is(g) == g = [k \in 0..last |-> IF k = 0 THEN l ELSE g[k - 1] + ElementBitSize(e, a[k])]
           f == [k \in 0..last |-> l + s[k]]
           c == CHOOSE g : is(g)
<1>1. last \in Nat /\ \A k \in 1..last : ElementBitSize(e, a[k]) \in Nat
  <2>1. \A k \in 1..last : a[k] \in Values(e)
    OBVIOUS
  <2> QED
    BY <2>1, BitSizesAre
<1>2. /\ s[0] = 0 /\ \A k \in 0..last : s[k] \in Nat
      /\ \A k \in 1..last : s[k] = s[k - 1] + ElementBitSize(e, a[k])
  BY UnpackedIs DEF IsUnpacked
<1> HIDE DEF last, s
<1>3. is(f)
  <2>1. ASSUME NEW k \in 0..last PROVE f[k] = IF k = 0 THEN l ELSE f[k - 1] + ElementBitSize(e, a[k])
    <3>1. CASE k = 0
      BY <1>2, <3>1
    <3>2. CASE k # 0
      <4>1. k \in 1..last /\ k - 1 \in 0..last
        BY <1>1, <3>2
      <4>2. s[k] = s[k - 1] + ElementBitSize(e, a[k]) /\ s[k - 1] \in Nat /\ ElementBitSize(e, a[k]) \in Nat
        BY <1>1, <1>2, <4>1
      <4>3. f[k] = l + s[k] /\ f[k - 1] = l + s[k - 1]
        BY <4>1
      <4> QED
        BY <3>2, <4>2, <4>3
    <3> QED
      BY <3>1, <3>2
  <2> QED
    BY <2>1
<1>4. is(c)
  <2> HIDE DEF is, f
  <2> QED
    BY <1>3
<1>5. c[last] = PlainBits(l, e, a)
  BY DEF PlainBits, last
<1> HIDE DEF c
<1>6. c[0] = l /\ \A k \in 1..last : c[k] = c[k - 1] + ElementBitSize(e, a[k])
  <2>1. \A k \in 1..last : k \in 0..last /\ k # 0
    BY <1>1
  <2>2. 0 \in 0..last
    BY <1>1
  <2> QED
    BY <1>4, <2>1, <2>2
<1>7. f[0] = l /\ \A k \in 1..last : f[k] = f[k - 1] + ElementBitSize(e, a[k])
  <2>1. \A k \in 1..last : k \in 0..last /\ k # 0
    BY <1>1
  <2>2. 0 \in 0..last
    BY <1>1
  <2> HIDE DEF f
  <2> QED
    BY <1>3, <2>1, <2>2
<1>8. last \in 0..last /\ f[last] = l + s[last]
  BY <1>1
<1> HIDE DEF f, is
<1>9. \A k \in 0..last : c[k] = f[k]
  <2> DEFINE S == {k \in 0..last : c[k] = f[k]}
  <2>1. 0 \in S /\ S \in SUBSET Nat
    BY <1>1, <1>6, <1>7
  <2>2. \A k \in 1..last : k - 1 \in S => k \in S
    BY <1>1, <1>6, <1>7
  <2> HIDE DEF S
  <2>3. \A k \in 0..last : k \in S
    BY <1>1, <2>1, <2>2, AllEnds
  <2> QED
    BY <2>3 DEF S
<1> QED
  BY <1>5, <1>8, <1>9 DEF s, last

LEMMA InvPays ==
  ASSUME WidthAssumption, Inv
  PROVE  PackingPays
<1> SUFFICES ASSUME Did("bitSizeOf"), packed, ~IsAligned
             PROVE  bitSize =< PlainBits(LengthBits, element, array) + 1
  BY DEF PackingPays, PlainBits
<1>1. /\ Sensible(This) /\ Len(array) \in Nat /\ This.packed /\ ~Aligns(This) /\ Len(This.array) = Len(array)
      /\ element \in ElementTypes /\ array \in Seq(Values(element)) /\ start \in Nat
  BY ThisIs DEF Inv, Sound, Sensible
<1>2. bitSize = Ends(This)[Len(array)] - start
  BY DEF Did, Inv, Measures, Walks, Sized
<1> DEFINE n == Len(array)
           plain == Unpacked(element, array)[n]
           final == FinalOf(This)
<1>3. LengthBits \in Nat /\ LengthBits = LengthOf(This)
  BY <1>1, ThisIs DEF LengthOf, Sensible
<1>4. Ends(This)[n] = start + LengthBits + PackedEnd(This, n)
  <2>1. n \in 0..Len(This.array)
    BY <1>1
  <2> QED
    BY <1>1, <1>3, <2>1, PackedEnds, ThisIs
<1>5. PlainBits(LengthBits, element, array) = LengthBits + plain
  BY <1>1, <1>3, PlainBitsAre
<1>6. plain \in Nat
  BY <1>1, UnpackedIs DEF IsUnpacked
<1>7. PackedEnd(This, n) \in Int /\ PackedEnd(This, n) =< 1 + plain
  <2>1. CASE n = 0
    BY <1>6, <2>1 DEF PackedEnd
  <2>2. CASE n # 0 /\ final.isPacked
    <3> DEFINE x == 1 + MAX_BIT_NUMBER_BITS + SizeOf(This, 1) + (n - 1) * DeltaBits(final)
    <3>1. PackedEnd(This, n) = x
      BY <2>2 DEF PackedEnd
    <3>2. x < 1 + plain
      BY <1>1, <2>2, FinalOfIs, ThisIs
    <3>3. x \in Int
      <4>1. SizeOf(This, 1) \in Int /\ MAX_BIT_NUMBER_BITS \in Int
        <5>1. 1 \in 1..Len(This.array)
          BY <1>1, <2>2
        <5> QED
          BY <1>1, <5>1, BitsAre DEF WidthAssumption
      <4>2. (n - 1) * DeltaBits(final) \in Int
        <5>1. n - 1 \in Int /\ DeltaBits(final) \in Int
          BY <1>1, FinalOfIs
        <5> HIDE DEF final, n
        <5> QED
          BY <5>1, Product
      <4> QED
        BY <4>1, <4>2
    <3> HIDE DEF x, plain
    <3> QED
      BY <1>6, <3>1, <3>2, <3>3
  <2>3. CASE n # 0 /\ ~final.isPacked
    <3>1. PackedEnd(This, n) = 1 + plain
      BY <2>3, ThisIs DEF PackedEnd
    <3> HIDE DEF plain
    <3> QED
      BY <1>6, <3>1
  <2> QED
    BY <2>1, <2>2, <2>3
<1> HIDE DEF plain, n
<1> QED
  BY <1>1, <1>2, <1>3, <1>4, <1>5, <1>6, <1>7 DEF n
-------------------------------------------------------------------------------
(* The theorems.                                                           *)

\* TypeOK: in every state, the positions, contexts and elements are in their ranges.
THEOREM TypeCorrect ==
  ASSUME WidthAssumption, ArrayAssumption
  PROVE  Spec => []TypeOK
<1>1. Inv => TypeOK
  BY InvTypes
<1> QED
  BY <1>1, InvHolds, PTL

\* LayoutAgrees: bitSizeOf, initializeOffsets and write move by the same number of bits, and put the
\* elements of an aligned array at the bytes of their offsets.
THEOREM Layout ==
  ASSUME WidthAssumption, ArrayAssumption
  PROVE  Spec => []LayoutAgrees
<1>1. Inv => LayoutAgrees
  BY InvLayout
<1> QED
  BY <1>1, InvHolds, PTL

\* WriteThrowsIffCut: no difference is refused, and a buffer of the size bitSizeOf gives is enough.
THEOREM NoThrow ==
  ASSUME WidthAssumption, ArrayAssumption
  PROVE  Spec => []WriteThrowsIffCut
<1>1. Inv => WriteThrowsIffCut
  BY InvThrows
<1> QED
  BY <1>1, InvHolds, PTL

\* RoundTrip and CutReadsPrefix: what is read is what was written, or the beginning of it.
THEOREM Reading ==
  ASSUME WidthAssumption, ArrayAssumption
  PROVE  Spec => [](RoundTrip /\ CutReadsPrefix)
<1>1. Inv => RoundTrip /\ CutReadsPrefix
  BY InvRoundTrip, InvPrefix
<1> QED
  BY <1>1, InvHolds, PTL

\* PackingPays: packing costs a bit at most.
THEOREM Paying ==
  ASSUME WidthAssumption, ArrayAssumption
  PROVE  Spec => []PackingPays
<1>1. Inv => PackingPays
  BY InvPays
<1> QED
  BY <1>1, InvHolds, PTL
===============================================================================
