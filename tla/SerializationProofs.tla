-------------------------- MODULE SerializationProofs --------------------------
(***************************************************************************)
(* Proofs about generated structures, for any schema, any objects of it    *)
(* and programs of any of its versions: what validate accepts is written,  *)
(* what is written is read, and what was read is written as it was.  All   *)
(* walks over the fields are compared with one definition of where a field *)
(* ends (Ends); the invariant says where each of them is, field by field.  *)
(* At the end: the arrays, variants and optionals of the run.              *)
(***************************************************************************)
EXTENDS MCSerialization, FiniteSetTheorems, TLAPS

-------------------------------------------------------------------------------
(* Powers of two. Induction and recursion are those of ArrayProofs.        *)

LEMMA Pow2Is ==
  /\ Pow2 \in [Nat -> Nat \ {0}]
  /\ Pow2[0] = 1
  /\ \A n \in Nat : Pow2[n + 1] = 2 * Pow2[n]
<1> DEFINE Positive == Nat \ {0}
           double == [k \in Nat |-> [x \in Positive |-> 2 * x]]
<1>1. double \in [Nat -> [Positive -> Positive]] /\ 1 \in Positive
  OBVIOUS
<1>2. \A k \in Nat, x \in Positive : double[k + 1][x] = 2 * x
  OBVIOUS
<1>3. \A f \in [Nat -> Positive] : \A k \in Nat : f[k] \in Positive /\ f[k] \in Nat
  OBVIOUS
<1> HIDE DEF Positive, double
<1>p. PICK p : Array!Iterates(p, Positive, 1, double)
  <2>1. 1 \in Positive
    BY <1>1
  <2>2. double \in [Nat -> [Positive -> Positive]]
    BY <1>1
  <2> QED
    BY <2>1, <2>2, Array!NatRecursion
<1>4. p \in [Nat -> Positive] /\ p[0] = 1 /\ \A k \in Nat : p[k + 1] = double[k + 1][p[k]]
  BY <1>p DEF Array!Iterates
<1>5. \A k \in Nat : p[k + 1] = 2 * p[k]
  BY <1>2, <1>3, <1>4
<1>6. p = [n \in Nat |-> IF n = 0 THEN 1 ELSE 2 * p[n - 1]]
  <2>1. ASSUME NEW n \in Nat, n # 0 PROVE p[n] = 2 * p[n - 1]
    <3>1. n - 1 \in Nat /\ (n - 1) + 1 = n
      BY <2>1
    <3> QED
      BY <1>5, <3>1
  <2> QED
    BY <1>4, <2>1
<1>7. Pow2 = [n \in Nat |-> IF n = 0 THEN 1 ELSE 2 * Pow2[n - 1]]
  BY <1>6 DEF Pow2
<1>8. Pow2[0] = 1 /\ \A n \in Nat : Pow2[n + 1] = 2 * Pow2[n]
  <2>1. \A n \in Nat : n + 1 \in Nat /\ n + 1 # 0 /\ (n + 1) - 1 = n
    OBVIOUS
  <2> QED
    BY <1>7, <2>1
<1> DEFINE T == {n \in Nat : Pow2[n] \in Nat \ {0}}
<1>9. 0 \in T
  BY <1>8
<1>10. \A n \in T : n + 1 \in T
  <2>1. ASSUME NEW n \in T PROVE n + 1 \in T
    BY <1>8
  <2> QED
    BY <2>1
<1> HIDE DEF T
<1>11. T = Nat
  <2>1. T \subseteq Nat
    BY DEF T
  <2> QED
    BY <2>1, <1>9, <1>10, Array!SetInduction
<1>12. Pow2 \in [Nat -> Nat \ {0}]
  BY <1>7, <1>11 DEF T
<1> QED
  BY <1>8, <1>12

-------------------------------------------------------------------------------
(* Numbers and their bits.                                                 *)

LEMMA NumOfBitsIs ==
  ASSUME NEW s \in Seq({0, 1})
  PROVE  \E num \in [0..Len(s) -> Nat] :
           /\ num[0] = 0 /\ \A k \in 1..Len(s) : num[k] = 2 * num[k - 1] + s[k]
           /\ NumOfBits(s) = num[Len(s)]
<1> DEFINE last == Len(s)
           double == [k \in 1..last |-> [x \in Nat |-> 2 * x + s[k]]]
<1>1. last \in Nat /\ \A k \in 1..last : s[k] \in {0, 1}
  OBVIOUS
<1>2. double \in [1..last -> [Nat -> Nat]] /\ \A k \in 1..last, x \in Nat : double[k][x] = 2 * x + s[k]
  BY <1>1
<1> HIDE DEF double, last
<1>3. PICK f : Array!Recursive(f, Nat, 0, double, last)
  <2>1. last \in Nat /\ 0 \in Nat /\ double \in [1..last -> [Nat -> Nat]]
    BY <1>1, <1>2
  <2> QED
    BY <2>1, Array!FiniteRecursion
<1>4. \A k \in 1..last : k - 1 \in 0..last /\ f[k - 1] \in Nat
  BY <1>1, <1>3 DEF Array!Recursive
<1>5. \A k \in 1..last : f[k] = 2 * f[k - 1] + s[k]
  BY <1>2, <1>3, <1>4 DEF Array!Recursive
<1> DEFINE is(g) == g = [k \in 0..last |-> IF k = 0 THEN 0 ELSE 2 * g[k - 1] + s[k]]
<1>6. is(f)
  <2>1. \A k \in 0..last : k # 0 => k \in 1..last
    BY <1>1
  <2> QED
    BY <1>3, <1>5, <2>1 DEF Array!Recursive
<1> DEFINE num == CHOOSE g : is(g)
<1>7. is(num)
  <2> HIDE DEF is
  <2> QED
    BY <1>6
<1> HIDE DEF num
<1>8. num[0] = 0 /\ \A k \in 1..last : num[k] = 2 * num[k - 1] + s[k]
  <2>1. \A k \in 1..last : k \in 0..last /\ k # 0
    BY <1>1
  <2>2. 0 \in 0..last
    BY <1>1
  <2> QED
    BY <1>7, <2>1, <2>2
<1> DEFINE T == {k \in Nat : k =< last => num[k] = f[k]}
<1>9. 0 \in T
  BY <1>3, <1>8 DEF Array!Recursive
<1>10. \A k \in T : k + 1 \in T
  <2>1. ASSUME NEW k \in T PROVE k + 1 \in T
    <3> SUFFICES ASSUME k + 1 =< last PROVE num[k + 1] = f[k + 1]
      OBVIOUS
    <3>1. k + 1 \in 1..last /\ (k + 1) - 1 = k /\ k =< last
      BY <1>1
    <3> QED
      BY <1>5, <1>8, <3>1
  <2> QED
    BY <2>1
<1> HIDE DEF T
<1>11. T = Nat
  <2>1. T \subseteq Nat
    BY DEF T
  <2> QED
    BY <2>1, <1>9, <1>10, Array!SetInduction
<1>12. num[last] = f[last]
  BY <1>1, <1>11 DEF T
<1>13. NumOfBits(s) = num[last]
  BY DEF NumOfBits, num, last
<1> QED
  BY <1>3, <1>5, <1>12, <1>13 DEF last, Array!Recursive

\* The number with the bits of s is below the power of their count.
LEMMA NumFits ==
  ASSUME NEW s \in Seq({0, 1})
  PROVE  NumOfBits(s) \in Nat /\ NumOfBits(s) < Pow2[Len(s)]
<1>1. PICK num \in [0..Len(s) -> Nat] :
        /\ num[0] = 0 /\ \A k \in 1..Len(s) : num[k] = 2 * num[k - 1] + s[k]
        /\ NumOfBits(s) = num[Len(s)]
  BY NumOfBitsIs
<1> DEFINE N == Len(s)
           T == {k \in Nat : k =< N => num[k] < Pow2[k]}
<1>2. N \in Nat /\ \A k \in 1..N : s[k] \in {0, 1}
  OBVIOUS
<1>3. 0 \in T
  BY <1>1, Pow2Is
<1>4. \A k \in T : k + 1 \in T
  <2>1. ASSUME NEW k \in T PROVE k + 1 \in T
    <3> SUFFICES ASSUME k + 1 =< N PROVE num[k + 1] < Pow2[k + 1]
      OBVIOUS
    <3>1. k + 1 \in 1..N /\ (k + 1) - 1 = k /\ k =< N /\ k \in 0..N
      BY <1>2
    <3>2. num[k] \in Nat /\ num[k + 1] = 2 * num[k] + s[k + 1] /\ s[k + 1] \in {0, 1}
      BY <1>1, <1>2, <3>1
    <3>3. num[k] < Pow2[k] /\ Pow2[k] \in Nat /\ Pow2[k + 1] = 2 * Pow2[k]
      BY <3>1, Pow2Is
    <3> QED
      BY <3>2, <3>3
  <2> QED
    BY <2>1
<1> HIDE DEF T
<1>5. T = Nat
  <2>1. T \subseteq Nat
    BY DEF T
  <2> QED
    BY <2>1, <1>3, <1>4, Array!SetInduction
<1> QED
  BY <1>1, <1>2, <1>5 DEF T

LEMMA Division ==
  ASSUME NEW v \in Nat, NEW d \in Nat \ {0}
  PROVE  v \div d \in Nat /\ v % d \in 0..(d - 1) /\ v = d * (v \div d) + (v % d)
OBVIOUS

LEMMA DivDiv ==
  ASSUME NEW v \in Nat, NEW d \in Nat \ {0}
  PROVE  v \div d \in Nat /\ v \div d = 2 * (v \div (2 * d)) + ((v \div d) % 2)
<1>1. v \div d \in Nat /\ v % d \in 0..(d - 1) /\ v = d * (v \div d) + (v % d)
  OBVIOUS
<1>2. PICK q \in Nat, b \in {0, 1} : v \div d = 2 * q + b /\ b = (v \div d) % 2
  <2>1. (v \div d) \div 2 \in Nat /\ (v \div d) % 2 \in {0, 1}
        /\ v \div d = 2 * ((v \div d) \div 2) + ((v \div d) % 2)
    BY <1>1
  <2> QED
    BY <2>1
<1>3. v \div (2 * d) \in Nat /\ v % (2 * d) \in 0..(2 * d - 1)
      /\ v = (2 * d) * (v \div (2 * d)) + (v % (2 * d))
  <2>1. 2 * d \in Nat \ {0}
    OBVIOUS
  <2> QED
    BY <2>1, Division
<1>4. v = (2 * d) * q + (d * b + (v % d))
  <2>1. d * (2 * q + b) = (2 * d) * q + d * b
    OBVIOUS
  <2>2. v = d * (2 * q + b) + (v % d)
    BY <1>1, <1>2
  <2>3. v % d \in Nat /\ (2 * d) * q \in Nat /\ d * b \in Nat
    BY <1>1
  <2> QED
    BY ONLY <2>1, <2>2, <2>3
<1>5. d * b + (v % d) \in 0..(2 * d - 1)
  BY <1>1, <1>2
<1>6. q = v \div (2 * d)
  BY <1>2, <1>3, <1>4, <1>5
<1> QED
  BY <1>1, <1>2, <1>6

\* The bits of a number that fits into them are those of this number.
LEMMA NumOfBitsOf ==
  ASSUME NEW n \in Nat, NEW v \in Nat, v < Pow2[n]
  PROVE  /\ BitsOf(v, n) \in Seq({0, 1}) /\ Len(BitsOf(v, n)) = n
         /\ NumOfBits(BitsOf(v, n)) = v
<1> DEFINE s == BitsOf(v, n)
<1>1. s \in Seq({0, 1}) /\ Len(s) = n /\ \A k \in 1..n : s[k] = (v \div Pow2[n - k]) % 2
  <2>1. \A k \in 1..n : n - k \in Nat /\ v \div Pow2[n - k] \in Nat /\ (v \div Pow2[n - k]) % 2 \in {0, 1}
    <3>1. ASSUME NEW k \in 1..n
          PROVE  n - k \in Nat /\ v \div Pow2[n - k] \in Nat /\ (v \div Pow2[n - k]) % 2 \in {0, 1}
      <4>1. n - k \in Nat
        OBVIOUS
      <4>2. Pow2[n - k] \in Nat \ {0}
        BY <4>1, Pow2Is
      <4>3. v \div Pow2[n - k] \in Nat
        BY <4>2, DivDiv
      <4> QED
        BY <4>1, <4>3
    <3> QED
      BY <3>1
  <2> QED
    BY <2>1 DEF BitsOf
<1> HIDE DEF s
<1>2. PICK num \in [0..n -> Nat] :
        num[0] = 0 /\ (\A k \in 1..n : num[k] = 2 * num[k - 1] + s[k]) /\ NumOfBits(s) = num[n]
  BY <1>1, NumOfBitsIs
<1> DEFINE T == {k \in Nat : k =< n => num[k] = v \div Pow2[n - k]}
<1>3. 0 \in T
  <2>1. Pow2[n] \in Nat \ {0}
    BY Pow2Is
  <2>2. v \div Pow2[n] = 0
    BY <2>1
  <2> QED
    BY <1>2, <2>2
<1>4. \A k \in T : k + 1 \in T
  <2>1. ASSUME NEW k \in T PROVE k + 1 \in T
    <3> SUFFICES ASSUME k + 1 =< n PROVE num[k + 1] = v \div Pow2[n - (k + 1)]
      OBVIOUS
    <3>1. k + 1 \in 1..n /\ (k + 1) - 1 = k /\ k =< n /\ n - (k + 1) \in Nat
          /\ (n - (k + 1)) + 1 = n - k
      OBVIOUS
    <3>2. Pow2[n - (k + 1)] \in Nat \ {0} /\ Pow2[n - k] = 2 * Pow2[n - (k + 1)]
      BY <3>1, Pow2Is
    <3>3. num[k + 1] = 2 * num[k] + s[k + 1]
      BY <1>2, <3>1
    <3>4. num[k] = v \div (2 * Pow2[n - (k + 1)])
      BY <3>1, <3>2
    <3>5. s[k + 1] = (v \div Pow2[n - (k + 1)]) % 2
      BY <1>1, <3>1
    <3> QED
      BY <3>2, <3>3, <3>4, <3>5, DivDiv
  <2> QED
    BY <2>1
<1> HIDE DEF T
<1>5. T = Nat
  <2>1. T \subseteq Nat
    BY DEF T
  <2> QED
    BY <2>1, <1>3, <1>4, Array!SetInduction
<1>6. num[n] = v \div Pow2[n - n]
  BY <1>5 DEF T
<1>7. num[n] = v
  <2>1. n - n = 0 /\ v \div 1 = v
    OBVIOUS
  <2> QED
    BY <1>6, <2>1, Pow2Is
<1> QED
  BY <1>1, <1>2, <1>7 DEF s

-------------------------------------------------------------------------------
(* The objects that are given to a structure.                              *)

ObjectType == [present : BOOLEAN, set : BOOLEAN, value : Nat, tag : Nat]

\* An object of the first n fields.
IsObject(o, n) ==
  /\ o \in [1..n -> ObjectType]
  /\ \A i \in 1..n : o[i].tag =< Len(fields[i].cases)

LEMMA FieldTypes ==
  ASSUME fields \in Schemas
  PROVE  /\ fields \in Seq(FieldType) /\ Len(fields) \in Nat
         /\ \A i \in 1..Len(fields) :
              /\ fields[i] \in FieldType
              /\ fields[i].cases \in Seq(Nat) /\ fields[i].select \in Seq(Nat)
              /\ Len(fields[i].cases) \in Nat
              /\ {fields[i].extended} \subseteq BOOLEAN
              /\ {fields[i].clause, fields[i].alignment, fields[i].offset, fields[i].bits,
                  fields[i].selector} \subseteq Nat
              /\ fields[i].values \subseteq Nat
              /\ fields[i].kind \in {"number", "choice", "union"}
              /\ fields[i].optional \in {"no", "auto", "clause"}
              /\ \A j \in {fields[i].clause, fields[i].offset, fields[i].selector} \ {0} :
                   j \in 1..(i - 1) /\ ~fields[j].extended /\ fields[j].optional = "no"
                   /\ fields[j].kind = "number"
              /\ fields[i].kind = "choice" =>
                   /\ fields[i].selector > 0
                   /\ \A k \in 1..Len(fields[i].select) : fields[i].select[k] =< Len(fields[i].cases)
              /\ fields[i].optional = "clause" => fields[i].clause > 0
<1>1. fields \in Seq(FieldType) /\ Len(fields) \in Nat
  BY SchemasAssumption
<1>2. ASSUME NEW i \in 1..Len(fields) PROVE fields[i] \in FieldType
  BY <1>1
<1>3. \A i \in 1..Len(fields) :
        /\ \A j \in {fields[i].clause, fields[i].offset, fields[i].selector} \ {0} :
             j \in 1..(i - 1) /\ ~fields[j].extended /\ fields[j].optional = "no"
             /\ fields[j].kind = "number"
        /\ fields[i].kind = "choice" =>
             /\ fields[i].selector > 0
             /\ \A k \in 1..Len(fields[i].select) : fields[i].select[k] =< Len(fields[i].cases)
        /\ fields[i].optional = "clause" => fields[i].clause > 0
  BY SchemasAssumption
<1>4. ASSUME NEW i \in 1..Len(fields)
      PROVE  /\ fields[i].cases \in Seq(Nat) /\ fields[i].select \in Seq(Nat)
             /\ Len(fields[i].cases) \in Nat
             /\ {fields[i].extended} \subseteq BOOLEAN
             /\ {fields[i].clause, fields[i].alignment, fields[i].offset, fields[i].bits,
                 fields[i].selector} \subseteq Nat
             /\ fields[i].values \subseteq Nat
             /\ fields[i].kind \in {"number", "choice", "union"}
             /\ fields[i].optional \in {"no", "auto", "clause"}
  BY <1>2 DEF FieldType
<1> QED
  BY <1>1, <1>2, <1>3, <1>4

LEMMA ObjectsAre ==
  ASSUME fields \in Schemas, NEW n \in 0..Len(fields), NEW o \in Objects(n)
  PROVE  IsObject(o, n) /\ \A i \in 1..n : o[i] \in FieldObjects(fields[i])
<1>1. Len(fields) \in Nat /\ n \in Nat
  BY FieldTypes
<1>2. \A i \in 1..n : FieldObjects(fields[i]) \subseteq ObjectType
                      /\ \A x \in FieldObjects(fields[i]) : x.tag =< Len(fields[i].cases)
  <2>1. ASSUME NEW i \in 1..n, NEW x \in FieldObjects(fields[i])
        PROVE  x \in ObjectType /\ x.tag =< Len(fields[i].cases)
    <3>1. i \in 1..Len(fields)
      BY <1>1
    <3>2. fields[i].values \subseteq Nat /\ Len(fields[i].cases) \in Nat
      BY <3>1, FieldTypes
    <3>3. x \in [present : BOOLEAN, set : BOOLEAN, value : fields[i].values,
                 tag : 0..Len(fields[i].cases)]
      BY DEF FieldObjects
    <3> QED
      BY <3>2, <3>3 DEF ObjectType
  <2> QED
    BY <2>1
<1> DEFINE Many == SUBSET Seq(ObjectType)
           longer(X, k) == {Append(s, x) : s \in X, x \in FieldObjects(fields[k])}
           next == [k \in 1..n |-> [X \in Many |-> longer(X, k)]]
<1>3. next \in [1..n -> [Many -> Many]]
  <2>1. ASSUME NEW k \in 1..n, NEW X \in Many
        PROVE  longer(X, k) \in Many
    BY <1>2
  <2> HIDE DEF longer, Many
  <2> QED
    BY <2>1
<1>4. \A k \in 1..n : \A X \in Many : next[k][X] = longer(X, k)
  <2> HIDE DEF longer, Many
  <2> QED
    OBVIOUS
<1>5. {<<>>} \in Many
  OBVIOUS
<1> HIDE DEF next, Many, longer
<1>6. PICK f : Array!Recursive(f, Many, {<<>>}, next, n)
  BY <1>1, <1>3, <1>5, Array!FiniteRecursion
<1> DEFINE is(g) == g = [i \in 0..n |-> IF i = 0 THEN {<<>>}
                           ELSE longer(g[i - 1], i)]
           all == CHOOSE g : is(g)
<1>7. is(f)
  <2>1. f \in [0..n -> Many] /\ f[0] = {<<>>} /\ \A k \in 1..n : f[k] = next[k][f[k - 1]]
    BY <1>6 DEF Array!Recursive
  <2>2. \A k \in 1..n : k - 1 \in 0..n /\ f[k - 1] \in Many
    BY <1>1, <2>1
  <2>3. \A k \in 1..n : f[k] = longer(f[k - 1], k)
    BY <1>4, <2>1, <2>2
  <2>4. \A k \in 0..n : k # 0 => k \in 1..n
    BY <1>1
  <2> QED
    BY <2>1, <2>3, <2>4
<1>8. is(all)
  <2> HIDE DEF is
  <2> QED
    BY <1>7
<1>9. Objects(n) = all[n]
  BY DEF Objects, longer
<1> HIDE DEF all
<1>10. all[0] = {<<>>} /\ \A k \in 1..n :
         all[k] = longer(all[k - 1], k)
  <2>1. 0 \in 0..n /\ \A k \in 1..n : k \in 0..n /\ k # 0
    BY <1>1
  <2> QED
    BY <1>8, <2>1
<1> DEFINE fine(k) == \A s \in all[k] : /\ s \in Seq(ObjectType) /\ Len(s) = k
                                        /\ \A i \in 1..k : s[i] \in FieldObjects(fields[i])
           T == {k \in Nat : k =< n => fine(k)}
<1>11. 0 \in T
  <2>1. ASSUME NEW s \in all[0]
        PROVE  s \in Seq(ObjectType) /\ Len(s) = 0 /\ \A i \in 1..0 : s[i] \in FieldObjects(fields[i])
    <3>1. s = <<>>
      BY <1>10
    <3> QED
      BY <3>1
  <2> QED
    BY <2>1
<1>12. \A k \in T : k + 1 \in T
  <2>1. ASSUME NEW k \in Nat, fine(k), k + 1 =< n, NEW s \in all[k + 1]
        PROVE  /\ s \in Seq(ObjectType) /\ Len(s) = k + 1
               /\ \A i \in 1..(k + 1) : s[i] \in FieldObjects(fields[i])
    <3>1. k + 1 \in 1..n /\ (k + 1) - 1 = k
      BY <1>1, <2>1
    <3>2. PICK q \in all[k], x \in FieldObjects(fields[k + 1]) : s = Append(q, x)
      BY <1>10, <3>1 DEF longer
    <3>3. q \in Seq(ObjectType) /\ Len(q) = k /\ \A i \in 1..k : q[i] \in FieldObjects(fields[i])
      BY <2>1, <3>2
    <3>4. x \in ObjectType
      BY <1>2, <3>1, <3>2
    <3> HIDE DEF fine
    <3>5. s \in Seq(ObjectType) /\ Len(s) = k + 1 /\ s[k + 1] = x
          /\ \A i \in 1..k : s[i] = q[i]
      BY <3>2, <3>3, <3>4
    <3>6. ASSUME NEW i \in 1..(k + 1) PROVE s[i] \in FieldObjects(fields[i])
      <4>1. CASE i = k + 1
        BY <3>2, <3>5, <4>1
      <4>2. CASE i # k + 1
        <5>1. i \in 1..k
          BY <4>2
        <5> QED
          BY <3>3, <3>5, <5>1
      <4> QED
        BY <4>1, <4>2
    <3> QED
      BY <3>5, <3>6
  <2>2. \A k \in Nat : fine(k) /\ k + 1 =< n => fine(k + 1)
    BY <2>1
  <2> HIDE DEF fine
  <2>3. ASSUME NEW k \in T PROVE k + 1 \in T
    <3>1. k \in Nat /\ (k =< n => fine(k))
      OBVIOUS
    <3>2. k + 1 =< n => fine(k + 1)
      BY <1>1, <2>2, <3>1
    <3> QED
      BY <3>1, <3>2
  <2> QED
    BY <2>3
<1> HIDE DEF T
<1>13. T = Nat
  <2>1. T \subseteq Nat
    BY DEF T
  <2> QED
    BY <2>1, <1>11, <1>12, Array!SetInduction
<1>14. fine(n)
  BY <1>1, <1>13 DEF T
<1>15. o \in Seq(ObjectType) /\ Len(o) = n /\ \A i \in 1..n : o[i] \in FieldObjects(fields[i])
  BY <1>9, <1>14
<1> QED
  BY <1>1, <1>2, <1>15 DEF IsObject

-------------------------------------------------------------------------------
(* Positions.                                                              *)

LEMMA AlignToIs ==
  ASSUME NEW a \in Nat, NEW p \in Nat
  PROVE  /\ AlignTo(a, p) \in Nat /\ p =< AlignTo(a, p)
         /\ a = 0 => AlignTo(a, p) = p
         /\ a # 0 => AlignTo(a, p) < p + a /\ AlignTo(a, p) % a = 0
<1>1. CASE a = 0 \/ p = 0
  <2>1. AlignTo(a, p) = p
    BY <1>1 DEF AlignTo
  <2>2. a # 0 => p % a = 0
    BY <1>1
  <2> QED
    BY <2>1, <2>2
<1>2. CASE a # 0 /\ p # 0
  <2> DEFINE q == (p - 1) \div a
             r == (p - 1) % a
  <2>1. q \in Nat /\ r \in 0..(a - 1) /\ p - 1 = a * q + r
    <3>1. p - 1 \in Nat /\ a \in Nat \ {0}
      BY <1>2
    <3> QED
      BY <3>1, Division
  <2>2. AlignTo(a, p) = (q + 1) * a
    BY <1>2 DEF AlignTo
  <2> HIDE DEF q, r
  <2>3. (q + 1) * a = a * q + a /\ (q + 1) * a \in Nat
    BY <2>1
  <2>4. a * q \in Nat
    BY <2>1
  <2>5. AlignTo(a, p) = p - 1 - r + a
    BY <2>1, <2>2, <2>3, <2>4
  <2>6. ((q + 1) * a) % a = 0
    <3>1. q + 1 \in Nat /\ a \in Nat \ {0}
      BY <1>2, <2>1
    <3> QED
      BY <3>1
  <2> QED
    BY <1>2, <2>1, <2>2, <2>3, <2>5, <2>6
<1> QED
  BY <1>1, <1>2

LEMMA PadToIs ==
  ASSUME NEW s \in Seq({0, 1}), NEW p \in Nat
  PROVE  /\ PadTo(s, p) \in Seq({0, 1})
         /\ Len(PadTo(s, p)) = IF p > Len(s) THEN p ELSE Len(s)
         /\ \A k \in 1..Len(s) : PadTo(s, p)[k] = s[k]
         /\ \A k \in (Len(s) + 1)..p : PadTo(s, p)[k] = 0
<1> DEFINE zeros == [k \in 1..(p - Len(s)) |-> 0]
<1>1. CASE p > Len(s)
  <2>1. p - Len(s) \in Nat
    BY <1>1
  <2>2. zeros \in Seq({0, 1}) /\ Len(zeros) = p - Len(s) /\ \A k \in 1..(p - Len(s)) : zeros[k] = 0
    BY <2>1
  <2> HIDE DEF zeros
  <2>3. PadTo(s, p) = s \o zeros
    BY DEF PadTo, zeros
  <2> QED
    BY <1>1, <2>1, <2>2, <2>3
<1>2. CASE p =< Len(s)
  <2>1. 1..(p - Len(s)) = 1..0
    BY <1>2
  <2>2. zeros = [k \in 1..0 |-> 0]
    BY <2>1
  <2> HIDE DEF zeros
  <2>3. zeros \in Seq({0, 1}) /\ Len(zeros) = 0
    BY <2>2
  <2>4. PadTo(s, p) = s \o zeros
    BY DEF PadTo, zeros
  <2> QED
    BY <1>2, <2>3, <2>4
<1> QED
  BY <1>1, <1>2

LEMMA CaseBitsIs ==
  ASSUME fields \in Schemas, NEW i \in 1..Len(fields), NEW t \in 0..Len(fields[i].cases)
  PROVE  CaseBits(i, t) \in Nat /\ TagBits(i) \in {0, 8}
         /\ ValueBits(i, t) \in Nat /\ ValueBits(i, t) = TagBits(i) + CaseBits(i, t)
<1>1. fields[i].bits \in Nat /\ fields[i].cases \in Seq(Nat)
  BY FieldTypes
<1>2. CaseBits(i, t) \in Nat
  BY <1>1 DEF CaseBits
<1> QED
  BY <1>2 DEF TagBits, ValueBits

\* The three passes move to the same places.
LEMMA StartsAgree ==
  ASSUME fields \in Schemas, NEW i \in 1..Len(fields), NEW p \in Nat
  PROVE  /\ ValueStart(i, p) \in Nat /\ p =< ValueStart(i, p)
         /\ MeasureStart(i, p) \in Nat /\ p =< MeasureStart(i, p)
         /\ FlagEnd(i, p) \in Nat /\ p =< FlagEnd(i, p)
         /\ fields[i].alignment =< 64 => CanSkip(i, p) /\ StreamStart(i, p) = ValueStart(i, p)
<1>1. fields[i].alignment \in Nat
  BY FieldTypes
<1> DEFINE q == AlignTo(fields[i].alignment, p)
<1>2. q \in Nat /\ p =< q /\ (fields[i].alignment = 0 => q = p)
      /\ (fields[i].alignment # 0 => q < p + fields[i].alignment)
  BY <1>1, AlignToIs
<1>3. AlignTo(8, q) \in Nat /\ q =< AlignTo(8, q) /\ AlignTo(8, p) \in Nat /\ p =< AlignTo(8, p)
  BY <1>2, AlignToIs
<1> HIDE DEF q
<1>4. ASSUME fields[i].alignment =< 64
      PROVE  Skip(i, p) = q - p /\ q - p \in 0..64
  <2>1. CASE fields[i].alignment = 0
    BY <1>2, <2>1 DEF Skip
  <2>2. CASE fields[i].alignment # 0
    <3>1. q - p \in 0..63
      BY <1>1, <1>2, <1>4, <2>2
    <3>2. (q - p) % 256 = q - p
      BY <1>2, <3>1
    <3> QED
      BY <2>2, <3>1, <3>2 DEF Skip, q
  <2> QED
    BY <2>1, <2>2
<1>5. ASSUME fields[i].alignment =< 64
      PROVE  CanSkip(i, p) /\ StreamStart(i, p) = ValueStart(i, p)
  <2>1. p + Skip(i, p) = q
    BY <1>2, <1>4, <1>5
  <2>2. StreamStart(i, p) = IF fields[i].offset # 0 THEN AlignTo(8, q) ELSE q
    BY <2>1 DEF StreamStart
  <2>3. ValueStart(i, p) = IF fields[i].offset # 0 THEN AlignTo(8, q) ELSE q
    BY DEF ValueStart, q
  <2>4. Skip(i, p) =< 64
    BY <1>2, <1>4, <1>5
  <2>5. CanSkip(i, p)
    BY <2>4 DEF CanSkip
  <2>6. StreamStart(i, p) = ValueStart(i, p)
    BY ONLY <2>2, <2>3
  <2> QED
    BY <2>5, <2>6
<1> QED
  BY <1>2, <1>3, <1>5 DEF ValueStart, MeasureStart, FlagEnd, q

\* A field ends behind its start.
LEMMA MeasuredIs ==
  ASSUME fields \in Schemas, known \in 1..Len(fields), IsObject(object, known),
         NEW i \in 1..known, NEW p \in Nat
  PROVE  Measured(i, p) \in Nat /\ p =< Measured(i, p)
<1>1. i \in 1..Len(fields) /\ object[i].tag \in 0..Len(fields[i].cases)
  BY FieldTypes DEF IsObject, ObjectType
<1>2. ValueBits(i, object[i].tag) \in Nat
  BY <1>1, CaseBitsIs
<1>3. MeasureStart(i, p) \in Nat /\ p =< MeasureStart(i, p)
  BY <1>1, StartsAgree
<1>4. \A x \in Nat : /\ FlagEnd(i, x) \in Nat /\ x =< FlagEnd(i, x)
                     /\ ValueStart(i, x) \in Nat /\ x =< ValueStart(i, x)
  BY <1>1, StartsAgree
<1> DEFINE a == MeasureStart(i, p)
           b == FlagEnd(i, a)
           c == ValueStart(i, b)
           v == ValueBits(i, object[i].tag)
<1>5. a \in Nat /\ p =< a
  BY <1>3
<1>6. b \in Nat /\ a =< b /\ c \in Nat /\ b =< c
  BY <1>4, <1>5
<1>7. Measured(i, p) = IF ~IsPresent(object, i) THEN p ELSE IF IsSet(object, i) THEN c + v ELSE b
  BY DEF Measured
<1> HIDE DEF a, b, c, v
<1> QED
  BY <1>5, <1>6, <1>7, <1>2 DEF v

-------------------------------------------------------------------------------
(* Types.                                                                  *)

LEMMA PrecedingIs ==
  ASSUME fields \in Schemas, NEW i \in 0..Len(fields)
  PROVE  /\ Preceding(i) \in Nat /\ Preceding(0) = 0
         /\ i < Len(fields) => Preceding(i + 1) = Preceding(i) + (IF fields[i + 1].extended THEN 1 ELSE 0)
         /\ Preceding(i) =< Cardinality(Extended(Len(fields)))
         /\ Cardinality(Extended(Len(fields))) \in Nat
<1>1. Len(fields) \in Nat
  BY FieldTypes
<1> DEFINE ext(n) == {j \in 1..n : fields[j].extended}
<1>2. \A n \in Nat : IsFiniteSet(ext(n)) /\ Cardinality(ext(n)) \in Nat
  <2>1. ASSUME NEW n \in Nat PROVE IsFiniteSet(ext(n)) /\ Cardinality(ext(n)) \in Nat
    <3>1. IsFiniteSet(1..n)
      BY FS_Interval
    <3>2. ext(n) \subseteq 1..n
      OBVIOUS
    <3> QED
      BY <3>1, <3>2, FS_Subset, FS_CardinalityType
  <2> QED
    BY <2>1
<1>3. ext(0) = {}
  OBVIOUS
<1>4. ASSUME i < Len(fields)
      PROVE  Cardinality(ext(i + 1)) = Cardinality(ext(i)) + (IF fields[i + 1].extended THEN 1 ELSE 0)
  <2>1. CASE fields[i + 1].extended
    <3>1. ext(i + 1) = ext(i) \cup {i + 1} /\ i + 1 \notin ext(i)
      BY <2>1
    <3>2. IsFiniteSet(ext(i))
      BY <1>2
    <3> HIDE DEF ext
    <3> QED
      BY <2>1, <3>1, <3>2, FS_AddElement
  <2>2. CASE ~fields[i + 1].extended
    <3>1. ext(i + 1) = ext(i)
      BY <2>2
    <3> HIDE DEF ext
    <3> QED
      BY <1>2, <2>2, <3>1
  <2> QED
    BY <2>1, <2>2
<1>5. Cardinality(ext(i)) =< Cardinality(ext(Len(fields)))
  <2>1. ext(i) \subseteq ext(Len(fields))
    BY <1>1
  <2> HIDE DEF ext
  <2> QED
    BY <1>1, <1>2, <2>1, FS_Subset
<1>6. Cardinality(ext(0)) = 0
  BY <1>3, FS_EmptySet
<1> QED
  <2>1. \A n \in Nat : Preceding(n) = Cardinality(ext(n)) /\ Extended(n) = ext(n)
    BY DEF Preceding, Extended
  <2>2. i \in Nat /\ i + 1 \in Nat /\ 0 \in Nat
    OBVIOUS
  <2> HIDE DEF ext
  <2> QED
    BY <1>1, <1>2, <1>4, <1>5, <1>6, <2>1, <2>2

Types ==
  /\ fields \in Schemas /\ known \in Versions
  /\ IsObject(object, known)
  /\ operation \in {"validate", "initializeOffsets", "bitSizeOf", "write", "read"}
  /\ status \in {"busy", "done", "thrown"}
  /\ index \in 0..known
  /\ status = "busy" => index < known
  /\ status = "done" => index = known
  /\ numExtendedFields \in Nat /\ numExtendedFields =< Cardinality(Extended(Len(fields)))
  /\ operation = "validate" /\ status = "busy" => numExtendedFields =< Preceding(index)
  /\ endBitPosition \in Nat /\ bitSize \in Nat
  /\ bits \in Seq({0, 1}) /\ buffer \in Seq({0, 1})
  /\ bitPosition \in 0..Len(buffer)
  /\ operation = "write" => places \in [1..known -> Nat] /\ Len(bits) =< bitSize

LEMMA VersionsAre ==
  ASSUME fields \in Schemas, NEW n \in Versions
  PROVE  n \in 1..Len(fields) /\ n \in Nat /\ n # 0
BY FieldTypes DEF Versions

LEMMA TypesInit ==
  ASSUME Init
  PROVE  Types
<1>1. fields \in Schemas /\ known \in Versions
  BY DEF Init
<1>2. known \in 1..Len(fields) /\ known \in Nat /\ known # 0
  BY <1>1, VersionsAre
<1>3. IsObject(object, known)
  BY <1>1, <1>2, ObjectsAre DEF Init
<1>4. Preceding(0) = 0 /\ Cardinality(Extended(Len(fields))) \in Nat
  BY <1>1, FieldTypes, PrecedingIs
<1>5. <<>> \in Seq({0, 1}) /\ Len(<<>>) = 0
  OBVIOUS
<1> QED
  BY <1>1, <1>2, <1>3, <1>4, <1>5 DEF Init, Types

LEMMA ValidateFieldTypes ==
  ASSUME Types, ValidateField
  PROVE  Types'
<1>1. fields \in Schemas /\ known \in Versions /\ known \in 1..Len(fields) /\ index < known
      /\ index \in 0..Len(fields) /\ index + 1 \in 0..known /\ Len(fields) \in Nat
  BY VersionsAre, FieldTypes DEF Types, ValidateField, Busy
<1>2. Preceding(index) \in Nat
      /\ Preceding(index + 1) = Preceding(index) + (IF fields[index + 1].extended THEN 1 ELSE 0)
      /\ Preceding(index + 1) =< Cardinality(Extended(Len(fields)))
      /\ Cardinality(Extended(Len(fields))) \in Nat
  <2>1. index \in 0..Len(fields) /\ index + 1 \in 0..Len(fields) /\ index < Len(fields)
    BY <1>1
  <2> QED
    BY <1>1, <2>1, PrecedingIs
<1>3. numExtendedFields =< Preceding(index) /\ numExtendedFields \in Nat
  BY DEF Types, ValidateField, Busy
<1>4. numExtendedFields' \in Nat /\ numExtendedFields' =< Preceding(index + 1)
  <2>1. CASE fields[index + 1].extended /\ object[index + 1].present
    BY <1>2, <1>3, <2>1 DEF ValidateField
  <2>2. CASE ~(fields[index + 1].extended /\ object[index + 1].present)
    <3>1. numExtendedFields' = numExtendedFields
      BY <2>2 DEF ValidateField
    <3>2. Preceding(index) =< Preceding(index + 1)
      BY <1>2
    <3> QED
      BY <1>2, <1>3, <3>1, <3>2
  <2> QED
    BY <2>1, <2>2
<1>5. \/ index' = index + 1 /\ status' = IF index + 1 = known THEN "done" ELSE "busy"
      \/ index' = index /\ status' = "thrown"
  BY DEF ValidateField, Continue
<1>6. UNCHANGED <<fields, known, object, operation, endBitPosition, bitSize, bits, places,
                  buffer, bitPosition>>
  BY DEF ValidateField
<1>7. Extended(Len(fields))' = Extended(Len(fields)) /\ Versions' = Versions
      /\ (IsObject(object, known) => IsObject(object, known)')
  BY <1>6 DEF Extended, Versions, IsObject
<1>8. status' = "busy" => index' = index + 1
  BY <1>5
<1>9. index' \in 0..known /\ (status' = "busy" => index' < known) /\ (status' = "done" => index' = known)
      /\ status' \in {"busy", "done", "thrown"}
  BY <1>1, <1>5
<1>10. operation = "validate"
  BY DEF ValidateField, Busy
<1>11. numExtendedFields' =< Cardinality(Extended(Len(fields)))
  BY <1>2, <1>4
<1>12. status' = "busy" => numExtendedFields' =< Preceding(index)'
  <2>1. Preceding(index)' = Cardinality({j \in 1..index' : fields[j].extended})
    BY <1>6 DEF Preceding
  <2>2. Preceding(index + 1) = Cardinality({j \in 1..(index + 1) : fields[j].extended})
    BY DEF Preceding
  <2> QED
    BY <1>4, <1>8, <2>1, <2>2
<1> QED
  BY <1>1, <1>4, <1>6, <1>7, <1>9, <1>10, <1>11, <1>12 DEF Types

\* Plain(s) of all schemas.
PlainSchemas == \A s \in Schemas : Plain(s)

LEMMA SchemaStays ==
  ASSUME Types, fields' = fields, known' = known
  PROVE  /\ (fields \in Schemas)' /\ (known \in Versions)'
         /\ Cardinality(Extended(Len(fields)))' = Cardinality(Extended(Len(fields)))
         /\ object' = object => IsObject(object, known)'
BY DEF Types, Versions, Extended, IsObject

LEMMA AtWork ==
  ASSUME Types
  PROVE  /\ fields \in Schemas /\ known \in Versions /\ known \in 1..Len(fields) /\ known \in Nat
         /\ known # 0 /\ Len(fields) \in Nat
         /\ index \in Nat
         /\ status = "busy" => index + 1 \in 1..known /\ index + 1 \in 1..Len(fields)
BY VersionsAre, FieldTypes DEF Types

LEMMA FieldIs ==
  ASSUME Types, NEW i \in 1..known
  PROVE  /\ i \in Nat /\ i \in 1..Len(fields) /\ fields \in Schemas
         /\ fields[i].cases \in Seq(Nat) /\ Len(fields[i].cases) \in Nat
         /\ object[i] \in ObjectType
         /\ object[i].tag \in 0..Len(fields[i].cases) /\ object[i].value \in Nat
         /\ object[i].present \in BOOLEAN /\ object[i].set \in BOOLEAN
<1>1. i \in Nat /\ i \in 1..Len(fields) /\ fields \in Schemas
  BY AtWork
<1>2. object[i] \in ObjectType /\ object[i].tag =< Len(fields[i].cases)
  BY DEF Types, IsObject
<1>3. fields[i].cases \in Seq(Nat) /\ Len(fields[i].cases) \in Nat
  BY <1>1, FieldTypes
<1> QED
  BY <1>1, <1>2, <1>3 DEF ObjectType

LEMMA ContinueTypes ==
  ASSUME Types, status = "busy", Continue
  PROVE  /\ (index \in 0..known)' \/ known' # known
         /\ known' = known => (status = "busy" => index < known)' /\ (status = "done" => index = known)'
         /\ status' \in {"busy", "done", "thrown"}
BY AtWork DEF Continue

LEMMA BeginTypes ==
  ASSUME Types, Did("validate") \/ Did("initializeOffsets") \/ Did("bitSizeOf") \/ Did("read"),
         known' = known, fields' = fields, object' = object, NEW name,
         name \in {"initializeOffsets", "bitSizeOf", "write"} \/ (name = "validate" /\ numExtendedFields' = 0),
         Begin(name),
         numExtendedFields' \in {0, numExtendedFields}, endBitPosition' \in {0, endBitPosition},
         UNCHANGED <<bitSize, buffer, bitPosition>>,
         IF name = "write" THEN bits' = <<>> /\ places' = [i \in 1..known |-> 0] ELSE bits' = bits
  PROVE  Types'
<1>1. known \in Nat /\ known # 0 /\ fields \in Schemas /\ Len(fields) \in Nat
  BY AtWork
<1>2. operation' = name /\ status' = "busy" /\ index' = 0
  BY DEF Begin
<1>3. index' \in 0..known' /\ index' < known'
  BY <1>1, <1>2
<1>4. bits' \in Seq({0, 1}) /\ (name = "write" => Len(bits') = 0)
  <2>1. <<>> \in Seq({0, 1}) /\ Len(<<>>) = 0
    OBVIOUS
  <2>2. bits' = <<>> \/ (name # "write" /\ bits' = bits)
    OBVIOUS
  <2> QED
    BY <2>1, <2>2 DEF Types
<1>5. 0 =< Preceding(0)' /\ Cardinality(Extended(Len(fields))) \in Nat
  <2>1. Preceding(0)' = Cardinality({j \in 1..0 : fields[j].extended})
    BY DEF Preceding
  <2>2. {j \in 1..0 : fields[j].extended} = {}
    OBVIOUS
  <2>3. 0 \in 0..Len(fields)
    BY <1>1
  <2> QED
    BY <1>1, <2>1, <2>2, <2>3, FS_EmptySet, PrecedingIs
<1>6. name = "validate" => numExtendedFields' =< Preceding(index)'
  <2>1. Preceding(index)' = Preceding(0)'
    BY <1>2 DEF Preceding
  <2> QED
    BY <1>5, <2>1
<1>7. name = "write" => places' \in [1..known' -> Nat]
  OBVIOUS
<1>8. (fields \in Schemas)' /\ (known \in Versions)' /\ IsObject(object, known)'
      /\ Cardinality(Extended(Len(fields)))' = Cardinality(Extended(Len(fields)))
  BY SchemaStays
<1>9. name \in {"validate", "initializeOffsets", "bitSizeOf", "write"}
  OBVIOUS
<1>10. numExtendedFields' \in Nat /\ numExtendedFields' =< Cardinality(Extended(Len(fields)))
       /\ endBitPosition' \in Nat
  BY <1>5 DEF Types
<1> QED
  BY <1>2, <1>3, <1>4, <1>6, <1>7, <1>8, <1>9, <1>10 DEF Types

LEMMA ValueTypeBitsIs ==
  ASSUME PlainSchemas, fields \in Schemas, NEW i \in 1..Len(fields)
  PROVE  ValueTypeBits(i) \in {8, 16, 32, 64}
<1>1. fields[i].bits \in Nat /\ fields[i].bits =< 64
  BY FieldTypes DEF PlainSchemas, Plain
<1>2. \E n \in {8, 16, 32, 64} :
        n >= fields[i].bits /\ \A m \in {8, 16, 32, 64} : m < n => m < fields[i].bits
  <2>1. CASE fields[i].bits =< 8
    BY <1>1, <2>1
  <2>2. CASE fields[i].bits > 8 /\ fields[i].bits =< 16
    BY <1>1, <2>2
  <2>3. CASE fields[i].bits > 16 /\ fields[i].bits =< 32
    BY <1>1, <2>3
  <2>4. CASE fields[i].bits > 32
    BY <1>1, <2>4
  <2> QED
    BY <1>1, <2>1, <2>2, <2>3, <2>4
<1> QED
  BY <1>2 DEF ValueTypeBits

\* initializeOffsets writes a number into the field that holds the offset, and changes no other.
LEMMA SetOffsetIs ==
  ASSUME PlainSchemas, fields \in Schemas, known \in 1..Len(fields), IsObject(object, known),
         NEW i \in 1..known, NEW p \in Nat
  PROVE  LET h == fields[i].offset
         IN  /\ IsObject(SetOffset(i, p), known)
             /\ h \in 0..known /\ h < i
             /\ \A k \in 1..known : \/ SetOffset(i, p)[k] = object[k]
                                    \/ /\ k = h /\ IsPresent(object, i) /\ IsSet(object, i)
                                       /\ SetOffset(i, p)[k] = [object[k] EXCEPT !.value = OffsetOf(i, p)]
             /\ h # 0 /\ IsPresent(object, i) /\ IsSet(object, i)
                => SetOffset(i, p)[h].value = OffsetOf(i, p)
             /\ h # 0 => OffsetOf(i, p) \in Nat
<1> DEFINE h == fields[i].offset
           v == OffsetOf(i, p)
<1>1. i \in 1..Len(fields) /\ known \in Nat /\ Len(fields) \in Nat /\ i \in Nat
  BY FieldTypes
<1>2. h \in Nat /\ (h # 0 => h \in 1..(i - 1))
  BY <1>1, FieldTypes
<1>3. h # 0 => v \in Nat
  <2> SUFFICES ASSUME h # 0 PROVE v \in Nat
    OBVIOUS
  <2>1. h \in 1..Len(fields)
    BY <1>1, <1>2
  <2>2. Pow2[ValueTypeBits(h)] \in Nat \ {0}
    <3>1. ValueTypeBits(h) \in Nat
      BY <2>1, ValueTypeBitsIs
    <3> QED
      BY <3>1, Pow2Is
  <2> DEFINE a == MeasureStart(i, p)
             b == FlagEnd(i, a)
             c == ValueStart(i, b)
  <2>3. c \in Nat
    <3>1. a \in Nat
      BY <1>1, StartsAgree
    <3> HIDE DEF a
    <3>2. b \in Nat
      BY <1>1, <3>1, StartsAgree
    <3> HIDE DEF b
    <3> QED
      BY <1>1, <3>2, StartsAgree
  <2>4. v = (c \div 8) % Pow2[ValueTypeBits(h)]
    BY DEF OffsetOf
  <2> HIDE DEF c, v, h
  <2>5. c \div 8 \in Nat
    BY <2>3
  <2> DEFINE d == c \div 8
             m == Pow2[ValueTypeBits(h)]
  <2>6. d \in Nat /\ m \in Nat \ {0} /\ v = d % m
    BY <2>2, <2>4, <2>5
  <2> HIDE DEF d, m
  <2>7. d % m \in Nat
    BY <2>6, Division
  <2> QED
    BY <2>6, <2>7
<1> HIDE DEF v
<1>4. CASE h # 0 /\ IsPresent(object, i) /\ IsSet(object, i)
  <2>1. SetOffset(i, p) = [object EXCEPT ![h].value = v]
    BY <1>4 DEF SetOffset, v
  <2>2. h \in 1..known
    BY <1>1, <1>2, <1>4
  <2>3. object \in [1..known -> ObjectType] /\ object[h] \in ObjectType
    BY <2>2 DEF IsObject
  <2>4. [object[h] EXCEPT !.value = v] \in ObjectType
        /\ [object[h] EXCEPT !.value = v].tag = object[h].tag
        /\ [object[h] EXCEPT !.value = v].value = v
    BY <1>3, <1>4, <2>3 DEF ObjectType
  <2> DEFINE x == [object[h] EXCEPT !.value = v]
  <2>5. SetOffset(i, p) = [object EXCEPT ![h] = x]
    BY <2>1, <2>3 DEF ObjectType
  <2> HIDE DEF x, h
  <2>6. SetOffset(i, p)[h] = x /\ (\A k \in 1..known : k # h => SetOffset(i, p)[k] = object[k])
        /\ SetOffset(i, p) \in [1..known -> ObjectType]
    BY <2>2, <2>3, <2>4, <2>5 DEF x
  <2>7. IsObject(SetOffset(i, p), known)
    BY <2>2, <2>4, <2>6 DEF IsObject, x
  <2> QED
    BY <1>1, <1>2, <1>3, <1>4, <2>2, <2>4, <2>6, <2>7 DEF x, h, v
<1>5. CASE ~(h # 0 /\ IsPresent(object, i) /\ IsSet(object, i))
  <2>1. SetOffset(i, p) = object
    BY <1>5 DEF SetOffset
  <2> QED
    BY <1>1, <1>2, <1>3, <1>5, <2>1 DEF v
<1> QED
  BY <1>4, <1>5

\* The two of its conclusions that a step of the measuring needs.
OffsetWritten(so, i, p) ==
  LET h == fields[i].offset
  IN  /\ \A k \in 1..known : so[k] = object[k] \/ k = h
      /\ h # 0 /\ IsPresent(object, i) /\ IsSet(object, i) => so[h].value = OffsetOf(i, p)

LEMMA OffsetIsWritten ==
  ASSUME PlainSchemas, fields \in Schemas, known \in 1..Len(fields), IsObject(object, known),
         NEW i \in 1..known, NEW p \in Nat
  PROVE  OffsetWritten(SetOffset(i, p), i, p)
<1> DEFINE h == fields[i].offset
           v == OffsetOf(i, p)
           so == SetOffset(i, p)
<1>1. CASE h # 0 /\ IsPresent(object, i) /\ IsSet(object, i)
  <2>1. so = [object EXCEPT ![h].value = v]
    BY <1>1 DEF SetOffset
  <2>2. h \in 1..known
    <3>1. i \in 1..Len(fields) /\ known \in Nat /\ Len(fields) \in Nat /\ i \in Nat
      BY FieldTypes
    <3>2. h \in Nat /\ (h # 0 => h \in 1..(i - 1))
      BY <3>1, FieldTypes
    <3> QED
      BY <1>1, <3>1, <3>2
  <2>3. DOMAIN object = 1..known /\ object[h] \in ObjectType
    BY <2>2 DEF IsObject
  <2> HIDE DEF h, v, so
  <2>4. \A k \in 1..known : so[k] = object[k] \/ k = h
    BY <2>1, <2>3
  <2>5. so[h] = [object[h] EXCEPT !.value = v]
    BY <2>1, <2>2, <2>3
  <2>6. so[h].value = v
    BY <2>3, <2>5 DEF ObjectType
  <2> QED
    BY <2>4, <2>6 DEF OffsetWritten, h, v, so
<1>2. CASE ~(h # 0 /\ IsPresent(object, i) /\ IsSet(object, i))
  <2>1. so = object
    BY <1>2 DEF SetOffset
  <2> HIDE DEF so
  <2> QED
    BY <1>2, <2>1 DEF OffsetWritten, so
<1> QED
  BY <1>1, <1>2

LEMMA MeasureFieldTypes ==
  ASSUME PlainSchemas, Types, MeasureField
  PROVE  Types'
<1>1. status = "busy" /\ Continue /\ operation \in {"bitSizeOf", "initializeOffsets"} /\ operation' = operation
      /\ UNCHANGED <<fields, known, numExtendedFields, bits, buffer, bitPosition>>
      /\ endBitPosition' = Measured(index + 1, endBitPosition) /\ bitSize' = endBitPosition'
      /\ object' = IF operation = "bitSizeOf" THEN object ELSE SetOffset(index + 1, endBitPosition)
  BY DEF MeasureField
<1>2. index + 1 \in 1..known /\ fields \in Schemas /\ known \in 1..Len(fields)
      /\ endBitPosition \in Nat /\ IsObject(object, known)
  BY <1>1, AtWork DEF Types
<1>3. endBitPosition' \in Nat
  <2> DEFINE i == index + 1
  <2> HIDE DEF i
  <2>1. Measured(i, endBitPosition) \in Nat
    BY <1>2, MeasuredIs DEF i
  <2> QED
    BY <1>1, <2>1 DEF i
<1>4. IsObject(object, known)'
  <2>1. IsObject(SetOffset(index + 1, endBitPosition), known)
    BY <1>2, SetOffsetIs
  <2> QED
    BY <1>1, <1>2, <2>1 DEF IsObject
<1>5. (index \in 0..known)' /\ (status = "busy" => index < known)' /\ (status = "done" => index = known)'
      /\ status' \in {"busy", "done", "thrown"}
  BY <1>1, ContinueTypes
<1>6. (fields \in Schemas)' /\ (known \in Versions)'
      /\ Cardinality(Extended(Len(fields)))' = Cardinality(Extended(Len(fields)))
  BY <1>1, SchemaStays
<1> QED
  BY <1>1, <1>3, <1>4, <1>5, <1>6 DEF Types

-------------------------------------------------------------------------------
(* What is written.                                                        *)

LEMMA BitsOfIs ==
  ASSUME NEW v \in Int, NEW n \in Nat
  PROVE  BitsOf(v, n) \in Seq({0, 1}) /\ Len(BitsOf(v, n)) = n
<1>1. ASSUME NEW k \in 1..n PROVE (v \div Pow2[n - k]) % 2 \in {0, 1}
  <2>1. n - k \in Nat
    OBVIOUS
  <2> DEFINE d == Pow2[n - k]
  <2>2. d \in Nat \ {0}
    BY <2>1, Pow2Is
  <2> HIDE DEF d
  <2>3. v \div d \in Int
    BY <2>2
  <2>4. (v \div d) % 2 \in {0, 1}
    BY <2>3
  <2> QED
    BY <2>4 DEF d
<1> QED
  BY <1>1 DEF BitsOf

\* Field i as write puts it into the stream takes the bits it was measured to take.
LEMMA WrittenIs ==
  ASSUME PlainSchemas, Types, NEW i \in 1..known
  PROVE  LET flagged == FlagWritten(i)
             s == AlignedToValue(i, flagged)
             q == FlagEnd(i, MeasureStart(i, Len(bits)))
         IN  /\ flagged \in Seq({0, 1}) /\ Len(flagged) = q /\ q \in Nat
             /\ CanSkip(i, q)
             /\ s \in Seq({0, 1}) /\ Len(s) = ValueStart(i, q) /\ ValueStart(i, q) \in Nat
             /\ ValueWritten(i) \in Seq({0, 1})
             /\ Len(ValueWritten(i)) = ValueBits(i, object[i].tag) /\ ValueBits(i, object[i].tag) \in Nat
             /\ s \o ValueWritten(i) \in Seq({0, 1})
             /\ Len(s \o ValueWritten(i)) = ValueStart(i, q) + ValueBits(i, object[i].tag)
<1> DEFINE flagged == FlagWritten(i)
           s == AlignedToValue(i, flagged)
           q == FlagEnd(i, MeasureStart(i, Len(bits)))
           t == object[i].tag
<1>1. i \in 1..Len(fields) /\ fields \in Schemas /\ object[i] \in ObjectType
      /\ t \in 0..Len(fields[i].cases) /\ object[i].value \in Nat /\ {object[i].set} \subseteq BOOLEAN
      /\ bits \in Seq({0, 1}) /\ Len(bits) \in Nat
  BY AtWork, FieldTypes DEF Types, IsObject, ObjectType
<1>2. fields[i].alignment =< 64
  BY <1>1 DEF PlainSchemas, Plain
<1> DEFINE start == MeasureStart(i, Len(bits))
           u == IF fields[i].extended THEN PadTo(bits, AlignTo(8, Len(bits))) ELSE bits
<1>3. start \in Nat /\ start >= Len(bits) /\ u \in Seq({0, 1}) /\ Len(u) = start
  <2>1. AlignTo(8, Len(bits)) \in Nat /\ AlignTo(8, Len(bits)) >= Len(bits)
    BY <1>1, AlignToIs
  <2>2. PadTo(bits, AlignTo(8, Len(bits))) \in Seq({0, 1})
        /\ Len(PadTo(bits, AlignTo(8, Len(bits)))) = AlignTo(8, Len(bits))
    BY <1>1, <2>1, PadToIs
  <2> QED
    BY <1>1, <2>1, <2>2 DEF MeasureStart
<1>4. flagged = IF fields[i].optional # "auto" THEN u ELSE Append(u, IF object[i].set THEN 1 ELSE 0)
  BY DEF FlagWritten
<1>5. q = IF fields[i].optional = "auto" THEN start + 1 ELSE start
  BY DEF FlagEnd
<1> HIDE DEF u, start, flagged, q
<1>6. flagged \in Seq({0, 1}) /\ Len(flagged) = q /\ q \in Nat
  BY <1>3, <1>4, <1>5
<1>7. ValueStart(i, q) \in Nat /\ ValueStart(i, q) >= q /\ CanSkip(i, q)
      /\ StreamStart(i, q) = ValueStart(i, q)
  BY <1>1, <1>2, <1>6, StartsAgree
<1>8. s \in Seq({0, 1}) /\ Len(s) = ValueStart(i, q)
  <2>1. s = PadTo(flagged, ValueStart(i, q))
    BY <1>6, <1>7 DEF AlignedToValue
  <2> HIDE DEF s
  <2> QED
    BY <1>6, <1>7, <2>1, PadToIs
<1> HIDE DEF s
<1>9. ValueWritten(i) \in Seq({0, 1}) /\ Len(ValueWritten(i)) = ValueBits(i, t) /\ ValueBits(i, t) \in Nat
  <2>1. CaseBits(i, t) \in Nat /\ TagBits(i) \in Nat /\ ValueBits(i, t) = TagBits(i) + CaseBits(i, t)
    BY <1>1, CaseBitsIs
  <2>2. t - 1 \in Int /\ object[i].value \in Int
    BY <1>1
  <2> DEFINE w == BitsOf(t - 1, TagBits(i))
             x == BitsOf(object[i].value, CaseBits(i, t))
  <2>3. w \in Seq({0, 1}) /\ Len(w) = TagBits(i) /\ x \in Seq({0, 1}) /\ Len(x) = CaseBits(i, t)
    BY <2>1, <2>2, BitsOfIs
  <2>4. ValueWritten(i) = w \o x
    BY DEF ValueWritten
  <2> HIDE DEF w, x
  <2>5. w \o x \in Seq({0, 1}) /\ Len(w \o x) = Len(w) + Len(x)
    BY <2>3
  <2> QED
    BY <2>1, <2>3, <2>4, <2>5
<1>10. s \o ValueWritten(i) \in Seq({0, 1})
       /\ Len(s \o ValueWritten(i)) = ValueStart(i, q) + ValueBits(i, t)
  BY <1>8, <1>9
<1> QED
  BY <1>6, <1>7, <1>8, <1>9, <1>10 DEF flagged, s, q

\* What a step of write makes of the bits.
Written(i) ==
  IF ~IsPresent(object, i) THEN bits
  ELSE IF IsSet(object, i) THEN AlignedToValue(i, FlagWritten(i)) \o ValueWritten(i)
  ELSE FlagWritten(i)

LEMMA WrittenAsMeasured ==
  ASSUME PlainSchemas, Types, NEW i \in 1..known
  PROVE  Written(i) \in Seq({0, 1}) /\ Len(Written(i)) = Measured(i, Len(bits))
<1>1. bits \in Seq({0, 1})
  BY DEF Types
<1> QED
  BY <1>1, WrittenIs DEF Written, Measured

LEMMA WriteFieldTypes ==
  ASSUME PlainSchemas, Types, WriteField
  PROVE  Types'
<1> DEFINE i == index + 1
           s == AlignedToValue(i, FlagWritten(i))
<1>1. status = "busy" /\ operation = "write" /\ operation' = operation
      /\ UNCHANGED <<fields, known, object, numExtendedFields, endBitPosition, bitSize, buffer, bitPosition>>
  BY DEF WriteField, Busy
<1>2. i \in 1..known /\ places \in [1..known -> Nat] /\ Len(bits) =< bitSize
  BY <1>1, AtWork DEF Types
<1>3. \/ Continue /\ bits' = Written(i) /\ Len(Written(i)) =< bitSize /\ places' = [places EXCEPT ![i] = Len(s)]
      \/ status' = "thrown" /\ UNCHANGED <<index, bits, places>>
  BY DEF WriteField, Written
<1>4. Written(i) \in Seq({0, 1}) /\ Len(s) \in Nat
  BY <1>2, WrittenAsMeasured, WrittenIs
<1> HIDE DEF i, s
<1>5. bits' \in Seq({0, 1}) /\ Len(bits') =< bitSize' /\ places' \in [1..known' -> Nat]
  BY <1>1, <1>2, <1>3, <1>4 DEF Types
<1>6. (index \in 0..known)' /\ (status = "busy" => index < known)' /\ (status = "done" => index = known)'
      /\ status' \in {"busy", "done", "thrown"}
  <2>1. CASE Continue
    BY <1>1, <2>1, ContinueTypes
  <2>2. CASE status' = "thrown" /\ index' = index
    BY <1>1, <2>2 DEF Types
  <2> QED
    BY <1>3, <2>1, <2>2
<1>7. (fields \in Schemas)' /\ (known \in Versions)' /\ IsObject(object, known)'
      /\ Cardinality(Extended(Len(fields)))' = Cardinality(Extended(Len(fields)))
  BY <1>1, SchemaStays
<1> QED
  BY <1>1, <1>5, <1>6, <1>7 DEF Types

-------------------------------------------------------------------------------
(* What is read.                                                           *)

LEMMA SubBits ==
  ASSUME NEW s \in Seq({0, 1}), NEW a \in Nat, NEW n \in Nat, a + n =< Len(s)
  PROVE  /\ SubSeq(s, a + 1, a + n) \in Seq({0, 1}) /\ Len(SubSeq(s, a + 1, a + n)) = n
         /\ \A k \in 1..n : SubSeq(s, a + 1, a + n)[k] = s[a + k]
OBVIOUS

\* The value of an object's field fits into its bits.
Fits(o, i) == o[i].value < Pow2[CaseBits(i, o[i].tag)]

LEMMA TargetIs ==
  ASSUME fields \in Schemas, NEW n \in 1..Len(fields), NEW target \in Targets(n)
  PROVE  IsObject(target, n) /\ \A i \in 1..n : Fits(target, i)
<1>1. n \in Nat /\ \A i \in 1..n : i \in 1..Len(fields) /\ fields[i].cases \in Seq(Nat)
                                   /\ fields[i].bits \in Nat /\ fields[i].extended \in BOOLEAN
                                   /\ Len(fields[i].cases) \in Nat
  BY FieldTypes
<1>2. \A i \in 1..n : \A t \in 0..Len(fields[i].cases) : CaseBits(i, t) \in Nat
  BY <1>1, CaseBitsIs
<1>3. ASSUME NEW k \in Nat PROVE Pow2[k] \in Nat /\ Pow2[k] >= 1
  <2>1. Pow2[k] \in Nat \ {0}
    BY Pow2Is
  <2> QED
    BY <2>1
<1>4. Reused \subseteq BOOLEAN
  BY CutsAssumption
<1>5. CASE target = Fresh(n)
  <2>1. \A i \in 1..n : target[i] = [present |-> TRUE, set |-> FALSE, value |-> 0, tag |-> 0]
    BY <1>5 DEF Fresh
  <2>2. target \in [1..n -> ObjectType]
    BY <1>5 DEF Fresh, ObjectType
  <2>3. \A i \in 1..n : target[i].tag = 0 /\ target[i].value = 0
    BY <2>1
  <2>4. IsObject(target, n)
    <3>1. ASSUME NEW i \in 1..n PROVE target[i].tag =< Len(fields[i].cases)
      <4>1. Len(fields[i].cases) \in Nat /\ target[i].tag = 0
        BY <1>1, <2>3
      <4> QED
        BY <4>1
    <3> QED
      BY <2>2, <3>1 DEF IsObject
  <2>5. ASSUME NEW i \in 1..n PROVE Fits(target, i)
    <3>1. CaseBits(i, 0) \in Nat
      BY <1>1, <1>2
    <3> QED
      BY <1>3, <2>3, <3>1 DEF Fits
  <2> QED
    BY <2>4, <2>5
<1>6. CASE target \in Used(n)
  <2>1. PICK p \in Reused :
          target = [i \in 1..n |-> [present |-> ~fields[i].extended \/ p,
                                    set |-> fields[i].optional # "no",
                                    value |-> IF CaseBits(i, Len(fields[i].cases)) = 0 THEN 0 ELSE 1,
                                    tag |-> Len(fields[i].cases)]]
    BY <1>6 DEF Used
  <2>2. ASSUME NEW i \in 1..n
        PROVE  target[i] \in ObjectType /\ target[i].tag = Len(fields[i].cases)
               /\ target[i].value = IF CaseBits(i, Len(fields[i].cases)) = 0 THEN 0 ELSE 1
    BY <1>1, <1>4, <2>1 DEF ObjectType
  <2>3. target \in [1..n -> ObjectType]
    BY <2>1, <2>2
  <2>4. IsObject(target, n)
    <3>1. ASSUME NEW i \in 1..n PROVE target[i].tag =< Len(fields[i].cases)
      <4>1. Len(fields[i].cases) \in Nat /\ target[i].tag = Len(fields[i].cases)
        BY <1>1, <2>2
      <4> QED
        BY <4>1
    <3> QED
      BY <2>3, <3>1 DEF IsObject
  <2>5. ASSUME NEW i \in 1..n PROVE Fits(target, i)
    <3> DEFINE c == CaseBits(i, Len(fields[i].cases))
    <3>1. c \in Nat
      BY <1>1, <1>2
    <3> HIDE DEF c
    <3>2. c # 0 => Pow2[c] >= 2
      <4> SUFFICES ASSUME c # 0 PROVE Pow2[c] >= 2
        OBVIOUS
      <4>1. c - 1 \in Nat /\ (c - 1) + 1 = c
        BY <3>1
      <4>2. Pow2[c] = 2 * Pow2[c - 1]
        BY <4>1, Pow2Is
      <4> QED
        BY <1>3, <4>1, <4>2
    <3>3. target[i].value < Pow2[c]
      BY <1>3, <2>2, <3>1, <3>2 DEF c
    <3> QED
      BY <2>2, <3>3 DEF Fits, c
  <2> QED
    BY <2>4, <2>5
<1> QED
  BY <1>5, <1>6 DEF Targets

LEMMA DeserializeTypes ==
  ASSUME Types, NEW n \in Versions, NEW d \in Cuts, NEW r \in BOOLEAN, NEW target \in Targets(n),
         Deserialize(n, target, d, r)
  PROVE  Types'
<1>1. n \in 1..Len(fields) /\ n \in Nat /\ n # 0 /\ fields \in Schemas /\ d \in Nat
  BY VersionsAre, CutsAssumption DEF Types
<1>2. /\ operation' = "read" /\ status' = "busy" /\ index' = 0 /\ known' = n /\ object' = target
      /\ bitPosition' = 0 /\ d =< Len(bits)
      /\ UNCHANGED <<fields, numExtendedFields, endBitPosition, bitSize, bits>>
  BY DEF Deserialize, Begin
<1> DEFINE size == IF r THEN AlignTo(8, bitSize) ELSE bitSize
           whole == PadTo(bits, size)
<1>3. buffer' = SubSeq(whole, 1, Len(whole) - d)
  BY DEF Deserialize
<1>4. size \in Nat /\ bits \in Seq({0, 1})
  BY AlignToIs DEF Types
<1> HIDE DEF size
<1>5. whole \in Seq({0, 1}) /\ Len(whole) >= Len(bits)
  BY <1>4, PadToIs
<1> HIDE DEF whole
<1>6. buffer' \in Seq({0, 1}) /\ Len(buffer') \in Nat
  BY <1>1, <1>2, <1>3, <1>4, <1>5
<1>7. IsObject(target, n)
  BY <1>1, TargetIs
<1>8. IsObject(object, known)'
  BY <1>2, <1>7 DEF IsObject
<1>9. (known \in Versions)' /\ Extended(Len(fields))' = Extended(Len(fields))
  BY <1>2 DEF Versions, Extended
<1> QED
  BY <1>1, <1>2, <1>6, <1>8, <1>9 DEF Types

LEMMA ObjectExcept ==
  ASSUME NEW x \in ObjectType, NEW t \in Nat, NEW v \in Nat
  PROVE  /\ x.present \in BOOLEAN /\ x.set \in BOOLEAN /\ x.value \in Nat /\ x.tag \in Nat
         /\ [present |-> FALSE, set |-> x.set, value |-> x.value, tag |-> x.tag] \in ObjectType
         /\ [present |-> x.present, set |-> FALSE, value |-> 0, tag |-> 0] \in ObjectType
         /\ [present |-> x.present, set |-> TRUE, value |-> 0, tag |-> 0] \in ObjectType
         /\ [present |-> x.present, set |-> x.set, value |-> v, tag |-> t] \in ObjectType
BY DEF ObjectType

LEMMA AbsentAndResetAre ==
  ASSUME Types, NEW i \in 1..known
  PROVE  LET x == object[i]
         IN  /\ Absent(i) = [present |-> FALSE, set |-> x.set, value |-> x.value, tag |-> x.tag]
             /\ Reset(i) = [present |-> x.present, set |-> FALSE, value |-> 0, tag |-> 0]
             /\ Absent(i) \in ObjectType /\ Reset(i) \in ObjectType
<1> DEFINE x == object[i]
<1>1. Absent(i) = [x EXCEPT !.present = FALSE]
      /\ Reset(i) = [x EXCEPT !.set = FALSE, !.value = 0, !.tag = 0]
  BY DEF Absent, Reset
<1> HIDE DEF x
<1>2. x \in [present : BOOLEAN, set : BOOLEAN, value : Nat, tag : Nat]
  BY FieldIs DEF ObjectType, x
<1>3. Absent(i) = [present |-> FALSE, set |-> x.set, value |-> x.value, tag |-> x.tag]
  BY <1>1, <1>2
<1>4. Reset(i) = [present |-> x.present, set |-> FALSE, value |-> 0, tag |-> 0]
  BY <1>1, <1>2
<1>5. x \in ObjectType
  BY <1>2 DEF ObjectType
<1>6. Absent(i) \in ObjectType /\ Reset(i) \in ObjectType
  BY <1>3, <1>4, <1>5, ObjectExcept
<1> QED
  BY <1>3, <1>4, <1>6 DEF x

LEMMA EmplacedIs ==
  ASSUME Types, NEW i \in 1..known
  PROVE  Emplaced(i) \in ObjectType /\ Emplaced(i).tag =< Len(fields[i].cases)
         /\ Emplaced(i).present = object[i].present
         /\ IF fields[i].optional = "no" THEN Emplaced(i) = object[i]
            ELSE Emplaced(i).set = TRUE /\ Emplaced(i).value = 0 /\ Emplaced(i).tag = 0
<1>1. object[i] \in ObjectType /\ object[i].tag =< Len(fields[i].cases) /\ Len(fields[i].cases) \in Nat
  BY FieldIs
<1>2. CASE fields[i].optional = "no"
  BY <1>1, <1>2 DEF Emplaced
<1>3. CASE fields[i].optional # "no"
  <2> DEFINE x == object[i]
  <2>1. Emplaced(i) = [x EXCEPT !.set = TRUE, !.value = 0, !.tag = 0]
    BY <1>3 DEF Emplaced
  <2> HIDE DEF x
  <2>2. x \in [present : BOOLEAN, set : BOOLEAN, value : Nat, tag : Nat]
    BY <1>1 DEF ObjectType, x
  <2>3. Emplaced(i) = [present |-> x.present, set |-> TRUE, value |-> 0, tag |-> 0]
    BY <2>1, <2>2
  <2>4. x.present \in BOOLEAN
    BY <2>2
  <2> QED
    BY <1>1, <1>3, <2>3, <2>4 DEF x, ObjectType
<1> QED
  BY <1>2, <1>3

\* What can be read is of the type of the field and fits into its bits.
LEMMA FilledIs ==
  ASSUME Types, NEW i \in 1..known, NEW p \in Nat, ~Unreadable(i, p)
  PROVE  LET t == ReadTag(i, p)
             start == p + TagBits(i)
             v == NumOfBits(SubSeq(buffer, start + 1, start + CaseBits(i, t)))
         IN  /\ Filled(i, p) \in ObjectType /\ Filled(i, p).tag =< Len(fields[i].cases)
             /\ t \in 0..Len(fields[i].cases) /\ CaseBits(i, t) \in Nat /\ TagBits(i) \in {0, 8}
             /\ start + CaseBits(i, t) =< Len(buffer)
             /\ ValueBits(i, t) = TagBits(i) + CaseBits(i, t)
             /\ v \in Nat /\ v < Pow2[CaseBits(i, t)]
             /\ Filled(i, p).present = object[i].present
             /\ IF EmptyCase(i) THEN Filled(i, p) = Emplaced(i)
                ELSE /\ Filled(i, p).tag = t /\ Filled(i, p).value = v
                     /\ Filled(i, p).set = Emplaced(i).set
<1> DEFINE t == ReadTag(i, p)
           start == p + TagBits(i)
           b == SubSeq(buffer, start + 1, start + CaseBits(i, t))
           v == NumOfBits(b)
<1>1. i \in 1..Len(fields) /\ fields \in Schemas /\ Len(fields[i].cases) \in Nat
  BY AtWork, FieldTypes
<1>2. t \in 0..Len(fields[i].cases) /\ ~(p + ValueBits(i, t) > Len(buffer))
  BY DEF Unreadable
<1> HIDE DEF t
<1>3. CaseBits(i, t) \in Nat /\ TagBits(i) \in {0, 8} /\ ValueBits(i, t) = TagBits(i) + CaseBits(i, t)
  BY <1>1, <1>2, CaseBitsIs
<1>4. start \in Nat /\ start + CaseBits(i, t) =< Len(buffer) /\ buffer \in Seq({0, 1})
  BY <1>2, <1>3 DEF Types
<1>5. b \in Seq({0, 1}) /\ Len(b) = CaseBits(i, t)
  <2> HIDE DEF start
  <2> QED
    BY <1>3, <1>4, SubBits
<1>6. v \in Nat /\ v < Pow2[CaseBits(i, t)]
  <2> HIDE DEF b
  <2> QED
    BY <1>5, NumFits
<1>7. Filled(i, p) = IF EmptyCase(i) THEN Emplaced(i) ELSE [Emplaced(i) EXCEPT !.tag = t, !.value = v]
  BY DEF Filled, t
<1> HIDE DEF v
<1>8. Emplaced(i) \in ObjectType /\ Emplaced(i).tag =< Len(fields[i].cases)
      /\ Emplaced(i).present = object[i].present
  BY EmplacedIs
<1>9. Filled(i, p) \in ObjectType /\ Filled(i, p).tag =< Len(fields[i].cases)
      /\ Filled(i, p).present = object[i].present
      /\ IF EmptyCase(i) THEN Filled(i, p) = Emplaced(i)
         ELSE /\ Filled(i, p).tag = t /\ Filled(i, p).value = v
              /\ Filled(i, p).set = Emplaced(i).set
  <2> DEFINE x == Emplaced(i)
  <2>1. CASE EmptyCase(i)
    BY <1>7, <1>8, <2>1
  <2>2. CASE ~EmptyCase(i)
    <3>1. Filled(i, p) = [x EXCEPT !.tag = t, !.value = v]
      BY <1>7, <2>2
    <3> HIDE DEF x
    <3>2. x \in [present : BOOLEAN, set : BOOLEAN, value : Nat, tag : Nat]
      BY <1>8 DEF ObjectType, x
    <3>3. Filled(i, p) = [present |-> x.present, set |-> x.set, value |-> v, tag |-> t]
      BY <3>1, <3>2
    <3>4. x.present \in BOOLEAN /\ x.set \in BOOLEAN /\ t \in Nat
      BY <1>1, <1>2, <3>2
    <3> QED
      BY <1>1, <1>2, <1>6, <1>8, <2>2, <3>3, <3>4 DEF x, ObjectType
  <2> QED
    BY <2>1, <2>2
<1> QED
  BY <1>2, <1>3, <1>4, <1>6, <1>9 DEF t, v

\* The reader looks for a field where it was measured to be.
LEMMA ReadStartIs ==
  ASSUME PlainSchemas, Types, NEW i \in 1..known
  PROVE  LET q == FlagEnd(i, ReadStart(i))
         IN  /\ ReadStart(i) = MeasureStart(i, bitPosition)
             /\ ReadStart(i) \in Nat /\ ReadStart(i) >= bitPosition
             /\ q \in Nat /\ q >= ReadStart(i)
             /\ StreamStart(i, q) = ValueStart(i, q) /\ StreamStart(i, q) \in Nat /\ StreamStart(i, q) >= q
             /\ CanSkip(i, q)
<1>1. i \in 1..Len(fields) /\ fields \in Schemas
  BY FieldIs
<1>2. fields[i].alignment =< 64
  BY <1>1 DEF PlainSchemas, Plain
<1>3. bitPosition \in Nat
  BY DEF Types
<1>4. ReadStart(i) = MeasureStart(i, bitPosition)
  BY DEF ReadStart, MeasureStart
<1> DEFINE a == ReadStart(i)
           q == FlagEnd(i, a)
<1>5. a \in Nat /\ a >= bitPosition
  BY <1>1, <1>3, <1>4, StartsAgree
<1> HIDE DEF a
<1>6. q \in Nat /\ q >= a
  BY <1>1, <1>5, StartsAgree
<1> HIDE DEF q
<1>7. StreamStart(i, q) = ValueStart(i, q) /\ StreamStart(i, q) \in Nat /\ StreamStart(i, q) >= q
      /\ CanSkip(i, q)
  BY <1>1, <1>2, <1>6, StartsAgree
<1> QED
  BY <1>4, <1>5, <1>6, <1>7 DEF a, q

\* What a step of read does, by what it meets.
ReadNothing(i) ==
  /\ fields[i].extended /\ ~HasMore(bitPosition)
  /\ object' = [object EXCEPT ![i] = Absent(i)] /\ bitPosition' = bitPosition /\ Continue

ReadUnset(i) ==
  /\ fields[i].extended => HasMore(bitPosition)
  /\ FlagEnd(i, ReadStart(i)) =< Len(buffer) /\ ~WillRead(i)
  /\ object' = [object EXCEPT ![i] = Reset(i)]
  /\ bitPosition' = FlagEnd(i, ReadStart(i)) /\ Continue

ReadValue(i) ==
  LET p == StreamStart(i, FlagEnd(i, ReadStart(i)))
  IN  /\ fields[i].extended => HasMore(bitPosition)
      /\ FlagEnd(i, ReadStart(i)) =< Len(buffer) /\ WillRead(i)
      /\ ~Unreadable(i, p)
      /\ object' = [object EXCEPT ![i] = Filled(i, p)]
      /\ bitPosition' = p + ValueBits(i, ReadTag(i, p))
      /\ (~Refused(i, p) /\ Continue) \/ (Refused(i, p) /\ status' = "thrown" /\ UNCHANGED index)

ReadFails(i) ==
  LET q == FlagEnd(i, ReadStart(i))
      p == StreamStart(i, q)
  IN  /\ fields[i].extended => HasMore(bitPosition)
      /\ status' = "thrown" /\ UNCHANGED <<index, bitPosition>>
      /\ \/ q > Len(buffer) /\ UNCHANGED object
         \/ /\ q =< Len(buffer) /\ WillRead(i) /\ Unreadable(i, p)
            /\ \E left \in Unfilled(i, p) : object' = [object EXCEPT ![i] = left]

LEMMA ReadFieldIs ==
  ASSUME PlainSchemas, Types, ReadField
  PROVE  LET i == index + 1
         IN  /\ i \in 1..known /\ status = "busy" /\ operation = "read" /\ operation' = operation
             /\ UNCHANGED <<fields, known, numExtendedFields, endBitPosition, bitSize, bits, places,
                            buffer, sent>>
             /\ ReadNothing(i) \/ ReadUnset(i) \/ ReadValue(i) \/ ReadFails(i)
<1> DEFINE i == index + 1
           q == FlagEnd(i, ReadStart(i))
           p == StreamStart(i, q)
<1>1. status = "busy" /\ operation = "read" /\ operation' = operation
      /\ UNCHANGED <<fields, known, numExtendedFields, endBitPosition, bitSize, bits, places, buffer, sent>>
  BY DEF ReadField, Busy
<1>2. i \in 1..known
  BY <1>1, AtWork
<1>3. CanSkip(i, q) /\ q \in Nat
  BY <1>2, ReadStartIs
<1>4. Len(buffer) \in Nat
  BY DEF Types
<1>5. \/ /\ fields[i].extended /\ ~HasMore(bitPosition)
         /\ object' = [object EXCEPT ![i] = Absent(i)]
         /\ Continue
         /\ UNCHANGED bitPosition
      \/ /\ fields[i].extended => HasMore(bitPosition)
         /\ IF q > Len(buffer)
            THEN status' = "thrown" /\ UNCHANGED <<index, object, bitPosition>>
            ELSE IF ~WillRead(i)
            THEN object' = [object EXCEPT ![i] = Reset(i)] /\ bitPosition' = q /\ Continue
            ELSE IF ~CanSkip(i, q) \/ Unreadable(i, p)
            THEN /\ \E left \in Unfilled(i, p) : object' = [object EXCEPT ![i] = left]
                 /\ status' = "thrown"
                 /\ UNCHANGED <<index, bitPosition>>
            ELSE /\ object' = [object EXCEPT ![i] = Filled(i, p)]
                 /\ bitPosition' = p + ValueBits(i, ReadTag(i, p))
                 /\ \/ ~Refused(i, p) /\ Continue
                    \/ Refused(i, p) /\ status' = "thrown" /\ UNCHANGED index
  BY DEF ReadField
<1>6. CASE fields[i].extended /\ ~HasMore(bitPosition) /\ object' = [object EXCEPT ![i] = Absent(i)]
           /\ Continue /\ UNCHANGED bitPosition
  <2>1. ReadNothing(i)
    BY <1>6 DEF ReadNothing
  <2> QED
    BY <1>1, <1>2, <2>1
<1>7. CASE (fields[i].extended => HasMore(bitPosition)) /\ q > Len(buffer)
           /\ status' = "thrown" /\ UNCHANGED <<index, object, bitPosition>>
  <2>1. ReadFails(i)
    BY <1>7 DEF ReadFails
  <2> QED
    BY <1>1, <1>2, <2>1
<1>8. CASE (fields[i].extended => HasMore(bitPosition)) /\ q =< Len(buffer) /\ ~WillRead(i)
           /\ object' = [object EXCEPT ![i] = Reset(i)] /\ bitPosition' = q /\ Continue
  <2>1. ReadUnset(i)
    BY <1>8 DEF ReadUnset
  <2> QED
    BY <1>1, <1>2, <2>1
<1>9. CASE (fields[i].extended => HasMore(bitPosition)) /\ q =< Len(buffer) /\ WillRead(i) /\ Unreadable(i, p)
           /\ (\E left \in Unfilled(i, p) : object' = [object EXCEPT ![i] = left])
           /\ status' = "thrown" /\ UNCHANGED <<index, bitPosition>>
  <2>1. ReadFails(i)
    BY <1>9 DEF ReadFails
  <2> QED
    BY <1>1, <1>2, <2>1
<1>10. CASE (fields[i].extended => HasMore(bitPosition)) /\ q =< Len(buffer) /\ WillRead(i)
            /\ ~Unreadable(i, p) /\ object' = [object EXCEPT ![i] = Filled(i, p)]
            /\ bitPosition' = p + ValueBits(i, ReadTag(i, p))
            /\ ((~Refused(i, p) /\ Continue) \/ (Refused(i, p) /\ status' = "thrown" /\ UNCHANGED index))
  <2>1. ReadValue(i)
    BY <1>10 DEF ReadValue
  <2> QED
    BY <1>1, <1>2, <2>1
<1> HIDE DEF i, q, p
<1> QED
  BY <1>3, <1>4, <1>5, <1>6, <1>7, <1>8, <1>9, <1>10

LEMMA ReadFieldTypes ==
  ASSUME PlainSchemas, Types, ReadField
  PROVE  Types'
<1> DEFINE i == index + 1
           q == FlagEnd(i, ReadStart(i))
           p == StreamStart(i, q)
<1>1. /\ i \in 1..known /\ status = "busy" /\ operation = "read" /\ operation' = operation
      /\ UNCHANGED <<fields, known, numExtendedFields, endBitPosition, bitSize, bits, places, buffer, sent>>
      /\ ReadNothing(i) \/ ReadUnset(i) \/ ReadValue(i) \/ ReadFails(i)
  BY ReadFieldIs
<1>2. q \in Nat /\ p \in Nat
  BY <1>1, ReadStartIs
<1>3. object \in [1..known -> ObjectType] /\ (\A k \in 1..known : object[k].tag =< Len(fields[k].cases))
      /\ buffer \in Seq({0, 1}) /\ Len(buffer) \in Nat /\ bitPosition \in 0..Len(buffer)
      /\ object[i] \in ObjectType /\ object[i].tag =< Len(fields[i].cases) /\ Len(fields[i].cases) \in Nat
  BY <1>1, FieldIs DEF Types, IsObject
<1> DEFINE fine(x) == x \in ObjectType /\ x.tag =< Len(fields[i].cases)
<1>4. \A x : fine(x) /\ object' = [object EXCEPT ![i] = x] => IsObject(object, known)'
  BY <1>1, <1>3 DEF IsObject
<1> HIDE DEF i
<1>5. fine(Absent(i)) /\ fine(Reset(i))
  BY <1>1, <1>3, AbsentAndResetAre
<1>6. ~Unreadable(i, p) => fine(Filled(i, p)) /\ p + ValueBits(i, ReadTag(i, p)) \in 0..Len(buffer)
  <2> SUFFICES ASSUME ~Unreadable(i, p)
               PROVE  fine(Filled(i, p)) /\ p + ValueBits(i, ReadTag(i, p)) \in 0..Len(buffer)
    OBVIOUS
  <2> HIDE DEF p
  <2> DEFINE c == CaseBits(i, ReadTag(i, p))
             g == TagBits(i)
  <2>1. fine(Filled(i, p)) /\ c \in Nat /\ g \in {0, 8} /\ p + g + c =< Len(buffer)
        /\ ValueBits(i, ReadTag(i, p)) = g + c
    BY <1>1, <1>2, FilledIs
  <2> HIDE DEF fine, c, g
  <2> QED
    BY <1>2, <1>3, <2>1
<1>7. \A left \in Unfilled(i, p) : fine(left)
  <2>1. fine(Emplaced(i))
    BY <1>1, EmplacedIs
  <2>2. ASSUME NEW t \in 1..Len(fields[i].cases) PROVE fine([Emplaced(i) EXCEPT !.tag = t, !.value = 0])
    <3> DEFINE x == Emplaced(i)
    <3>1. x \in ObjectType /\ t \in Nat /\ t =< Len(fields[i].cases)
      BY <1>3, <2>1
    <3> HIDE DEF x
    <3>2. PICK y : y = [x EXCEPT !.tag = t, !.value = 0]
      OBVIOUS
    <3>3. y = [present |-> x.present, set |-> x.set, value |-> 0, tag |-> t]
      BY <3>1, <3>2 DEF ObjectType
    <3>4. y \in ObjectType /\ y.tag = t
      BY <3>1, <3>3, ObjectExcept
    <3> QED
      BY <3>1, <3>2, <3>4 DEF x
  <2> HIDE DEF fine, p
  <2> QED
    BY <2>1, <2>2 DEF Unfilled
<1> HIDE DEF fine
<1>8. IsObject(object, known)' /\ bitPosition' \in 0..Len(buffer)
      /\ (Continue \/ (status' = "thrown" /\ index' = index))
  <2>1. CASE ReadNothing(i)
    BY <1>3, <1>4, <1>5, <2>1 DEF ReadNothing
  <2>2. CASE ReadUnset(i)
    <3>1. object' = [object EXCEPT ![i] = Reset(i)] /\ bitPosition' = q /\ Continue /\ q =< Len(buffer)
      BY <2>2 DEF ReadUnset
    <3> HIDE DEF q
    <3>2. IsObject(object, known)'
      BY <1>4, <1>5, <3>1
    <3>3. bitPosition' \in 0..Len(buffer)
      BY <1>2, <1>3, <3>1
    <3> QED
      BY <3>1, <3>2, <3>3
  <2>3. CASE ReadValue(i)
    <3>1. ~Unreadable(i, p) /\ object' = [object EXCEPT ![i] = Filled(i, p)]
          /\ bitPosition' = p + ValueBits(i, ReadTag(i, p))
          /\ (Continue \/ (status' = "thrown" /\ index' = index))
      BY <2>3 DEF ReadValue
    <3> HIDE DEF p
    <3>2. IsObject(object, known)'
      <4>1. fine(Filled(i, p))
        BY <1>6, <3>1
      <4> QED
        BY <1>4, <3>1, <4>1
    <3>3. bitPosition' \in 0..Len(buffer)
      BY <1>6, <3>1
    <3> QED
      BY <3>1, <3>2, <3>3
  <2>4. CASE ReadFails(i)
    <3>1. status' = "thrown" /\ index' = index /\ bitPosition' = bitPosition
          /\ (object' = object \/ \E left \in Unfilled(i, p) : object' = [object EXCEPT ![i] = left])
      BY <2>4 DEF ReadFails
    <3>2. object' = object => IsObject(object, known)'
      BY <1>1, SchemaStays
    <3> QED
      BY <1>3, <1>4, <1>7, <3>1, <3>2
  <2> QED
    BY <1>1, <2>1, <2>2, <2>3, <2>4
<1>9. (index \in 0..known)' /\ (status = "busy" => index < known)' /\ (status = "done" => index = known)'
      /\ status' \in {"busy", "done", "thrown"}
  <2>1. CASE Continue
    BY <1>1, <2>1, ContinueTypes
  <2>2. CASE status' = "thrown" /\ index' = index
    BY <1>1, <2>2 DEF Types
  <2> QED
    BY <1>8, <2>1, <2>2
<1>10. (fields \in Schemas)' /\ (known \in Versions)'
       /\ Cardinality(Extended(Len(fields)))' = Cardinality(Extended(Len(fields)))
  BY <1>1, SchemaStays
<1> QED
  BY <1>1, <1>8, <1>9, <1>10 DEF Types

LEMMA TypesNext ==
  ASSUME PlainSchemas, Types, [Next]_vars
  PROVE  Types'
<1>1. CASE ValidateField
  BY <1>1, ValidateFieldTypes
<1>2. CASE InitializeOffsets
  <2> QED
    BY <1>2, BeginTypes DEF InitializeOffsets
<1>3. CASE MeasureField
  BY <1>3, MeasureFieldTypes
<1>4. CASE Write
  BY <1>4, BeginTypes DEF Write
<1>5. CASE WriteField
  BY <1>5, WriteFieldTypes
<1>6. CASE \E n \in Versions, d \in Cuts, r \in BOOLEAN :
             \E target \in Targets(n) : Deserialize(n, target, d, r)
  BY <1>6, DeserializeTypes
<1>7. CASE ReadField
  BY <1>7, ReadFieldTypes
<1>8. CASE SerializeView
  BY <1>8, BeginTypes DEF SerializeView
<1>9. CASE SerializeDataView
  BY <1>9, BeginTypes DEF SerializeDataView
<1>10. CASE UNCHANGED vars
  <2>1. (IsObject(object, known) => IsObject(object, known)') /\ Versions' = Versions
        /\ Extended(Len(fields))' = Extended(Len(fields)) /\ Preceding(index)' = Preceding(index)
    BY <1>10 DEF vars, IsObject, Versions, Extended, Preceding
  <2> QED
    BY <1>10, <2>1 DEF vars, Types
<1> QED
  BY <1>1, <1>2, <1>3, <1>4, <1>5, <1>6, <1>7, <1>8, <1>9, <1>10 DEF Next

\* TypeOK for every schema: whatever is sent, cut and read, positions stay in their buffers, values
\* are numbers and tags are those of cases.
THEOREM StructureTypes ==
  ASSUME PlainSchemas
  PROVE  Spec => []TypeOK
<1>1. Types => TypeOK
  <2> SUFFICES ASSUME Types PROVE TypeOK
    OBVIOUS
  <2>1. ASSUME NEW i \in 1..known
        PROVE  {object[i].present, object[i].set} \subseteq BOOLEAN /\ object[i].value \in Nat
               /\ object[i].tag \in 0..Len(fields[i].cases)
    BY FieldIs
  <2> QED
    BY <2>1 DEF Types, TypeOK
<1> QED
  BY <1>1, TypesInit, TypesNext, PTL DEF Spec

-------------------------------------------------------------------------------
(* The layout of an object: where its fields end.                          *)

\* Where field i of the object o ends that starts behind p.
End(o, i, p) ==
  IF ~IsPresent(o, i) THEN p
  ELSE LET q == FlagEnd(i, MeasureStart(i, p))
       IN  IF IsSet(o, i) THEN ValueStart(i, q) + ValueBits(i, o[i].tag) ELSE q

\* The ends of the first n fields of o, and 0.
AreEnds(e, o, n) ==
  e \in [0..n -> Nat] /\ e[0] = 0 /\ \A i \in 1..n : e[i] = End(o, i, e[i - 1])

Ends(o, n) == CHOOSE e : AreEnds(e, o, n)

LEMMA EndIs ==
  ASSUME fields \in Schemas, NEW n \in 1..Len(fields), NEW o, IsObject(o, n), NEW i \in 1..n, NEW p \in Nat
  PROVE  End(o, i, p) \in Nat /\ p =< End(o, i, p)
<1>1. i \in 1..Len(fields) /\ o[i].tag \in 0..Len(fields[i].cases)
  BY FieldTypes DEF IsObject, ObjectType
<1> DEFINE a == MeasureStart(i, p)
           b == FlagEnd(i, a)
           c == ValueStart(i, b)
           v == ValueBits(i, o[i].tag)
<1>2. v \in Nat
  BY <1>1, CaseBitsIs
<1>3. a \in Nat /\ p =< a
  BY <1>1, StartsAgree
<1> HIDE DEF a
<1>4. b \in Nat /\ a =< b
  BY <1>1, <1>3, StartsAgree
<1> HIDE DEF b
<1>5. c \in Nat /\ b =< c
  BY <1>1, <1>4, StartsAgree
<1>6. End(o, i, p) = IF ~IsPresent(o, i) THEN p ELSE IF IsSet(o, i) THEN c + v ELSE b
  BY DEF End, a, b
<1> HIDE DEF c, v
<1> QED
  BY <1>2, <1>3, <1>4, <1>5, <1>6

LEMMA EndsAre ==
  ASSUME fields \in Schemas, NEW n \in 1..Len(fields), NEW o, IsObject(o, n)
  PROVE  /\ AreEnds(Ends(o, n), o, n)
         /\ \A k \in 0..n : Ends(o, n)[k] \in Nat /\ \A j \in 0..k : Ends(o, n)[j] =< Ends(o, n)[k]
<1>1. n \in Nat
  BY FieldTypes
<1> DEFINE past == [i \in 1..n |-> [p \in Nat |-> End(o, i, p)]]
<1>2. \A i \in 1..n : \A p \in Nat : End(o, i, p) \in Nat /\ p =< End(o, i, p)
  BY EndIs
<1>3. past \in [1..n -> [Nat -> Nat]] /\ \A i \in 1..n : \A p \in Nat : past[i][p] = End(o, i, p)
  BY <1>2
<1> HIDE DEF past
<1>4. PICK f : Array!Recursive(f, Nat, 0, past, n)
  <2>1. 0 \in Nat
    OBVIOUS
  <2> QED
    BY <1>1, <1>3, <2>1, Array!FiniteRecursion
<1>5. AreEnds(f, o, n)
  <2>1. \A i \in 1..n : i - 1 \in 0..n
    BY <1>1
  <2> QED
    BY <1>3, <1>4, <2>1 DEF Array!Recursive, AreEnds
<1> DEFINE e == Ends(o, n)
<1>6. AreEnds(e, o, n)
  BY <1>5 DEF Ends
<1> HIDE DEF e
<1> DEFINE T == {k \in Nat : k =< n => \A j \in 0..k : e[j] =< e[k]}
<1>7. 0 \in T
  BY <1>6 DEF AreEnds
<1>8. \A k \in T : k + 1 \in T
  <2>1. ASSUME NEW k \in T, k + 1 =< n, NEW j \in 0..(k + 1) PROVE e[j] =< e[k + 1]
    <3>1. k + 1 \in 1..n /\ (k + 1) - 1 = k /\ k \in 0..n /\ j \in 0..n
      BY <1>1, <2>1
    <3>2. e[k + 1] = End(o, k + 1, e[k]) /\ e[k] \in Nat /\ e[j] \in Nat
      BY <1>6, <3>1 DEF AreEnds
    <3>3. End(o, k + 1, e[k]) \in Nat /\ e[k] =< End(o, k + 1, e[k])
      BY <1>2, <3>1, <3>2
    <3>4. CASE j = k + 1
      BY <3>2, <3>3, <3>4
    <3>5. CASE j # k + 1
      <4>1. j \in 0..k /\ k =< n
        BY <3>1, <3>5
      <4>2. e[j] =< e[k]
        BY <2>1, <4>1
      <4> QED
        BY <3>2, <3>3, <4>2
    <3> QED
      BY <3>4, <3>5
  <2> QED
    BY <2>1
<1> HIDE DEF T
<1>9. T = Nat
  <2>1. T \subseteq Nat
    BY DEF T
  <2> QED
    BY <2>1, <1>7, <1>8, Array!SetInduction
<1>10. ASSUME NEW k \in 0..n PROVE e[k] \in Nat /\ \A j \in 0..k : e[j] =< e[k]
  <2>1. k \in Nat /\ k =< n
    BY <1>1
  <2>2. k \in T
    BY <1>9, <2>1
  <2> QED
    BY <1>6, <2>1, <2>2 DEF T, AreEnds
<1> QED
  BY <1>6, <1>10 DEF e

\* Objects whose first fields take the same bits have the same ends of these.
LEMMA EndsAgree ==
  ASSUME fields \in Schemas, NEW n \in 1..Len(fields), NEW o, IsObject(o, n),
         NEW m \in 1..Len(fields), NEW w, IsObject(w, m),
         NEW k \in 0..n, k =< m, \A i \in 1..k : \A p \in Nat : End(o, i, p) = End(w, i, p)
  PROVE  \A i \in 0..k : Ends(o, n)[i] = Ends(w, m)[i]
<1>1. n \in Nat /\ m \in Nat /\ k \in Nat
  BY FieldTypes
<1>2. AreEnds(Ends(o, n), o, n) /\ AreEnds(Ends(w, m), w, m)
  BY EndsAre
<1> DEFINE e == Ends(o, n)
           g == Ends(w, m)
           T == {i \in Nat : i =< k => e[i] = g[i]}
<1> HIDE DEF e, g
<1>3. 0 \in T
  BY <1>2 DEF AreEnds, e, g
<1>4. \A i \in T : i + 1 \in T
  <2>1. ASSUME NEW i \in T, i + 1 =< k PROVE e[i + 1] = g[i + 1]
    <3>1. i + 1 \in 1..n /\ i + 1 \in 1..m /\ i + 1 \in 1..k /\ (i + 1) - 1 = i /\ i \in 0..n /\ i =< k
      BY <1>1, <2>1
    <3>2. e[i + 1] = End(o, i + 1, e[i]) /\ g[i + 1] = End(w, i + 1, g[i]) /\ e[i] \in Nat
      BY <1>2, <3>1 DEF AreEnds, e, g
    <3>3. e[i] = g[i]
      BY <3>1
    <3> QED
      BY <3>1, <3>2, <3>3
  <2> QED
    BY <2>1
<1> HIDE DEF T
<1>5. T = Nat
  <2>1. T \subseteq Nat
    BY DEF T
  <2> QED
    BY <2>1, <1>3, <1>4, Array!SetInduction
<1> QED
  BY <1>1, <1>5 DEF T, e, g

\* What is said of an object does not change with the state, for the schema does not.
LEMMA FieldsStay ==
  ASSUME fields' = fields
  PROVE  /\ \A o, i, p : End(o, i, p)' = End(o, i, p)
         /\ \A o, n : Ends(o, n)' = Ends(o, n)
<1>1. \A o, i, p : End(o, i, p)' = End(o, i, p)
  BY DEF End, IsPresent, IsSet, FlagEnd, MeasureStart, ValueStart, ValueBits, TagBits, CaseBits
<1>2. \A e, o, n : AreEnds(e, o, n)' <=> AreEnds(e, o, n)
  BY <1>1 DEF AreEnds
<1>3. \A o, n : Ends(o, n)' = Ends(o, n)
  BY <1>2 DEF Ends
<1> QED
  BY <1>1, <1>3

-------------------------------------------------------------------------------
(* What validate accepts and what read leaves is what write takes.         *)

\* The selector asks for the empty case, in which read leaves what was there.
Empty(o, i) ==
  fields[i].kind = "choice" /\ fields[i].optional = "no" /\ Selected(o, i) = 0

RightCase(o, i) ==
  /\ fields[i].kind = "choice" => o[i].tag = Selected(o, i)
  /\ fields[i].kind = "union" => o[i].tag # 0

InRange(o, i) == HasValue(o, i) => Fits(o, i)

\* Field i of o is as validate wants it to be; its value may be any if it is exempt, and there
\* may be something left in an empty choice.
Good(o, i, exempt, left) ==
  IsPresent(o, i) =>
    /\ fields[i].optional = "clause" => (o[i].set <=> IsUsed(o, i))
    /\ IsSet(o, i) =>
         /\ exempt \/ InRange(o, i)
         /\ (left /\ Empty(o, i)) \/ (RightCase(o, i) /\ (exempt \/ ~Violated(o, i)))

\* Fields that were validated or read are good; offsets are set after that.
GoodFields ==
  LET left == sent # Nothing
  IN  /\ operation \in {"validate", "read"} => \A i \in 1..index : Good(object, i, FALSE, left)
      /\ operation = "validate" /\ left => \A i \in 1..known : Good(object, i, FALSE, left)
      /\ operation \in {"initializeOffsets", "bitSizeOf", "write"}
         => \A i \in 1..known : Good(object, i, IsOffset(i, known), left)
      /\ operation = "read" /\ status = "busy"
         => \A i \in 1..known : i > index => Fits(object, i)
      /\ operation = "read" => left

\* The three walks over the fields are at the same places.
Layout ==
  LET e == Ends(object, known)
  IN  /\ operation \in {"initializeOffsets", "bitSizeOf"} =>
           /\ endBitPosition = e[index]
           /\ status = "done" => bitSize = e[known]
      /\ operation = "write" =>
           /\ bitSize = e[known] /\ Len(bits) = e[index]
           /\ \A i \in 1..index : places[i] = ValueStart(i, FlagEnd(i, MeasureStart(i, e[i - 1])))
           /\ status = "thrown" => \E i \in 1..known : IsOffset(i, known) /\ OutOfRange(i)

LEMMA GoodInit ==
  ASSUME Init
  PROVE  GoodFields
BY DEF Init, GoodFields

LEMMA PredicatesStay ==
  ASSUME fields' = fields
  PROVE  \A o, i : /\ IsPresent(o, i)' <=> IsPresent(o, i)
                   /\ IsSet(o, i)' <=> IsSet(o, i)
                   /\ IsUsed(o, i)' <=> IsUsed(o, i)
                   /\ InRange(o, i)' <=> InRange(o, i)
                   /\ Empty(o, i)' <=> Empty(o, i)
                   /\ RightCase(o, i)' <=> RightCase(o, i)
                   /\ Violated(o, i)' <=> Violated(o, i)
                   /\ Fits(o, i)' <=> Fits(o, i)
                   /\ IsOffset(i, o)' <=> IsOffset(i, o)
<1>1. \A o, i : /\ IsPresent(o, i)' <=> IsPresent(o, i)
                /\ IsSet(o, i)' <=> IsSet(o, i)
                /\ IsUsed(o, i)' <=> IsUsed(o, i)
                /\ HasValue(o, i)' <=> HasValue(o, i)
                /\ Fits(o, i)' <=> Fits(o, i)
                /\ Selected(o, i)' = Selected(o, i)
                /\ IsOffset(i, o)' <=> IsOffset(i, o)
  BY DEF IsPresent, IsSet, IsUsed, HasValue, Fits, Selected, CaseBits, IsOffset
<1> QED
  BY <1>1 DEF InRange, Empty, RightCase, Violated

\* Objects alike in field i and in the fields that it refers to.
Alike(o, w, i) ==
  /\ o[i] = w[i]
  /\ fields[i].optional = "clause" => o[fields[i].clause].value = w[fields[i].clause].value
  /\ fields[i].kind = "choice" => o[fields[i].selector].value = w[fields[i].selector].value

LEMMA AlikeIs ==
  ASSUME NEW o, NEW w, NEW i, Alike(o, w, i)
  PROVE  /\ IsPresent(o, i) <=> IsPresent(w, i)
         /\ IsSet(o, i) <=> IsSet(w, i)
         /\ fields[i].optional = "clause" => (IsUsed(o, i) <=> IsUsed(w, i))
         /\ fields[i].kind = "choice" => Selected(o, i) = Selected(w, i)
         /\ InRange(o, i) <=> InRange(w, i)
         /\ Empty(o, i) <=> Empty(w, i)
         /\ RightCase(o, i) <=> RightCase(w, i)
         /\ Violated(o, i) <=> Violated(w, i)
         /\ Fits(o, i) <=> Fits(w, i)
<1>1. /\ IsPresent(o, i) <=> IsPresent(w, i)
      /\ IsSet(o, i) <=> IsSet(w, i)
      /\ fields[i].optional = "clause" => (IsUsed(o, i) <=> IsUsed(w, i))
      /\ fields[i].kind = "choice" => Selected(o, i) = Selected(w, i)
      /\ HasValue(o, i) <=> HasValue(w, i)
      /\ Fits(o, i) <=> Fits(w, i)
  BY DEF Alike, IsPresent, IsSet, IsUsed, HasValue, Fits, Selected
<1> QED
  BY <1>1 DEF Alike, InRange, Empty, RightCase, Violated

\* Clauses, selectors and the holders of offsets are earlier fields that are always there, and a
\* holder is neither of the others.
LEMMA RefersTo ==
  ASSUME fields \in Schemas, NEW i \in 1..Len(fields)
  PROVE  LET f == fields[i]
             simple(j) == j \in 1..(i - 1) /\ ~fields[j].extended /\ fields[j].optional = "no"
                          /\ fields[j].kind = "number"
         IN  /\ f.optional = "clause" => simple(f.clause) /\ f.clause # 0
             /\ f.kind = "choice" => simple(f.selector) /\ f.selector # 0
             /\ f.offset # 0 => simple(f.offset)
             /\ PlainSchemas => \A k \in 1..Len(fields) : f.offset # 0 =>
                                  f.offset # fields[k].clause /\ f.offset # fields[k].selector
<1> DEFINE f == fields[i]
<1>1. fields \in Seq(FieldType) /\ f \in FieldType
  BY FieldTypes
<1>2. \A j \in {f.clause, f.offset, f.selector} \ {0} :
        /\ j \in 1..(i - 1)
        /\ ~fields[j].extended /\ fields[j].optional = "no" /\ fields[j].kind = "number"
  BY SchemasAssumption
<1>3. (f.kind = "choice" => f.selector # 0) /\ (f.optional = "clause" => f.clause # 0)
  <2>1. f.selector \in Nat /\ f.clause \in Nat
    BY <1>1 DEF FieldType
  <2> QED
    BY <2>1, SchemasAssumption
<1>4. PlainSchemas => \A k \in 1..Len(fields) : f.offset # 0 =>
                                  f.offset # fields[k].clause /\ f.offset # fields[k].selector
  BY DEF PlainSchemas, Plain
<1> QED
  BY <1>2, <1>3, <1>4

\* A step that leaves the object and the schema alone leaves its good fields alone.
LEMMA GoodStays ==
  ASSUME fields' = fields, object' = object, known' = known, NEW i, NEW l \in BOOLEAN
  PROVE  /\ Good(object, i, FALSE, l)' <=> Good(object, i, FALSE, l)
         /\ Good(object, i, IsOffset(i, known), l)' <=> Good(object, i, IsOffset(i, known), l)
         /\ Good(object, i, FALSE, l) => Good(object, i, IsOffset(i, known), l)
         /\ Fits(object, i)' <=> Fits(object, i)
BY PredicatesStay DEF Good

LEMMA ValidateFieldGood ==
  ASSUME Types, GoodFields, ValidateField
  PROVE  GoodFields'
<1> DEFINE i == index + 1
<1>1. /\ operation = "validate" /\ operation' = operation /\ status = "busy"
      /\ UNCHANGED <<fields, known, object, sent>>
  BY DEF ValidateField, Busy
<1>2. i \in 1..known /\ index \in Nat /\ object[i].set \in BOOLEAN
      /\ object[i].value \in Nat /\ CaseBits(i, object[i].tag) \in Nat
  BY <1>1, AtWork, FieldIs, CaseBitsIs
<1>3. \/ index' = index /\ status' = "thrown"
      \/ /\ index' = i
         /\ IsPresent(object, i) =>
              /\ ~Mismatch(i)
              /\ IsSet(object, i) => ~WrongCase(i) /\ ~Violated(object, i) /\ ~OutOfRange(i)
  BY DEF ValidateField, Continue
<1>4. index' = i => \A l \in BOOLEAN : Good(object, i, FALSE, l)
  <2>1. ~WrongCase(i) => RightCase(object, i)
    BY DEF WrongCase, RightCase
  <2>2. ~OutOfRange(i) => InRange(object, i)
    <3>1. Pow2[CaseBits(i, object[i].tag)] \in Nat
      BY <1>2, Pow2Is
    <3> QED
      BY <1>2, <3>1 DEF OutOfRange, InRange, Fits
  <2>3. ~Mismatch(i) => (fields[i].optional = "clause" => (object[i].set <=> IsUsed(object, i)))
    BY <1>2 DEF Mismatch, IsUsed
  <2>4. index' = i /\ IsPresent(object, i) =>
              /\ ~Mismatch(i)
              /\ IsSet(object, i) => ~WrongCase(i) /\ ~Violated(object, i) /\ ~OutOfRange(i)
    BY <1>3
  <2> QED
    BY <1>2, <2>1, <2>2, <2>3, <2>4 DEF Good
<1>5. \A k \in 1..index' : Good(object, k, FALSE, sent # Nothing)
  <2>1. \A k \in 1..index : Good(object, k, FALSE, sent # Nothing)
    BY <1>1 DEF GoodFields
  <2>2. \A k \in 1..index' : k \in 1..index \/ (index' = i /\ k = i)
    BY <1>2, <1>3
  <2> QED
    BY <1>4, <2>1, <2>2
<1>6. (sent # Nothing)' <=> (sent # Nothing)
  BY <1>1 DEF Nothing
<1>7. \A k \in 1..index' : Good(object, k, FALSE, sent # Nothing)'
  BY <1>1, <1>5, GoodStays
<1>8. sent # Nothing => \A k \in 1..known : Good(object, k, FALSE, sent # Nothing)'
  BY <1>1, GoodStays DEF GoodFields
<1> QED
  BY <1>1, <1>6, <1>7, <1>8 DEF GoodFields

LEMMA MeasuringGood ==
  ASSUME Types, GoodFields, NEW name \in {"initializeOffsets", "bitSizeOf", "write", "validate"}, Begin(name),
         Did("validate") \/ Did("initializeOffsets") \/ Did("bitSizeOf") \/ Did("read"),
         name = "validate" => Did("read"),
         UNCHANGED <<fields, known, object, sent>>
  PROVE  GoodFields'
<1>1. operation' = name /\ index' = 0 /\ status = "done" /\ index = known
  BY DEF Begin, Did, Types
<1>2. (sent # Nothing)' <=> (sent # Nothing)
  BY DEF Nothing
<1>3. \A k \in 1..known : Good(object, k, IsOffset(k, known), sent # Nothing)
  <2>1. CASE operation \in {"validate", "read"}
    BY <1>1, <2>1, GoodStays DEF GoodFields
  <2>2. CASE operation \in {"initializeOffsets", "bitSizeOf"}
    BY <2>2 DEF GoodFields
  <2> QED
    BY <2>1, <2>2 DEF Did
<1>4. name = "validate" => \A k \in 1..known : Good(object, k, FALSE, sent # Nothing)
  BY <1>1 DEF GoodFields, Did
<1>5. \A k \in 1..known : Good(object, k, IsOffset(k, known), sent # Nothing)'
  BY <1>3, GoodStays
<1>6. name = "validate" => \A k \in 1..known : Good(object, k, FALSE, sent # Nothing)'
  BY <1>4, GoodStays
<1>7. operation' # "read" /\ (operation' = "validate" <=> name = "validate") /\ known' = known
  BY <1>1
<1>8. \A k \in 1..index' : Good(object, k, FALSE, sent # Nothing)'
  BY <1>1
<1> HIDE DEF Good
<1> QED
  BY <1>5, <1>6, <1>7, <1>8 DEF GoodFields

LEMMA MeasureFieldGood ==
  ASSUME PlainSchemas, Types, GoodFields, MeasureField
  PROVE  GoodFields'
<1> DEFINE i == index + 1
<1>1. /\ operation \in {"bitSizeOf", "initializeOffsets"} /\ operation' = operation /\ status = "busy"
      /\ UNCHANGED <<fields, known, sent>>
      /\ object' = IF operation = "bitSizeOf" THEN object ELSE SetOffset(i, endBitPosition)
  BY DEF MeasureField
<1>2. i \in 1..known /\ i \in 1..Len(fields) /\ fields \in Schemas /\ known \in 1..Len(fields)
      /\ endBitPosition \in Nat /\ IsObject(object, known)
  BY <1>1, AtWork DEF Types
<1> DEFINE h == fields[i].offset
           so == SetOffset(i, endBitPosition)
<1> HIDE DEF i
<1>3. \A k \in 1..known : \/ so[k] = object[k]
                          \/ /\ k = h /\ h # 0
                             /\ so[k] = [object[k] EXCEPT !.value = OffsetOf(i, endBitPosition)]
  BY <1>2, SetOffsetIs
<1> HIDE DEF so
<1>4. \A k \in 1..known : Good(object, k, IsOffset(k, known), sent # Nothing)
  BY <1>1 DEF GoodFields
<1>5. ASSUME NEW k \in 1..known PROVE Good(so, k, IsOffset(k, known), sent # Nothing)
  <2>1. k \in 1..Len(fields) /\ k \in Nat /\ known \in Nat /\ i \in Nat
    BY <1>2, FieldIs
  <2>2. CASE so[k] = object[k]
    <3>1. fields[k].optional = "clause" => fields[k].clause \in 1..known
                                           /\ (fields[k].clause # h \/ h = 0)
      BY <1>2, <2>1, RefersTo
    <3>2. fields[k].kind = "choice" => fields[k].selector \in 1..known
                                           /\ (fields[k].selector # h \/ h = 0)
      BY <1>2, <2>1, RefersTo
    <3>3. Alike(so, object, k)
      BY <1>3, <2>2, <3>1, <3>2 DEF Alike
    <3>4. /\ IsPresent(so, k) <=> IsPresent(object, k)
          /\ IsSet(so, k) <=> IsSet(object, k)
          /\ fields[k].optional = "clause" => (IsUsed(so, k) <=> IsUsed(object, k))
          /\ InRange(so, k) <=> InRange(object, k)
          /\ Empty(so, k) <=> Empty(object, k)
          /\ RightCase(so, k) <=> RightCase(object, k)
          /\ Violated(so, k) <=> Violated(object, k)
      BY <3>3, AlikeIs
    <3> QED
      BY <1>4, <2>2, <3>4 DEF Good
  <2>3. CASE k = h /\ h # 0
    <3>1. IsOffset(k, known)
      BY <1>2, <2>3 DEF IsOffset
    <3>2. fields[k].optional = "no" /\ fields[k].kind = "number"
      BY <1>2, <2>3, RefersTo
    <3> QED
      BY <3>1, <3>2 DEF Good, RightCase
  <2> QED
    BY <1>3, <2>2, <2>3
<1>6. \A k \in 1..known : Good(object', k, IsOffset(k, known), sent # Nothing)
  <2>1. object' = object \/ object' = so
    BY <1>1 DEF so
  <2> QED
    BY <1>4, <1>5, <2>1
<1>7. \A k \in 1..known : Good(object, k, IsOffset(k, known), sent # Nothing)'
  BY <1>1, <1>6, PredicatesStay DEF Good
<1> QED
  BY <1>1, <1>7 DEF GoodFields

LEMMA WriteFieldGood ==
  ASSUME Types, GoodFields, WriteField
  PROVE  GoodFields'
<1>1. operation = "write" /\ operation' = operation /\ UNCHANGED <<fields, known, object, sent>>
  BY DEF WriteField, Busy
<1>2. \A k \in 1..known : Good(object, k, IsOffset(k, known), sent # Nothing)
  BY <1>1 DEF GoodFields
<1>3. \A k \in 1..known : Good(object, k, IsOffset(k, known), sent # Nothing)'
  BY <1>1, <1>2, GoodStays
<1> QED
  BY <1>1, <1>3 DEF GoodFields

LEMMA DeserializeGood ==
  ASSUME Types, NEW n \in Versions, NEW d \in Cuts, NEW r \in BOOLEAN, NEW target \in Targets(n),
         Deserialize(n, target, d, r)
  PROVE  GoodFields'
<1>1. /\ operation' = "read" /\ index' = 0 /\ known' = n /\ object' = target /\ fields' = fields
      /\ sent' = [known |-> known, object |-> object, bits |-> bits, cut |-> d]
  BY DEF Deserialize, Begin
<1>2. n \in 1..Len(fields) /\ known # 0 /\ fields \in Schemas
  BY AtWork, VersionsAre
<1>3. (sent # Nothing)'
  <2>1. sent'.known = known /\ Nothing.known = 0 /\ Nothing' = Nothing
    BY <1>1 DEF Nothing
  <2> QED
    BY <1>2, <2>1
<1>4. \A k \in 1..n : Fits(target, k)
  BY <1>2, TargetIs
<1>5. \A k \in 1..n : Fits(object, k)'
  BY <1>1, <1>4, PredicatesStay
<1> QED
  BY <1>1, <1>3, <1>5 DEF GoodFields

\* The step of read changes the one field it is at.
LEMMA ReadChangesOne ==
  ASSUME PlainSchemas, Types, ReadField
  PROVE  LET i == index + 1
         IN  /\ \A k \in 1..known : k # i => object'[k] = object[k]
             /\ \A k \in 1..index : Alike(object', object, k)
             /\ fields[i].optional = "clause" => object'[fields[i].clause] = object[fields[i].clause]
             /\ fields[i].kind = "choice" => object'[fields[i].selector] = object[fields[i].selector]
<1> DEFINE i == index + 1
<1>1. i \in 1..known /\ (ReadNothing(i) \/ ReadUnset(i) \/ ReadValue(i) \/ ReadFails(i))
  BY ReadFieldIs
<1>2. object \in [1..known -> ObjectType] /\ index \in Nat /\ known \in Nat /\ fields \in Schemas
      /\ known \in 1..Len(fields) /\ Len(fields) \in Nat
  BY AtWork DEF Types, IsObject
<1>3. \E x : object' = [object EXCEPT ![i] = x]
  <2>1. object' = object => object' = [object EXCEPT ![i] = object[i]]
    BY <1>1, <1>2
  <2> QED
    BY <1>1, <2>1 DEF ReadNothing, ReadUnset, ReadValue, ReadFails
<1>4. \A k \in 1..known : k # i => object'[k] = object[k]
  BY <1>2, <1>3
<1>5. \A k \in 1..i : /\ fields[k].optional = "clause" =>
                           fields[k].clause \in 1..known /\ fields[k].clause # i
                      /\ fields[k].kind = "choice" =>
                           fields[k].selector \in 1..known /\ fields[k].selector # i
  <2>1. ASSUME NEW k \in 1..i
        PROVE  /\ fields[k].optional = "clause" => fields[k].clause \in 1..(k - 1)
               /\ fields[k].kind = "choice" => fields[k].selector \in 1..(k - 1)
    <3>1. k \in 1..Len(fields)
      BY <1>1, <1>2
    <3> QED
      BY <1>2, <3>1, RefersTo
  <2> QED
    BY <1>1, <1>2, <2>1
<1>6. \A k \in 1..index : Alike(object', object, k)
  BY <1>1, <1>2, <1>4, <1>5 DEF Alike
<1>7. i \in 1..i
  BY <1>2
<1> HIDE DEF i
<1> QED
  BY <1>4, <1>5, <1>6, <1>7 DEF i

\* What read leaves in field i is good, if its value fitted before.
LEMMA ReadIsGood ==
  ASSUME PlainSchemas, Types, ReadField, Fits(object, index + 1), index' # index
  PROVE  Good(object', index + 1, FALSE, TRUE)
<1> DEFINE i == index + 1
           q == FlagEnd(i, ReadStart(i))
           p == StreamStart(i, q)
           o == object'
<1>1. i \in 1..known /\ (ReadNothing(i) \/ ReadUnset(i) \/ ReadValue(i) \/ ReadFails(i))
  BY ReadFieldIs
<1>2. i \in 1..Len(fields) /\ fields \in Schemas /\ object \in [1..known -> ObjectType]
      /\ fields[i].optional \in {"no", "auto", "clause"} /\ fields[i].kind \in {"number", "choice", "union"}
      /\ index \in Nat
  <2>1. i \in 1..Len(fields) /\ fields \in Schemas
    BY <1>1, FieldIs
  <2>2. fields[i] \in FieldType
    BY <2>1, FieldTypes
  <2> QED
    BY <1>1, <2>1, <2>2, AtWork DEF Types, IsObject, FieldType
<1>3. /\ fields[i].optional = "clause" => (IsUsed(o, i) <=> IsUsed(object, i))
      /\ fields[i].kind = "choice" => Selected(o, i) = Selected(object, i)
  <2>1. /\ fields[i].optional = "clause" => object'[fields[i].clause] = object[fields[i].clause]
        /\ fields[i].kind = "choice" => object'[fields[i].selector] = object[fields[i].selector]
    BY ReadChangesOne
  <2> QED
    BY <2>1 DEF IsUsed, Selected
<1>4. Fits(object, i)
  OBVIOUS
<1> HIDE DEF i, o
<1>5. CASE ReadNothing(i)
  <2>1. o[i] = Absent(i) /\ fields[i].extended
    BY <1>1, <1>2, <1>5 DEF ReadNothing, o
  <2>2. o[i].present = FALSE
    BY <1>1, <2>1, AbsentAndResetAre
  <2> QED
    BY <2>1, <2>2 DEF Good, IsPresent, i, o
<1>6. CASE ReadUnset(i)
  <2>1. o[i] = Reset(i) /\ ~WillRead(i)
    BY <1>1, <1>2, <1>6 DEF ReadUnset, o
  <2>2. o[i].set = FALSE
    BY <1>1, <2>1, AbsentAndResetAre
  <2>3. fields[i].optional # "no" /\ (fields[i].optional = "clause" => ~IsUsed(object, i))
    BY <2>1 DEF WillRead
  <2>4. Good(o, i, FALSE, TRUE)
    BY <1>3, <2>2, <2>3 DEF Good, IsSet
  <2> QED
    BY <2>4 DEF i, o
<1>7. CASE ReadValue(i)
  <2> DEFINE t == ReadTag(i, p)
             v == NumOfBits(SubSeq(buffer, p + TagBits(i) + 1, p + TagBits(i) + CaseBits(i, t)))
  <2>1. o[i] = Filled(i, p) /\ WillRead(i) /\ ~Unreadable(i, p) /\ ~Refused(i, p)
        /\ o = [object EXCEPT ![i] = Filled(i, p)]
    BY <1>1, <1>2, <1>7 DEF ReadValue, o
  <2>2. p \in Nat
    BY <1>1, ReadStartIs
  <2> HIDE DEF p
  <2>3. /\ v < Pow2[CaseBits(i, t)] /\ TagBits(i) \in {0, 8}
        /\ IF EmptyCase(i) THEN Filled(i, p) = Emplaced(i)
           ELSE /\ Filled(i, p).tag = t /\ Filled(i, p).value = v
                /\ Filled(i, p).set = Emplaced(i).set
    BY <1>1, <2>1, <2>2, FilledIs
  <2> HIDE DEF v, t
  <2>4. IF fields[i].optional = "no" THEN Emplaced(i) = object[i]
        ELSE Emplaced(i).set = TRUE /\ Emplaced(i).value = 0 /\ Emplaced(i).tag = 0
    BY <1>1, EmplacedIs
  <2>5. fields[i].optional = "clause" => (o[i].set <=> IsUsed(o, i))
    BY <1>3, <2>1, <2>3, <2>4 DEF WillRead
  <2>6. CASE EmptyCase(i) /\ fields[i].optional = "no"
    <3>1. Empty(o, i)
      BY <1>3, <2>6 DEF EmptyCase, Empty
    <3>2. o[i] = object[i]
      BY <2>1, <2>3, <2>4, <2>6
    <3>3. InRange(o, i)
      BY <1>4, <3>2 DEF InRange, Fits
    <3>4. Good(o, i, FALSE, TRUE)
      BY <2>5, <3>1, <3>3 DEF Good
    <3> QED
      BY <3>4 DEF i, o
  <2>7. CASE EmptyCase(i) /\ fields[i].optional # "no"
    <3>1. o[i].tag = 0 /\ fields[i].kind = "choice" /\ Selected(o, i) = 0
      BY <1>3, <2>1, <2>3, <2>4, <2>7 DEF EmptyCase
    <3>2. ~HasValue(o, i) /\ RightCase(o, i)
      BY <3>1 DEF HasValue, RightCase
    <3>3. Good(o, i, FALSE, TRUE)
      BY <2>5, <3>2 DEF Good, InRange, Violated
    <3> QED
      BY <3>3 DEF i, o
  <2>8. CASE ~EmptyCase(i)
    <3>1. o[i].tag = t /\ o[i].value = v
      BY <2>1, <2>3, <2>8
    <3>2. InRange(o, i)
      BY <2>3, <3>1 DEF InRange, Fits
    <3>3. ~Violated(o, i)
      BY <2>1, <2>8 DEF Refused
    <3>4. RightCase(o, i)
      <4>1. CASE fields[i].kind = "choice"
        <5>1. t = Selected(object, i)
          BY <4>1 DEF t, ReadTag
        <5> QED
          BY <1>3, <3>1, <4>1, <5>1 DEF RightCase
      <4>2. CASE fields[i].kind = "union"
        <5> DEFINE b == SubSeq(buffer, p + 1, p + TagBits(i))
        <5>1. p + TagBits(i) =< Len(buffer) /\ buffer \in Seq({0, 1}) /\ TagBits(i) \in Nat
          BY <2>1, <2>2, <2>3 DEF Unreadable, Types
        <5>2. b \in Seq({0, 1})
          BY <2>2, <5>1, SubBits
        <5>3. t = NumOfBits(b) + 1
          BY <4>2, <5>1 DEF t, ReadTag
        <5> HIDE DEF b
        <5>4. NumOfBits(b) \in Nat
          BY <5>2, NumFits
        <5>5. t # 0
          BY <5>3, <5>4
        <5> QED
          BY <3>1, <4>2, <5>5 DEF RightCase
      <4>3. CASE fields[i].kind = "number"
        BY <4>3 DEF RightCase
      <4> QED
        BY <1>2, <4>1, <4>2, <4>3
    <3>5. Good(o, i, FALSE, TRUE)
      BY <2>5, <3>2, <3>3, <3>4 DEF Good
    <3> QED
      BY <3>5 DEF i, o
  <2> QED
    BY <2>6, <2>7, <2>8
<1>8. CASE ReadFails(i)
  <2>1. FALSE
    BY <1>8 DEF ReadFails
  <2> QED
    BY <2>1
<1> QED
  BY <1>1, <1>5, <1>6, <1>7, <1>8

LEMMA ReadFieldGood ==
  ASSUME PlainSchemas, Types, GoodFields, ReadField
  PROVE  GoodFields'
<1> DEFINE i == index + 1
<1>1. /\ i \in 1..known /\ status = "busy" /\ operation = "read" /\ operation' = operation
      /\ UNCHANGED <<fields, known, sent>>
      /\ ReadNothing(i) \/ ReadUnset(i) \/ ReadValue(i) \/ ReadFails(i)
  BY ReadFieldIs
<1>2. index \in Nat /\ known \in Nat
  BY AtWork
<1>3. (index' = i \/ index' = index) /\ (status' = "busy" => index' = i)
  BY <1>1 DEF ReadNothing, ReadUnset, ReadValue, ReadFails, Continue
<1>4. sent # Nothing /\ (sent # Nothing)'
  BY <1>1 DEF GoodFields, Nothing
<1>5. \A k \in 1..index : Good(object, k, FALSE, TRUE)
  BY <1>1, <1>4 DEF GoodFields
<1>6. \A k \in 1..known : k > index => Fits(object, k)
  BY <1>1 DEF GoodFields
<1>7. (\A k \in 1..known : k # i => object'[k] = object[k]) /\ (\A k \in 1..index : Alike(object', object, k))
  BY ReadChangesOne
<1>8. ASSUME NEW k \in 1..index PROVE Good(object', k, FALSE, TRUE)
  <2> DEFINE o == object'
  <2>1. Good(object, k, FALSE, TRUE) /\ Alike(o, object, k)
    BY <1>5, <1>7
  <2> HIDE DEF o
  <2>2. /\ IsPresent(o, k) <=> IsPresent(object, k)
        /\ IsSet(o, k) <=> IsSet(object, k)
        /\ fields[k].optional = "clause" => (IsUsed(o, k) <=> IsUsed(object, k))
        /\ InRange(o, k) <=> InRange(object, k)
        /\ Empty(o, k) <=> Empty(object, k)
        /\ RightCase(o, k) <=> RightCase(object, k)
        /\ Violated(o, k) <=> Violated(object, k)
    BY <2>1, AlikeIs
  <2>3. o[k] = object[k]
    BY <2>1 DEF Alike
  <2>4. Good(o, k, FALSE, TRUE)
    BY <2>1, <2>2, <2>3 DEF Good
  <2> QED
    BY <2>4 DEF o
<1>9. index' = i => Good(object', i, FALSE, TRUE)
  <2>1. Fits(object, index + 1)
    BY <1>1, <1>2, <1>6
  <2>2. ASSUME index' # index PROVE Good(object', index + 1, FALSE, TRUE)
    BY <2>1, <2>2, ReadIsGood, Zenon
  <2>3. index' = i => index' # index
    BY <1>2
  <2> QED
    BY <2>2, <2>3
<1>10. \A k \in 1..index' : Good(object', k, FALSE, TRUE)
  <2>1. \A k \in 1..index' : k \in 1..index \/ (index' = i /\ k = i)
    BY <1>2, <1>3
  <2> QED
    BY <1>8, <1>9, <2>1
<1>11. \A k \in 1..index' : Good(object, k, FALSE, sent # Nothing)'
  BY <1>1, <1>4, <1>10, PredicatesStay DEF Good
<1>12. status' = "busy" => \A k \in 1..known : k > index' => Fits(object, k)'
  <2>1. ASSUME status' = "busy", NEW k \in 1..known, k > index' PROVE Fits(object', k)
    <3>1. k # i /\ k > index
      BY <1>2, <1>3, <2>1
    <3>2. object'[k] = object[k] /\ Fits(object, k)
      BY <1>6, <1>7, <3>1
    <3> QED
      BY <3>2 DEF Fits
  <2> QED
    BY <1>1, <2>1, PredicatesStay
<1> QED
  BY <1>1, <1>4, <1>11, <1>12 DEF GoodFields

LEMMA GoodNext ==
  ASSUME PlainSchemas, Types, GoodFields, [Next]_vars
  PROVE  GoodFields'
<1>1. CASE ValidateField
  BY <1>1, ValidateFieldGood
<1>2. CASE InitializeOffsets
  BY <1>2, MeasuringGood DEF InitializeOffsets
<1>3. CASE MeasureField
  BY <1>3, MeasureFieldGood
<1>4. CASE Write
  BY <1>4, MeasuringGood DEF Write
<1>5. CASE WriteField
  BY <1>5, WriteFieldGood
<1>6. CASE \E n \in Versions, d \in Cuts, r \in BOOLEAN :
             \E target \in Targets(n) : Deserialize(n, target, d, r)
  BY <1>6, DeserializeGood
<1>7. CASE ReadField
  BY <1>7, ReadFieldGood
<1>8. CASE SerializeView
  BY <1>8, MeasuringGood DEF SerializeView
<1>9. CASE SerializeDataView
  BY <1>9, MeasuringGood DEF SerializeDataView
<1>10. CASE UNCHANGED vars
  <2>1. UNCHANGED <<fields, known, object, operation, status, index, sent>>
        /\ ((sent # Nothing)' <=> (sent # Nothing))
    BY <1>10 DEF vars, Nothing
  <2>2. \A i : /\ Good(object, i, FALSE, sent # Nothing)' <=> Good(object, i, FALSE, sent # Nothing)
               /\ Good(object, i, IsOffset(i, known), sent # Nothing)'
                  <=> Good(object, i, IsOffset(i, known), sent # Nothing)
               /\ Fits(object, i)' <=> Fits(object, i)
    BY <2>1, GoodStays
  <2> QED
    BY <2>1, <2>2 DEF GoodFields
<1> QED
  BY <1>1, <1>2, <1>3, <1>4, <1>5, <1>6, <1>7, <1>8, <1>9, <1>10 DEF Next

\* Setting an offset does not move a field.
LEMMA SetOffsetLayout ==
  ASSUME PlainSchemas, Types, NEW i \in 1..known, NEW p \in Nat
  PROVE  /\ IsObject(SetOffset(i, p), known)
         /\ \A k \in 1..known : /\ SetOffset(i, p)[k].present = object[k].present
                                /\ SetOffset(i, p)[k].set = object[k].set
                                /\ SetOffset(i, p)[k].tag = object[k].tag
         /\ \A k \in 0..known : Ends(SetOffset(i, p), known)[k] = Ends(object, known)[k]
<1> DEFINE so == SetOffset(i, p)
<1>1. fields \in Schemas /\ known \in 1..Len(fields) /\ IsObject(object, known) /\ known \in Nat
  BY AtWork DEF Types
<1>2. IsObject(so, known)
  BY <1>1, SetOffsetIs
<1>3. ASSUME NEW k \in 1..known
      PROVE  so[k].present = object[k].present /\ so[k].set = object[k].set /\ so[k].tag = object[k].tag
  <2>1. so[k] = object[k] \/ so[k] = [object[k] EXCEPT !.value = OffsetOf(i, p)]
    BY <1>1, SetOffsetIs
  <2>2. object[k] \in [present : BOOLEAN, set : BOOLEAN, value : Nat, tag : Nat]
    BY FieldIs DEF ObjectType
  <2> HIDE DEF so
  <2> QED
    BY <2>1, <2>2
<1> HIDE DEF so
<1>4. \A k \in 1..known : \A b \in Nat : End(so, k, b) = End(object, k, b)
  BY <1>3 DEF End, IsPresent, IsSet
<1>5. known \in 0..known /\ known =< known
  BY <1>1
<1>6. \A k \in 0..known : Ends(so, known)[k] = Ends(object, known)[k]
  BY <1>1, <1>2, <1>4, <1>5, EndsAgree
<1> QED
  BY <1>2, <1>3, <1>6 DEF so

LEMMA LayoutMeasured ==
  ASSUME PlainSchemas, Types, Layout, MeasureField
  PROVE  Layout'
<1> DEFINE i == index + 1
           e == Ends(object, known)
           so == SetOffset(i, endBitPosition)
<1>1. /\ operation \in {"bitSizeOf", "initializeOffsets"} /\ operation' = operation /\ status = "busy"
      /\ UNCHANGED <<fields, known>> /\ index' = i /\ Continue
      /\ endBitPosition' = Measured(i, endBitPosition) /\ bitSize' = endBitPosition'
      /\ object' = object \/ object' = so
  BY DEF MeasureField, Continue
<1>2. i \in 1..known /\ i \in 1..Len(fields) /\ fields \in Schemas /\ known \in 1..Len(fields)
      /\ endBitPosition \in Nat /\ IsObject(object, known) /\ index \in Nat /\ known \in Nat
  BY <1>1, AtWork DEF Types
<1>3. endBitPosition = e[index]
  BY <1>1 DEF Layout
<1>4. AreEnds(e, object, known)
  BY <1>2, EndsAre
<1> HIDE DEF e
<1>5. endBitPosition' = e[i]
  <2>1. e[i] = End(object, i, e[index])
    BY <1>2, <1>4 DEF AreEnds
  <2> QED
    BY <1>1, <1>3, <2>1 DEF End, Measured
<1> HIDE DEF i, so
<1>6. \A k \in 0..known : Ends(so, known)[k] = Ends(object, known)[k]
  BY <1>2, SetOffsetLayout DEF so
<1>8. \A k \in 0..known : Ends(object, known)'[k] = e[k]
  BY <1>1, <1>6, FieldsStay DEF e
<1>9. i \in 0..known /\ (status' = "done" => i = known)
  BY <1>1, <1>2 DEF Continue
<1> QED
  BY <1>1, <1>5, <1>8, <1>9 DEF Layout

LEMMA LayoutWritten ==
  ASSUME PlainSchemas, Types, GoodFields, Layout, WriteField
  PROVE  Layout'
<1> DEFINE i == index + 1
           e == Ends(object, known)
           s == AlignedToValue(i, FlagWritten(i))
           q == FlagEnd(i, MeasureStart(i, Len(bits)))
<1>1. /\ operation = "write" /\ operation' = operation /\ status = "busy"
      /\ UNCHANGED <<fields, known, object, bitSize>>
  BY DEF WriteField, Busy
<1>2. i \in 1..known /\ i \in 1..Len(fields) /\ fields \in Schemas /\ known \in 1..Len(fields)
      /\ IsObject(object, known) /\ index \in Nat /\ known \in Nat /\ Len(bits) \in Nat
      /\ places \in [1..known -> Nat]
  BY <1>1, AtWork DEF Types
<1>3. bitSize = e[known] /\ Len(bits) = e[index]
      /\ \A k \in 1..index : places[k] = ValueStart(k, FlagEnd(k, MeasureStart(k, e[k - 1])))
  BY <1>1 DEF Layout
<1>4. AreEnds(e, object, known) /\ \A k \in 0..known : e[k] \in Nat /\ \A j \in 0..k : e[j] =< e[k]
  BY <1>2, EndsAre
<1> HIDE DEF e
<1>5. Len(Written(i)) = e[i] /\ e[i] =< bitSize
  <2>1. e[i] = End(object, i, e[index])
    BY <1>2, <1>4 DEF AreEnds
  <2>2. Len(Written(i)) = Measured(i, Len(bits))
    BY <1>2, WrittenAsMeasured
  <2>3. known \in 0..known /\ i \in 0..known
    BY <1>2
  <2> QED
    BY <1>3, <1>4, <2>1, <2>2, <2>3 DEF End, Measured
<1>6. Len(s) = ValueStart(i, q) /\ CanSkip(i, q) /\ Len(FlagWritten(i)) = q
  BY <1>2, WrittenIs
<1>7. Ends(object, known)' = e
  BY <1>1, FieldsStay DEF e
<1> DEFINE refused == IsPresent(object, i) /\ IsSet(object, i)
                      /\ (OutOfRange(i) \/ ~CanSkip(i, Len(FlagWritten(i))))
<1>8. \/ /\ Continue /\ bits' = Written(i) /\ places' = [places EXCEPT ![i] = Len(s)]
      \/ /\ status' = "thrown" /\ UNCHANGED <<index, bits, places>>
         /\ refused \/ Len(Written(i)) > bitSize
  BY DEF WriteField, Written
<1>9. CASE Continue /\ bits' = Written(i) /\ places' = [places EXCEPT ![i] = Len(s)]
  <2>1. index' = i /\ status' \in {"done", "busy"}
    BY <1>9 DEF Continue
  <2> HIDE DEF i
  <2>2. Len(bits') = e[i]
    BY <1>5, <1>9
  <2>3. \A k \in 1..i : places'[k] = ValueStart(k, FlagEnd(k, MeasureStart(k, e[k - 1])))
    <3>1. places'[i] = ValueStart(i, FlagEnd(i, MeasureStart(i, e[i - 1])))
      <4>1. i - 1 = index
        BY <1>2 DEF i
      <4> QED
        BY <1>2, <1>3, <1>6, <1>9, <4>1
    <3>2. \A k \in 1..i : k = i \/ (k # i /\ k \in 1..index /\ k \in 1..known)
      BY <1>2 DEF i
    <3> QED
      BY <1>2, <1>3, <1>9, <3>1, <3>2
  <2>4. \A k, p : ValueStart(k, FlagEnd(k, MeasureStart(k, p)))' = ValueStart(k, FlagEnd(k, MeasureStart(k, p)))
    BY <1>1 DEF ValueStart, FlagEnd, MeasureStart
  <2>5. \A k \in 1..i : places'[k] = ValueStart(k, FlagEnd(k, MeasureStart(k, e[k - 1])))'
    BY <1>7, <2>3, <2>4 DEF e
  <2> QED
    BY <1>1, <1>3, <1>7, <2>1, <2>2, <2>5 DEF Layout, e
<1>10. CASE status' = "thrown" /\ UNCHANGED <<index, bits, places>> /\ (refused \/ Len(Written(i)) > bitSize)
  <2>1. IsPresent(object, i) /\ IsSet(object, i) /\ OutOfRange(i)
    <3>1. bitSize \in Nat /\ e[i] \in Nat
      <4>1. i \in 0..known
        BY <1>2
      <4> QED
        BY <1>4, <4>1 DEF Types
    <3>2. ~(Len(Written(i)) > bitSize)
      BY <1>5, <3>1
    <3> QED
      BY <1>6, <1>10, <3>2
  <2>2. IsOffset(i, known)
    <3>1. Good(object, i, IsOffset(i, known), sent # Nothing)
      BY <1>1, <1>2 DEF GoodFields
    <3>2. IsOffset(i, known) \/ InRange(object, i)
      BY <2>1, <3>1 DEF Good
    <3>3. ~InRange(object, i)
      <4>1. CaseBits(i, object[i].tag) \in Nat /\ object[i].value \in Nat
        BY <1>2, FieldIs, CaseBitsIs
      <4>2. Pow2[CaseBits(i, object[i].tag)] \in Nat
        BY <4>1, Pow2Is
      <4> QED
        BY <2>1, <4>1, <4>2 DEF OutOfRange, InRange, Fits
    <3> QED
      BY <3>2, <3>3
  <2>3. (\E k \in 1..known : IsOffset(k, known) /\ OutOfRange(k))'
    <3>1. IsOffset(i, known)' /\ OutOfRange(i)'
      BY <1>1, <1>10, <2>1, <2>2 DEF IsOffset, OutOfRange, HasValue, CaseBits
    <3> QED
      BY <1>1, <1>2, <1>10, <3>1
  <2>4. \A k, p : ValueStart(k, FlagEnd(k, MeasureStart(k, p)))' = ValueStart(k, FlagEnd(k, MeasureStart(k, p)))
    BY <1>1 DEF ValueStart, FlagEnd, MeasureStart
  <2>5. \A k \in 1..index' : places'[k] = ValueStart(k, FlagEnd(k, MeasureStart(k, e[k - 1])))'
    BY <1>3, <1>7, <1>10, <2>4 DEF e
  <2> QED
    BY <1>1, <1>3, <1>7, <1>10, <2>3, <2>5 DEF Layout, e
<1> QED
  BY <1>8, <1>9, <1>10

LEMMA LayoutNext ==
  ASSUME PlainSchemas, Types, GoodFields, Layout, [Next]_vars
  PROVE  Layout'
<1> DEFINE e == Ends(object, known)
<1>1. AreEnds(e, object, known)
  <2>1. fields \in Schemas /\ known \in 1..Len(fields) /\ IsObject(object, known)
    BY AtWork DEF Types
  <2> QED
    BY <2>1, EndsAre
<1>2. ASSUME NEW name \in {"initializeOffsets", "bitSizeOf"}, Begin(name), endBitPosition' = 0,
             UNCHANGED <<fields, known, object>>
      PROVE  Layout'
  <2>1. operation' = name /\ index' = 0 /\ status' = "busy"
    BY <1>2 DEF Begin
  <2>2. Ends(object, known)' = e /\ e[0] = 0
    BY <1>1, <1>2, FieldsStay DEF AreEnds
  <2> HIDE DEF e
  <2> QED
    BY <1>2, <2>1, <2>2 DEF Layout
<1>3. CASE ValidateField
  BY <1>3 DEF ValidateField, Busy, Layout
<1>4. CASE InitializeOffsets
  BY <1>2, <1>4 DEF InitializeOffsets
<1>5. CASE MeasureField
  BY <1>5, LayoutMeasured
<1>6. CASE Write
  <2>1. /\ operation' = "write" /\ index' = 0 /\ bits' = <<>> /\ status' = "busy"
        /\ UNCHANGED <<fields, known, object, bitSize>>
        /\ operation \in {"initializeOffsets", "bitSizeOf"} /\ status = "done"
    BY <1>6 DEF Write, Begin, Did
  <2>2. Ends(object, known)' = e /\ e[0] = 0
    BY <1>1, <2>1, FieldsStay DEF AreEnds
  <2>3. bitSize = e[known]
    BY <2>1 DEF Layout
  <2> HIDE DEF e
  <2> QED
    BY <2>1, <2>2, <2>3 DEF Layout
<1>7. CASE WriteField
  BY <1>7, LayoutWritten
<1>8. CASE \E n \in Versions, d \in Cuts, r \in BOOLEAN :
             \E target \in Targets(n) : Deserialize(n, target, d, r)
  BY <1>8 DEF Deserialize, Begin, Layout
<1>9. CASE ReadField
  BY <1>9 DEF ReadField, Busy, Layout
<1>10. CASE SerializeView
  BY <1>10 DEF SerializeView, Begin, Layout
<1>11. CASE SerializeDataView
  BY <1>2, <1>11 DEF SerializeDataView
<1>12. CASE UNCHANGED vars
  <2>1. UNCHANGED <<fields, known, object, operation, status, index, bitSize, endBitPosition, bits, places>>
    BY <1>12 DEF vars
  <2>2. Ends(object, known)' = Ends(object, known)
    BY <2>1, FieldsStay
  <2>3. \A k, p : ValueStart(k, FlagEnd(k, MeasureStart(k, p)))' = ValueStart(k, FlagEnd(k, MeasureStart(k, p)))
    BY <2>1 DEF ValueStart, FlagEnd, MeasureStart
  <2>4. \A k : (IsOffset(k, known) /\ OutOfRange(k))' <=> (IsOffset(k, known) /\ OutOfRange(k))
    BY <2>1 DEF IsOffset, OutOfRange, HasValue, CaseBits
  <2> QED
    BY <2>1, <2>2, <2>3, <2>4 DEF Layout
<1> QED
  BY <1>3, <1>4, <1>5, <1>6, <1>7, <1>8, <1>9, <1>10, <1>11, <1>12 DEF Next

WriteInvariant == Types /\ GoodFields /\ Layout

LEMMA WriteInvariantHolds ==
  ASSUME PlainSchemas
  PROVE  Spec => []WriteInvariant
<1>1. Init => WriteInvariant
  <2>1. Init => Layout
    BY DEF Init, Layout
  <2> QED
    BY <2>1, TypesInit, GoodInit DEF WriteInvariant
<1>2. WriteInvariant /\ [Next]_vars => WriteInvariant'
  BY TypesNext, GoodNext, LayoutNext DEF WriteInvariant
<1> QED
  BY <1>1, <1>2, PTL DEF Spec

\* ValidIsWritten for every schema: what validate has accepted is written, in the measured size,
\* and obeys the schema, but for its offset fields; and so does what read has put into an object.
THEOREM ValidObjectsAreWritten ==
  ASSUME PlainSchemas
  PROVE  Spec => []ValidIsWritten
<1>1. WriteInvariant => ValidIsWritten
  <2> SUFFICES ASSUME WriteInvariant PROVE ValidIsWritten
    OBVIOUS
  <2>1. operation = "write" /\ status = "thrown" => \E i \in 1..known : IsOffset(i, known) /\ OutOfRange(i)
    BY DEF WriteInvariant, Layout
  <2>2. ASSUME Did("write"), NEW i \in 1..known, ~IsOffset(i, known), IsPresent(object, i), IsSet(object, i)
        PROVE  Leftover(i) \/ (~Violated(object, i) /\ ~WrongCase(i))
    <3>1. Good(object, i, IsOffset(i, known), sent # Nothing)
      BY <2>2 DEF WriteInvariant, GoodFields, Did
    <3>2. (sent # Nothing /\ Empty(object, i)) \/ (RightCase(object, i) /\ ~Violated(object, i))
      BY <2>2, <3>1 DEF Good
    <3> QED
      BY <3>2 DEF Leftover, Empty, RightCase, WrongCase
  <2> QED
    BY <2>1, <2>2 DEF ValidIsWritten
<1> QED
  BY <1>1, WriteInvariantHolds, PTL

-------------------------------------------------------------------------------
(* RoundTrip and CutReadsPrefix: what is written is read.                  *)

\* Field i of o is at position p of the stream s.
Coded(o, i, s, p) ==
  IsPresent(o, i) =>
    LET a == MeasureStart(i, p)
        q == FlagEnd(i, a)
        v == ValueStart(i, q)
        t == o[i].tag
    IN  /\ \A k \in (p + 1)..a : s[k] = 0
        /\ fields[i].optional = "auto" => s[a + 1] = IF o[i].set THEN 1 ELSE 0
        /\ IsSet(o, i) =>
             /\ \A k \in (q + 1)..v : s[k] = 0
             /\ \A k \in 1..TagBits(i) : s[v + k] = BitsOf(t - 1, TagBits(i))[k]
             /\ \A k \in 1..CaseBits(i, t) :
                  s[v + TagBits(i) + k] = BitsOf(o[i].value, CaseBits(i, t))[k]

\* The extended fields that are present come first.
Contiguous(o, n) ==
  \A i, j \in 1..n :
    i =< j /\ fields[i].extended /\ fields[j].extended /\ o[j].present => o[i].present

\* Field i of o has arrived as it is in w.
Got(o, w, i) ==
  /\ o[i].present
  /\ fields[i].optional # "no" => o[i].set = w[i].set
  /\ IsSet(w, i) => \/ o[i].tag = w[i].tag /\ (HasValue(w, i) => o[i].value = w[i].value)
                    \/ Empty(o, i)

\* validate has met all of the extended fields or not, and a second time accepts all but leftovers.
Counted ==
  /\ operation = "validate" =>
       /\ status # "thrown" => (numExtendedFields = Preceding(index)
                                <=> \A j \in 1..index : fields[j].extended => object[j].present)
       /\ Contiguous(object, index)
       /\ sent # Nothing => Contiguous(object, known)
       /\ sent # Nothing /\ status = "thrown" => \E i \in 1..known : Leftover(i)
  /\ operation \in {"initializeOffsets", "bitSizeOf", "write"} => Contiguous(object, known)
  /\ operation = "bitSizeOf" => sent # Nothing

\* What write has written so far.
Coding ==
  operation = "write" => \A i \in 1..index :
    /\ Coded(object, i, bits, Ends(object, known)[i - 1])
    /\ IsPresent(object, i) /\ IsSet(object, i) => InRange(object, i)

\* What went through the buffer.
Sent ==
  sent # Nothing =>
    LET was == sent.object
        m == sent.known
        e == Ends(was, m)
    IN  /\ m \in Versions /\ IsObject(was, m) /\ sent.cut \in Nat /\ sent.bits \in Seq({0, 1})
        /\ \A i \in 1..m : /\ Good(was, i, IsOffset(i, m), FALSE)
                           /\ IsPresent(was, i) /\ IsSet(was, i) => InRange(was, i)
                           /\ Coded(was, i, sent.bits, e[i - 1])
        /\ Contiguous(was, m)
        /\ Len(sent.bits) = e[m]
        /\ Len(buffer) =< AlignTo(8, e[m]) /\ (sent.cut = 0 => e[m] =< Len(buffer))
        /\ \A k \in 1..Len(buffer) : k =< e[m] => buffer[k] = sent.bits[k]

\* read has come to the end of field j, and has met nothing in the place of the later fields.
ReadTo(j) ==
  /\ j =< sent.known
  /\ \A i \in 1..j : /\ Got(object, sent.object, i)
                     /\ fields[i].extended => LeavesTrace(sent.object, sent.known, i)
  /\ \A i \in (j + 1)..index : fields[i].extended /\ ~object[i].present
  /\ bitPosition = Ends(sent.object, sent.known)[j]
  /\ j < index => ~HasMore(bitPosition)

Reading ==
  operation = "read" =>
    /\ status # "thrown" => \E j \in 0..index : ReadTo(j)
    /\ status # "thrown" => \A i \in 1..known : i > index => object[i].present
    /\ status = "thrown" /\ sent.cut = 0
       => \E i \in 1..known : IsOffset(i, sent.known) /\ Violated(object, i)

\* Where the parts of field i are that starts behind p.
LEMMA PartsAre ==
  ASSUME fields \in Schemas, NEW n \in 1..Len(fields), NEW o, IsObject(o, n), NEW i \in 1..n, NEW p \in Nat
  PROVE  LET a == MeasureStart(i, p)
             q == FlagEnd(i, a)
             v == ValueStart(i, q)
             t == o[i].tag
         IN  /\ a \in Nat /\ p =< a /\ q \in Nat /\ a =< q /\ v \in Nat /\ q =< v
             /\ fields[i].optional = "auto" => q = a + 1
             /\ t \in 0..Len(fields[i].cases) /\ TagBits(i) \in {0, 8} /\ CaseBits(i, t) \in Nat
<1> DEFINE a == MeasureStart(i, p)
           q == FlagEnd(i, a)
           v == ValueStart(i, q)
<1>1. i \in 1..Len(fields) /\ o[i].tag \in 0..Len(fields[i].cases)
  BY FieldTypes DEF IsObject, ObjectType
<1>2. a \in Nat /\ p =< a
  BY <1>1, StartsAgree
<1>3. fields[i].optional = "auto" => q = a + 1
  BY DEF FlagEnd
<1> HIDE DEF a
<1>4. q \in Nat /\ a =< q
  BY <1>1, <1>2, StartsAgree
<1> HIDE DEF q
<1>5. v \in Nat /\ q =< v
  BY <1>1, <1>4, StartsAgree
<1> HIDE DEF v
<1>6. TagBits(i) \in {0, 8} /\ CaseBits(i, o[i].tag) \in Nat
  BY <1>1, CaseBitsIs
<1> QED
  BY <1>1, <1>2, <1>3, <1>4, <1>5, <1>6 DEF a, q, v

\* What is behind the field does not matter.
LEMMA CodedExtends ==
  ASSUME fields \in Schemas, NEW n \in 1..Len(fields), NEW o, IsObject(o, n), NEW i \in 1..n, NEW p \in Nat,
         NEW s, NEW u, Coded(o, i, s, p), \A k \in 1..End(o, i, p) : u[k] = s[k]
  PROVE  Coded(o, i, u, p)
<1> DEFINE a == MeasureStart(i, p)
           q == FlagEnd(i, a)
           v == ValueStart(i, q)
           t == o[i].tag
           end == End(o, i, p)
<1>1. /\ a \in Nat /\ p =< a /\ q \in Nat /\ a =< q /\ v \in Nat /\ q =< v
      /\ fields[i].optional = "auto" => q = a + 1
      /\ t \in 0..Len(fields[i].cases) /\ TagBits(i) \in {0, 8} /\ CaseBits(i, t) \in Nat
  BY PartsAre
<1>5. /\ ValueBits(i, t) = TagBits(i) + CaseBits(i, t)
      /\ end = IF ~IsPresent(o, i) THEN p ELSE IF IsSet(o, i) THEN v + ValueBits(i, t) ELSE q
  BY DEF ValueBits, End
<1>2. \A k \in 1..end : u[k] = s[k]
  OBVIOUS
<1>3. IsPresent(o, i) =>
        /\ \A k \in (p + 1)..a : s[k] = 0
        /\ fields[i].optional = "auto" => s[a + 1] = IF o[i].set THEN 1 ELSE 0
        /\ IsSet(o, i) =>
             /\ \A k \in (q + 1)..v : s[k] = 0
             /\ \A k \in 1..TagBits(i) : s[v + k] = BitsOf(t - 1, TagBits(i))[k]
             /\ \A k \in 1..CaseBits(i, t) : s[v + TagBits(i) + k] = BitsOf(o[i].value, CaseBits(i, t))[k]
  BY DEF Coded
<1> DEFINE B == BitsOf(t - 1, TagBits(i))
           C == BitsOf(o[i].value, CaseBits(i, t))
<1>4. IsPresent(o, i) =>
        /\ \A k \in (p + 1)..a : u[k] = 0
        /\ fields[i].optional = "auto" => u[a + 1] = IF o[i].set THEN 1 ELSE 0
        /\ IsSet(o, i) =>
             /\ \A k \in (q + 1)..v : u[k] = 0
             /\ \A k \in 1..TagBits(i) : u[v + k] = B[k]
             /\ \A k \in 1..CaseBits(i, t) : u[v + TagBits(i) + k] = C[k]
  <2> HIDE DEF a, q, v, t, end, B, C
  <2>1. SUFFICES ASSUME IsPresent(o, i)
        PROVE  /\ \A k \in (p + 1)..a : u[k] = 0
               /\ fields[i].optional = "auto" => u[a + 1] = IF o[i].set THEN 1 ELSE 0
               /\ IsSet(o, i) =>
                    /\ \A k \in (q + 1)..v : u[k] = 0
                    /\ \A k \in 1..TagBits(i) : u[v + k] = B[k]
                    /\ \A k \in 1..CaseBits(i, t) : u[v + TagBits(i) + k] = C[k]
    OBVIOUS
  <2>2. end \in Nat /\ q =< end /\ a =< end
    BY <1>1, <1>5, <2>1
  <2>3. \A k \in (p + 1)..a : u[k] = 0
    BY <1>1, <1>2, <1>3, <2>1, <2>2
  <2>4. fields[i].optional = "auto" => u[a + 1] = IF o[i].set THEN 1 ELSE 0
    BY <1>1, <1>2, <1>3, <2>1, <2>2
  <2>5. ASSUME IsSet(o, i)
        PROVE  /\ \A k \in (q + 1)..v : u[k] = 0
               /\ \A k \in 1..TagBits(i) : u[v + k] = B[k]
               /\ \A k \in 1..CaseBits(i, t) : u[v + TagBits(i) + k] = C[k]
    <3>1. end = v + TagBits(i) + CaseBits(i, t)
      BY <1>1, <1>5, <2>1, <2>5
    <3>2. \A k \in (q + 1)..v : u[k] = 0
      <4>1. \A k \in (q + 1)..v : k \in 1..end /\ s[k] = 0
        BY <1>1, <1>3, <2>1, <2>5, <3>1
      <4> QED
        BY <1>2, <4>1
    <3>3. \A k \in 1..TagBits(i) : v + k \in 1..end
      BY <1>1, <3>1
    <3>4. \A k \in 1..CaseBits(i, t) : v + TagBits(i) + k \in 1..end
      BY <1>1, <3>1
    <3> QED
      BY <1>2, <1>3, <2>1, <2>5, <3>2, <3>3, <3>4 DEF B, C
  <2> QED
    BY <2>3, <2>4, <2>5
<1> QED
  BY <1>4 DEF Coded

LEMMA Joined ==
  ASSUME NEW head \in Seq({0, 1}), NEW tail \in Seq({0, 1})
  PROVE  /\ head \o tail \in Seq({0, 1}) /\ Len(head \o tail) = Len(head) + Len(tail)
         /\ \A k \in 1..Len(head) : (head \o tail)[k] = head[k]
         /\ \A k \in 1..Len(tail) : (head \o tail)[Len(head) + k] = tail[k]
OBVIOUS

\* A step of write puts field i behind the bits that are there.
LEMMA WrittenIsCoded ==
  ASSUME PlainSchemas, Types, NEW i \in 1..known
  PROVE  /\ \A k \in 1..Len(bits) : Written(i)[k] = bits[k]
         /\ Coded(object, i, Written(i), Len(bits))
<1> DEFINE start == Len(bits)
           a == MeasureStart(i, start)
           q == FlagEnd(i, a)
           v == ValueStart(i, q)
           t == object[i].tag
           u == IF fields[i].extended THEN PadTo(bits, AlignTo(8, start)) ELSE bits
           flagged == FlagWritten(i)
           aligned == AlignedToValue(i, flagged)
           w == BitsOf(t - 1, TagBits(i))
           x == BitsOf(object[i].value, CaseBits(i, t))
           r == Written(i)
<1>1. fields \in Schemas /\ known \in 1..Len(fields) /\ IsObject(object, known) /\ i \in 1..Len(fields)
      /\ bits \in Seq({0, 1}) /\ start \in Nat /\ t \in 0..Len(fields[i].cases) /\ t \in Int
      /\ object[i].value \in Int
  BY AtWork, FieldIs DEF Types
<1>2. fields[i].alignment =< 64
  BY <1>1 DEF PlainSchemas, Plain
<1>3. a \in Nat /\ start =< a /\ q \in Nat /\ a =< q /\ v \in Nat /\ q =< v
      /\ (fields[i].optional = "auto" => q = a + 1)
      /\ TagBits(i) \in {0, 8} /\ CaseBits(i, t) \in Nat
  BY <1>1, PartsAre
<1>4. u \in Seq({0, 1}) /\ Len(u) = a /\ (\A k \in 1..start : u[k] = bits[k]) /\ (\A k \in (start + 1)..a : u[k] = 0)
  <2>1. CASE fields[i].extended
    <3>1. a = AlignTo(8, start) /\ u = PadTo(bits, AlignTo(8, start))
      BY <2>1 DEF MeasureStart
    <3> HIDE DEF a, u
    <3> QED
      BY <1>1, <1>3, <3>1, PadToIs
  <2>2. CASE ~fields[i].extended
    <3>1. a = start /\ u = bits
      BY <2>2 DEF MeasureStart
    <3> HIDE DEF a, u
    <3> QED
      BY <1>1, <1>3, <3>1
  <2> QED
    BY <2>1, <2>2
<1>5. flagged = IF fields[i].optional # "auto" THEN u ELSE Append(u, IF object[i].set THEN 1 ELSE 0)
  BY DEF FlagWritten
<1>6. Len(flagged) = q /\ flagged \in Seq({0, 1}) /\ CanSkip(i, q) /\ aligned \in Seq({0, 1}) /\ Len(aligned) = v
      /\ ValueWritten(i) = w \o x
      /\ r = IF ~IsPresent(object, i) THEN bits
             ELSE IF IsSet(object, i) THEN aligned \o ValueWritten(i) ELSE flagged
  BY WrittenIs DEF Written, ValueWritten
<1>7. aligned = PadTo(flagged, v)
  BY <1>1, <1>2, <1>3, <1>6, StartsAgree DEF AlignedToValue
<1>8. w \in Seq({0, 1}) /\ Len(w) = TagBits(i) /\ x \in Seq({0, 1}) /\ Len(x) = CaseBits(i, t)
  <2>1. t - 1 \in Int /\ TagBits(i) \in Nat
    BY <1>1, <1>3
  <2> HIDE DEF t
  <2> QED
    BY <1>1, <1>3, <2>1, BitsOfIs
<1> HIDE DEF start, a, q, v, t, u, flagged, aligned, w, x, r
<1>9. /\ \A k \in 1..a : flagged[k] = u[k]
      /\ fields[i].optional = "auto" => flagged[a + 1] = IF object[i].set THEN 1 ELSE 0
  BY <1>3, <1>4, <1>5
<1>10. (\A k \in 1..q : aligned[k] = flagged[k]) /\ (\A k \in (q + 1)..v : aligned[k] = 0)
  <2>1. /\ \A k \in 1..Len(flagged) : PadTo(flagged, v)[k] = flagged[k]
        /\ \A k \in (Len(flagged) + 1)..v : PadTo(flagged, v)[k] = 0
    BY <1>3, <1>6, PadToIs
  <2> QED
    BY <1>6, <1>7, <2>1
<1>11. /\ \A k \in 1..v : (aligned \o (w \o x))[k] = aligned[k]
       /\ \A k \in 1..TagBits(i) : (aligned \o (w \o x))[v + k] = w[k]
       /\ \A k \in 1..CaseBits(i, t) : (aligned \o (w \o x))[v + TagBits(i) + k] = x[k]
  <2> DEFINE y == w \o x
  <2>1. y \in Seq({0, 1}) /\ Len(y) = TagBits(i) + CaseBits(i, t)
        /\ (\A k \in 1..TagBits(i) : y[k] = w[k])
        /\ (\A k \in 1..CaseBits(i, t) : y[TagBits(i) + k] = x[k])
    <3>1. /\ w \o x \in Seq({0, 1}) /\ Len(w \o x) = Len(w) + Len(x)
          /\ \A k \in 1..Len(w) : (w \o x)[k] = w[k]
          /\ \A k \in 1..Len(x) : (w \o x)[Len(w) + k] = x[k]
      BY <1>8, Joined
    <3> HIDE DEF y
    <3>2. y = w \o x
      BY DEF y
    <3> QED
      BY <1>8, <3>1, <3>2
  <2> HIDE DEF y
  <2>2. /\ \A k \in 1..Len(aligned) : (aligned \o y)[k] = aligned[k]
        /\ \A k \in 1..Len(y) : (aligned \o y)[Len(aligned) + k] = y[k]
    BY <1>6, <2>1, Joined
  <2>3. \A k \in 1..TagBits(i) : k \in 1..Len(y)
    BY <1>3, <2>1
  <2>4. \A k \in 1..CaseBits(i, t) : TagBits(i) + k \in 1..Len(y) /\ v + TagBits(i) + k = v + (TagBits(i) + k)
    BY <1>3, <2>1
  <2>5. /\ \A k \in 1..v : (aligned \o y)[k] = aligned[k]
        /\ \A k \in 1..TagBits(i) : (aligned \o y)[v + k] = w[k]
        /\ \A k \in 1..CaseBits(i, t) : (aligned \o y)[v + TagBits(i) + k] = x[k]
    BY <1>6, <2>1, <2>2, <2>3, <2>4
  <2> QED
    BY <2>5 DEF y
<1>12. CASE ~IsPresent(object, i)
  BY <1>6, <1>12 DEF Coded, r, start
<1>13. CASE IsPresent(object, i)
  <2>1. /\ \A k \in 1..q : r[k] = flagged[k]
        /\ IsSet(object, i) =>
             /\ \A k \in (q + 1)..v : r[k] = 0
             /\ \A k \in 1..TagBits(i) : r[v + k] = w[k]
             /\ \A k \in 1..CaseBits(i, t) : r[v + TagBits(i) + k] = x[k]
    <3>1. CASE IsSet(object, i)
      <4>1. r = aligned \o (w \o x)
        BY <1>6, <1>13, <3>1
      <4>2. \A k \in 1..v : r[k] = aligned[k]
        BY <1>11, <4>1
      <4>3. (\A k \in 1..q : k \in 1..v) /\ (\A k \in (q + 1)..v : k \in 1..v)
        BY <1>3
      <4> QED
        BY <1>10, <1>11, <4>1, <4>2, <4>3
    <3>2. CASE ~IsSet(object, i)
      BY <1>6, <1>13, <3>2
    <3> QED
      BY <3>1, <3>2
  <2>2. (\A k \in 1..start : k \in 1..a /\ k \in 1..q) /\ (\A k \in (start + 1)..a : k \in 1..a /\ k \in 1..q)
    BY <1>1, <1>3
  <2>3. \A k \in 1..start : r[k] = bits[k]
    BY <1>4, <1>9, <2>1, <2>2
  <2>4. \A k \in (start + 1)..a : r[k] = 0
    BY <1>4, <1>9, <2>1, <2>2
  <2>5. fields[i].optional = "auto" => r[a + 1] = IF object[i].set THEN 1 ELSE 0
    <3>1. fields[i].optional = "auto" => a + 1 \in 1..q
      BY <1>3
    <3> QED
      BY <1>9, <2>1, <3>1
  <2> QED
    BY <2>1, <2>3, <2>4, <2>5 DEF Coded, start, a, q, v, t, w, x, r
<1> QED
  BY <1>12, <1>13

LEMMA MeaningsStay ==
  ASSUME fields' = fields
  PROVE  /\ \A o, i, s, p : Coded(o, i, s, p)' <=> Coded(o, i, s, p)
         /\ \A o, n : Contiguous(o, n)' <=> Contiguous(o, n)
         /\ \A o, w, i : Got(o, w, i)' <=> Got(o, w, i)
         /\ \A o, n, i : LeavesTrace(o, n, i)' <=> LeavesTrace(o, n, i)
         /\ \A o, n : IsObject(o, n)' <=> IsObject(o, n)
         /\ \A n : Preceding(n)' = Preceding(n)
         /\ Versions' = Versions
<1>1. \A o, i, p, n : /\ IsPresent(o, i)' <=> IsPresent(o, i)
                      /\ IsSet(o, i)' <=> IsSet(o, i)
                      /\ HasValue(o, i)' <=> HasValue(o, i)
                      /\ Empty(o, i)' <=> Empty(o, i)
                      /\ MeasureStart(i, p)' = MeasureStart(i, p)
                      /\ FlagEnd(i, p)' = FlagEnd(i, p)
                      /\ ValueStart(i, p)' = ValueStart(i, p)
                      /\ TagBits(i)' = TagBits(i)
                      /\ CaseBits(i, p)' = CaseBits(i, p)
                      /\ ValueBits(i, p)' = ValueBits(i, p)
                      /\ BitsOf(p, n)' = BitsOf(p, n)
                      /\ Extended(n)' = Extended(n)
  BY DEF IsPresent, IsSet, HasValue, Empty, Selected, MeasureStart, FlagEnd, ValueStart, TagBits, CaseBits,
         ValueBits, BitsOf, Extended
<1>2. \A o, i, s, p : Coded(o, i, s, p)' <=> Coded(o, i, s, p)
  BY <1>1 DEF Coded
<1>3. /\ \A o, n : Contiguous(o, n)' <=> Contiguous(o, n)
      /\ \A n : Preceding(n)' = Preceding(n)
      /\ \A o, n : IsObject(o, n)' <=> IsObject(o, n)
      /\ Versions' = Versions
  BY DEF Contiguous, Preceding, IsObject, Versions
<1>4. \A o, w, i : Got(o, w, i)' <=> Got(o, w, i)
  BY <1>1 DEF Got
<1>5. \A o, n, i : LeavesTrace(o, n, i)' <=> LeavesTrace(o, n, i)
  BY <1>1 DEF LeavesTrace
<1> QED
  BY <1>2, <1>3, <1>4, <1>5

LEMMA CodingWritten ==
  ASSUME PlainSchemas, Types, Layout, Coding, WriteField
  PROVE  Coding'
<1> DEFINE i == index + 1
           e == Ends(object, known)
<1>1. /\ operation = "write" /\ status = "busy" /\ UNCHANGED <<fields, known, object>>
  BY DEF WriteField, Busy
<1>2. i \in 1..known /\ fields \in Schemas /\ known \in 1..Len(fields)
      /\ IsObject(object, known) /\ index \in Nat /\ known \in Nat
  BY <1>1, AtWork DEF Types
<1>3. Len(bits) = e[index]
  BY <1>1 DEF Layout
<1>4. AreEnds(e, object, known) /\ \A k \in 0..known : e[k] \in Nat /\ \A j \in 0..k : e[j] =< e[k]
  BY <1>2, EndsAre
<1>5. \A k \in 1..index : Coded(object, k, bits, e[k - 1])
                          /\ (IsPresent(object, k) /\ IsSet(object, k) => InRange(object, k))
  BY <1>1 DEF Coding
<1>6. Ends(object, known)' = e
  BY <1>1, FieldsStay
<1> HIDE DEF e
<1>7. (\A k \in 1..Len(bits) : Written(i)[k] = bits[k]) /\ Coded(object, i, Written(i), Len(bits))
  BY <1>2, WrittenIsCoded
<1> DEFINE refused == IsPresent(object, i) /\ IsSet(object, i)
                      /\ (OutOfRange(i) \/ ~CanSkip(i, Len(FlagWritten(i))))
<1>8. \/ ~refused /\ index' = i /\ bits' = Written(i)
      \/ UNCHANGED <<index, bits>>
  BY DEF WriteField, Written, Continue
<1>9. ASSUME ~refused, index' = i, bits' = Written(i)
      PROVE  \A k \in 1..i : Coded(object, k, bits', e[k - 1])
                             /\ (IsPresent(object, k) /\ IsSet(object, k) => InRange(object, k))
  <2>1. ASSUME NEW k \in 1..index PROVE Coded(object, k, Written(i), e[k - 1])
    <3>1. k \in 1..known /\ k - 1 \in 0..known /\ k \in 0..index /\ index \in 0..known
      BY <1>2
    <3>2. e[k - 1] \in Nat /\ e[k] = End(object, k, e[k - 1]) /\ e[k] =< e[index] /\ e[k] \in Nat
          /\ e[index] \in Nat
      BY <1>4, <3>1 DEF AreEnds
    <3>3. \A x \in 1..End(object, k, e[k - 1]) : Written(i)[x] = bits[x]
      BY <1>3, <1>7, <3>2
    <3>4. Coded(object, k, bits, e[k - 1])
      BY <1>5
    <3> DEFINE pos == e[k - 1]
    <3>5. pos \in Nat /\ (\A x \in 1..End(object, k, pos) : Written(i)[x] = bits[x]) /\ Coded(object, k, bits, pos)
      BY <3>2, <3>3, <3>4
    <3> HIDE DEF pos, i
    <3>6. Coded(object, k, Written(i), pos)
      BY <1>2, <3>1, <3>5, CodedExtends
    <3> QED
      BY <3>6 DEF pos
  <2>2. Coded(object, i, Written(i), e[i - 1])
    <3>1. i - 1 = index
      BY <1>2
    <3> QED
      BY <1>3, <1>7, <3>1
  <2>3. IsPresent(object, i) /\ IsSet(object, i) => InRange(object, i)
    <3>1. CaseBits(i, object[i].tag) \in Nat /\ object[i].value \in Nat
      BY <1>2, FieldIs, CaseBitsIs
    <3>2. Pow2[CaseBits(i, object[i].tag)] \in Nat
      BY <3>1, Pow2Is
    <3> QED
      BY <1>9, <3>1, <3>2 DEF OutOfRange, InRange, Fits
  <2>4. \A k \in 1..i : k = i \/ k \in 1..index
    BY <1>2
  <2> HIDE DEF i
  <2> QED
    BY <1>5, <1>9, <2>1, <2>2, <2>3, <2>4
<1>10. \A k \in 1..index' : Coded(object, k, bits', e[k - 1])
                            /\ (IsPresent(object, k) /\ IsSet(object, k) => InRange(object, k))
  BY <1>5, <1>8, <1>9
<1>11. \A k \in 1..index' : /\ Coded(object, k, bits, Ends(object, known)[k - 1])'
                            /\ IsPresent(object, k)' /\ IsSet(object, k)' => InRange(object, k)'
  <2>1. \A k : Coded(object, k, bits, Ends(object, known)[k - 1])' <=> Coded(object, k, bits', e[k - 1])
    BY <1>1, <1>6, MeaningsStay
  <2>2. \A k : /\ IsPresent(object, k)' <=> IsPresent(object, k)
               /\ IsSet(object, k)' <=> IsSet(object, k)
               /\ InRange(object, k)' <=> InRange(object, k)
    BY <1>1, PredicatesStay
  <2> QED
    BY <1>10, <2>1, <2>2
<1> QED
  BY <1>11 DEF Coding

LEMMA ValidateFieldCounted ==
  ASSUME PlainSchemas, Types, GoodFields, Counted, ValidateField
  PROVE  Counted'
<1> DEFINE i == index + 1
           n == numExtendedFields + 1
           all(x) == \A j \in 1..x : fields[j].extended => object[j].present
           counts == fields[i].extended /\ object[i].present
           refused == /\ IsPresent(object, i)
                      /\ \/ counts /\ Gap(i, n)
                         \/ Mismatch(i)
                         \/ IsSet(object, i) /\ (WrongCase(i) \/ Violated(object, i) \/ OutOfRange(i))
<1>1. /\ operation = "validate" /\ operation' = operation /\ status = "busy"
      /\ UNCHANGED <<fields, known, object, sent>>
      /\ numExtendedFields' = IF counts THEN n ELSE numExtendedFields
  BY DEF ValidateField, Busy
<1>2. \/ ~refused /\ index' = i /\ status' \in {"busy", "done"}
      \/ refused /\ index' = index /\ status' = "thrown"
  BY DEF ValidateField, Continue
<1>3. i \in 1..known /\ index \in Nat /\ known \in Nat /\ object[i].set \in BOOLEAN
      /\ object[i].value \in Nat /\ CaseBits(i, object[i].tag) \in Nat
  BY <1>1, AtWork, FieldIs, CaseBitsIs
<1>4. /\ Preceding(index) \in Nat /\ Preceding(i) = Preceding(index) + (IF fields[i].extended THEN 1 ELSE 0)
      /\ numExtendedFields \in Nat /\ numExtendedFields =< Preceding(index)
  <2>1. index \in 0..Len(fields) /\ index < Len(fields) /\ fields \in Schemas
    BY <1>1, <1>3, AtWork
  <2>2. numExtendedFields \in Nat /\ numExtendedFields =< Preceding(index)
    BY <1>1 DEF Types
  <2> HIDE DEF i
  <2>3. i = index + 1
    BY DEF i
  <2> QED
    BY <2>1, <2>2, <2>3, PrecedingIs
<1>5. (numExtendedFields = Preceding(index) <=> all(index)) /\ Contiguous(object, index)
      /\ (sent # Nothing => Contiguous(object, known))
  BY <1>1 DEF Counted
<1>6. all(i) <=> all(index) /\ (fields[i].extended => object[i].present)
  <2>1. \A j \in 1..i : j = i \/ j \in 1..index
    BY <1>3
  <2>2. i \in 1..i /\ \A j \in 1..index : j \in 1..i
    BY <1>3
  <2> HIDE DEF i
  <2> QED
    BY <2>1, <2>2
<1> HIDE DEF all
<1>7. index' = i => (numExtendedFields' = Preceding(i) <=> all(i))
  <2> HIDE DEF i
  <2>1. CASE counts
    BY <1>1, <1>4, <1>5, <1>6, <2>1
  <2>2. CASE fields[i].extended /\ ~object[i].present
    BY <1>1, <1>4, <1>5, <1>6, <2>2
  <2>3. CASE ~fields[i].extended
    BY <1>1, <1>4, <1>5, <1>6, <2>3
  <2> QED
    BY <2>1, <2>2, <2>3
<1>8. ASSUME ~refused PROVE Contiguous(object, i)
  <2>1. counts => all(i)
    <3>1. counts => IsPresent(object, i)
      BY DEF IsPresent
    <3>2. counts => n = Preceding(i)
      BY <1>8, <3>1 DEF Gap
    <3>3. counts => numExtendedFields = Preceding(index)
      BY <1>4, <3>2
    <3> HIDE DEF i
    <3> QED
      BY <1>5, <1>6, <3>3
  <2>2. \A j \in 1..i : j = i \/ j \in 1..index
    BY <1>3
  <2>3. \A j \in 1..index : ~(i =< j)
    BY <1>3
  <2> HIDE DEF i
  <2>4. CASE counts
    BY <2>1, <2>4 DEF Contiguous, all
  <2>5. CASE ~counts
    BY <1>5, <2>2, <2>3, <2>5 DEF Contiguous
  <2> QED
    BY <2>4, <2>5
<1>9. ASSUME refused, sent # Nothing PROVE Leftover(i)
  <2>1. Good(object, i, FALSE, TRUE)
    <3>1. \A k \in 1..known : Good(object, k, FALSE, sent # Nothing)
      BY <1>1, <1>9 DEF GoodFields
    <3>2. \A k \in 1..known : Good(object, k, FALSE, TRUE)
      BY <1>9, <3>1 DEF Good
    <3> HIDE DEF i
    <3> QED
      BY <1>3, <3>2
  <2>2. ~(counts /\ Gap(i, n))
    <3>1. SUFFICES ASSUME counts PROVE n = Preceding(i)
      BY DEF Gap
    <3>2. all(index)
      <4>1. \A j \in 1..index : j \in 1..known /\ j =< i
        BY <1>3
      <4> HIDE DEF i
      <4> QED
        BY <1>3, <1>5, <1>9, <3>1, <4>1 DEF all, Contiguous
    <3> QED
      BY <1>4, <1>5, <3>1, <3>2
  <2>3. ~Mismatch(i)
    BY <1>3, <1>9, <2>1 DEF Mismatch, Good, IsUsed
  <2>4. IsPresent(object, i) /\ IsSet(object, i) /\ (WrongCase(i) \/ Violated(object, i) \/ OutOfRange(i))
    BY <1>9, <2>2, <2>3
  <2>5. InRange(object, i) /\ (Empty(object, i) \/ (RightCase(object, i) /\ ~Violated(object, i)))
    BY <2>1, <2>4 DEF Good
  <2>6. ~OutOfRange(i)
    <3>1. Pow2[CaseBits(i, object[i].tag)] \in Nat
      BY <1>3, Pow2Is
    <3> QED
      BY <1>3, <2>5, <3>1 DEF OutOfRange, InRange, Fits
  <2>7. Empty(object, i)
    BY <2>4, <2>5, <2>6 DEF WrongCase, RightCase
  <2> QED
    BY <1>9, <2>7 DEF Leftover, Empty
<1>10. (sent # Nothing)' <=> (sent # Nothing)
  BY <1>1 DEF Nothing
<1>11. /\ \A x : Contiguous(object, x)' <=> Contiguous(object, x)
       /\ \A x : Preceding(x)' = Preceding(x)
       /\ \A x : Leftover(x)' <=> Leftover(x)
  BY <1>1, <1>10, MeaningsStay DEF Leftover, Selected
<1> HIDE DEF i, n, counts, refused
<1>12. /\ status' # "thrown" => (numExtendedFields' = Preceding(index') <=> all(index'))
       /\ Contiguous(object, index')
       /\ sent # Nothing => Contiguous(object, known)
       /\ sent # Nothing /\ status' = "thrown" => \E k \in 1..known : Leftover(k)
  BY <1>2, <1>3, <1>5, <1>7, <1>8, <1>9
<1>13. Contiguous(object, index)' <=> Contiguous(object, index')
  BY <1>1 DEF Contiguous
<1>14. Preceding(index)' = Preceding(index')
  BY <1>1 DEF Preceding
<1> QED
  BY <1>1, <1>10, <1>11, <1>12, <1>13, <1>14 DEF Counted, all

\* What was read lacks extended fields at the end only.
LEMMA ReadContiguous ==
  ASSUME Types, Reading, Did("read")
  PROVE  Contiguous(object, known)
<1>1. PICK j \in 0..index : ReadTo(j)
  BY DEF Reading, Did
<1>2. index = known /\ known \in Nat /\ j \in Nat
  BY AtWork DEF Did, Types
<1>3. \A i \in 1..known : IF i =< j THEN object[i].present ELSE ~object[i].present
  BY <1>1, <1>2 DEF ReadTo, Got
<1> QED
  BY <1>2, <1>3 DEF Contiguous

LEMMA CountedNext ==
  ASSUME PlainSchemas, Types, GoodFields, Counted, Reading, [Next]_vars
  PROVE  Counted'
<1>1. CASE ValidateField
  BY <1>1, ValidateFieldCounted
<1>2. CASE InitializeOffsets
  <2>1. /\ operation' = "initializeOffsets" /\ UNCHANGED <<fields, known, object>>
        /\ operation = "validate" /\ index = known
    BY <1>2 DEF InitializeOffsets, Begin, Did, Types
  <2>2. Contiguous(object, known)
    BY <2>1 DEF Counted
  <2>3. Contiguous(object, known)'
    BY <2>1, <2>2 DEF Contiguous
  <2> QED
    BY <2>1, <2>3 DEF Counted
<1>3. CASE MeasureField
  <2> DEFINE i == index + 1
  <2>1. /\ operation \in {"bitSizeOf", "initializeOffsets"} /\ operation' = operation /\ status = "busy"
        /\ UNCHANGED <<fields, known, sent>>
        /\ object' = object \/ object' = SetOffset(i, endBitPosition)
    BY <1>3 DEF MeasureField
  <2>2. i \in 1..known /\ fields \in Schemas /\ known \in 1..Len(fields)
        /\ endBitPosition \in Nat /\ IsObject(object, known)
    BY <2>1, AtWork DEF Types
  <2> HIDE DEF i
  <2>3. \A k \in 1..known : object'[k].present = object[k].present
    <3>1. ASSUME NEW k \in 1..known PROVE object'[k].present = object[k].present
      <4>1. SetOffset(i, endBitPosition)[k] \in
               {object[k], [object[k] EXCEPT !.value = OffsetOf(i, endBitPosition)]}
        BY <2>2, SetOffsetIs
      <4>2. object[k] \in [present : BOOLEAN, set : BOOLEAN, value : Nat, tag : Nat]
        BY FieldIs DEF ObjectType
      <4> QED
        BY <2>1, <4>1, <4>2
    <3> QED
      BY <3>1
  <2>4. Contiguous(object, known) /\ (operation = "bitSizeOf" => sent # Nothing)
    BY <2>1 DEF Counted
  <2>5. Contiguous(object, known)'
    BY <2>1, <2>3, <2>4 DEF Contiguous
  <2> QED
    BY <2>1, <2>4, <2>5 DEF Counted, Nothing
<1>4. CASE Write
  <2>1. /\ operation' = "write" /\ UNCHANGED <<fields, known, object>>
        /\ operation \in {"initializeOffsets", "bitSizeOf"}
    BY <1>4 DEF Write, Begin, Did
  <2>2. Contiguous(object, known)
    BY <2>1 DEF Counted
  <2>3. Contiguous(object, known)'
    BY <2>1, <2>2 DEF Contiguous
  <2> QED
    BY <2>1, <2>3 DEF Counted
<1>5. CASE WriteField
  <2>1. operation = "write" /\ operation' = "write" /\ UNCHANGED <<fields, known, object>>
    BY <1>5 DEF WriteField, Busy
  <2>2. Contiguous(object, known)
    BY <2>1 DEF Counted
  <2>3. Contiguous(object, known)'
    BY <2>1, <2>2 DEF Contiguous
  <2> QED
    BY <2>1, <2>3 DEF Counted
<1>6. CASE \E n \in Versions, d \in Cuts, r \in BOOLEAN :
             \E target \in Targets(n) : Deserialize(n, target, d, r)
  BY <1>6 DEF Deserialize, Begin, Counted
<1>7. CASE ReadField
  BY <1>7 DEF ReadField, Busy, Counted
<1>8. CASE SerializeView
  <2>1. /\ operation' = "validate" /\ index' = 0 /\ numExtendedFields' = 0 /\ status' = "busy"
        /\ UNCHANGED <<fields, known, object, sent>>
    BY <1>8 DEF SerializeView, Begin
  <2>2. Contiguous(object, known)
    BY <1>8, ReadContiguous DEF SerializeView
  <2>3. Contiguous(object, known)' /\ Contiguous(object, index)'
    BY <2>1, <2>2 DEF Contiguous
  <2>4. Preceding(index)' = 0
    <3>1. 0 \in 0..Len(fields) /\ fields \in Schemas
      BY AtWork
    <3>2. Preceding(0) = 0
      BY <3>1, PrecedingIs
    <3> QED
      BY <2>1, <3>2 DEF Preceding
  <2> QED
    BY <2>1, <2>3, <2>4 DEF Counted
<1>9. CASE SerializeDataView
  <2>1. /\ operation' = "bitSizeOf" /\ UNCHANGED <<fields, known, object, sent>> /\ operation = "read"
    BY <1>9 DEF SerializeDataView, Begin, Did
  <2>2. Contiguous(object, known)
    BY <1>9, ReadContiguous DEF SerializeDataView
  <2>3. Contiguous(object, known)'
    BY <2>1, <2>2 DEF Contiguous
  <2>4. (sent # Nothing)'
    BY <2>1 DEF GoodFields, Nothing
  <2> QED
    BY <2>1, <2>3, <2>4 DEF Counted
<1>10. CASE UNCHANGED vars
  <2>1. UNCHANGED <<fields, known, object, operation, status, index, sent, numExtendedFields>>
        /\ ((sent # Nothing)' <=> (sent # Nothing))
    BY <1>10 DEF vars, Nothing
  <2>2. (Contiguous(object, index)' <=> Contiguous(object, index))
        /\ (Contiguous(object, known)' <=> Contiguous(object, known))
        /\ Preceding(index)' = Preceding(index)
        /\ (\A i : Leftover(i)' <=> Leftover(i))
    BY <2>1 DEF Contiguous, Preceding, Leftover, Selected
  <2> QED
    BY <2>1, <2>2 DEF Counted
<1> QED
  BY <1>1, <1>2, <1>3, <1>4, <1>5, <1>6, <1>7, <1>8, <1>9, <1>10 DEF Next

LEMMA CodingNext ==
  ASSUME PlainSchemas, Types, Layout, Coding, [Next]_vars
  PROVE  Coding'
<1>1. CASE WriteField
  BY <1>1, CodingWritten
<1>2. CASE Write
  BY <1>2 DEF Write, Begin, Coding
<1>3. CASE UNCHANGED vars
  <2>1. UNCHANGED <<fields, known, object, operation, index, bits>>
    BY <1>3 DEF vars
  <2>2. \A k : Coded(object, k, bits, Ends(object, known)[k - 1])'
               <=> Coded(object, k, bits, Ends(object, known)[k - 1])
    BY <2>1, MeaningsStay, FieldsStay
  <2>3. \A k : /\ IsPresent(object, k)' <=> IsPresent(object, k)
               /\ IsSet(object, k)' <=> IsSet(object, k)
               /\ InRange(object, k)' <=> InRange(object, k)
    BY <2>1, PredicatesStay
  <2> QED
    BY <2>1, <2>2, <2>3 DEF Coding
<1>4. ASSUME operation' # "write" PROVE Coding'
  BY <1>4 DEF Coding
<1>5. CASE \/ ValidateField \/ InitializeOffsets \/ MeasureField \/ ReadField \/ SerializeView
           \/ SerializeDataView
           \/ \E n \in Versions, d \in Cuts, r \in BOOLEAN :
                \E target \in Targets(n) : Deserialize(n, target, d, r)
  <2>1. operation' # "write"
    BY <1>5 DEF ValidateField, InitializeOffsets, MeasureField, ReadField, SerializeView, SerializeDataView,
                Deserialize, Busy, Begin
  <2> QED
    BY <1>4, <2>1
<1> QED
  BY <1>1, <1>2, <1>3, <1>5 DEF Next

LEMMA AlignToByte ==
  /\ \A p \in Nat : AlignTo(8, p) \in Nat /\ p =< AlignTo(8, p) /\ AlignTo(8, p) % 8 = 0
                    /\ \A q \in Nat : p =< AlignTo(8, q) => AlignTo(8, p) =< AlignTo(8, q)
  /\ \A p \in Nat, a \in {0, 1, 2, 4, 8} : p % 8 = 0 => AlignTo(a, p) = p
<1>1. ASSUME NEW p \in Nat
      PROVE  AlignTo(8, p) \in Nat /\ p =< AlignTo(8, p) /\ AlignTo(8, p) % 8 = 0 /\ AlignTo(8, p) < p + 8
  <2>1. 8 \in Nat /\ 8 # 0
    OBVIOUS
  <2> QED
    BY <2>1, AlignToIs
<1>2. ASSUME NEW p \in Nat, NEW q \in Nat, p =< AlignTo(8, q) PROVE AlignTo(8, p) =< AlignTo(8, q)
  <2> DEFINE x == AlignTo(8, p)
             y == AlignTo(8, q)
  <2>1. x \in Nat /\ x % 8 = 0 /\ x < p + 8 /\ y \in Nat /\ y % 8 = 0 /\ p =< y
    BY <1>1, <1>2
  <2> HIDE DEF x, y
  <2>2. x =< y
    BY <2>1
  <2> QED
    BY <2>2 DEF x, y
<1>3. ASSUME NEW p \in Nat, NEW a \in {0, 1, 2, 4, 8}, p % 8 = 0 PROVE AlignTo(a, p) = p
  <2>1. a \in Nat
    OBVIOUS
  <2> DEFINE x == AlignTo(a, p)
  <2>2. x \in Nat /\ p =< x /\ (a = 0 => x = p) /\ (a # 0 => x < p + a /\ x % a = 0)
    BY <2>1, AlignToIs
  <2> HIDE DEF x
  <2>3. CASE a = 0
    BY <2>2, <2>3 DEF x
  <2>4. CASE a = 1
    BY <2>2, <2>4 DEF x
  <2>5. CASE a = 2
    <3>1. x < p + 2 /\ x % 2 = 0
      BY <2>2, <2>5
    <3> QED
      BY <1>3, <2>2, <3>1 DEF x
  <2>6. CASE a = 4
    <3>1. x < p + 4 /\ x % 4 = 0
      BY <2>2, <2>6
    <3> QED
      BY <1>3, <2>2, <3>1 DEF x
  <2>7. CASE a = 8
    <3>1. x < p + 8 /\ x % 8 = 0
      BY <2>2, <2>7
    <3> QED
      BY <1>3, <2>2, <3>1 DEF x
  <2> QED
    BY <2>3, <2>4, <2>5, <2>6, <2>7
<1> QED
  BY <1>1, <1>2, <1>3

\* An extended field without a trace takes no bit behind the byte that it starts at.
LEMMA Traceless ==
  ASSUME PlainSchemas, fields \in Schemas, NEW m \in 1..Len(fields), NEW w, IsObject(w, m),
         NEW j \in 1..m, fields[j].extended, NEW p \in Nat, IsPresent(w, j),
         IsSet(w, j) => RightCase(w, j), ~(fields[j].optional = "auto"), ~(IsSet(w, j) /\ ValueBits(j, w[j].tag) > 0)
  PROVE  /\ FlagEnd(j, MeasureStart(j, p)) = AlignTo(8, p) /\ MeasureStart(j, p) = AlignTo(8, p)
         /\ IsSet(w, j) => /\ ValueStart(j, AlignTo(8, p)) = AlignTo(8, p)
                           /\ TagBits(j) = 0 /\ CaseBits(j, w[j].tag) = 0
         /\ End(w, j, p) = AlignTo(8, p)
<1>1. j \in 1..Len(fields) /\ m \in Nat
  BY FieldTypes
<1> DEFINE a == AlignTo(8, p)
           t == w[j].tag
<1>2. a \in Nat /\ a % 8 = 0
  BY AlignToByte
<1>3. FlagEnd(j, MeasureStart(j, p)) = a /\ MeasureStart(j, p) = a
  BY DEF FlagEnd, MeasureStart
<1>4. t \in 0..Len(fields[j].cases) /\ TagBits(j) \in {0, 8} /\ CaseBits(j, t) \in Nat
      /\ ValueBits(j, t) = TagBits(j) + CaseBits(j, t)
  <2>1. t \in 0..Len(fields[j].cases) /\ TagBits(j) \in {0, 8} /\ CaseBits(j, t) \in Nat
    BY PartsAre
  <2> QED
    BY <2>1 DEF ValueBits
<1>5. IsSet(w, j) => TagBits(j) = 0 /\ CaseBits(j, t) = 0
  BY <1>4
<1>6. IsSet(w, j) => ~TakesBits(fields[j])
  <2> SUFFICES ASSUME IsSet(w, j), TakesBits(fields[j]) PROVE FALSE
    OBVIOUS
  <2>1. fields[j].kind # "union"
    BY <1>5 DEF TagBits
  <2>2. ~(fields[j].kind = "number" /\ fields[j].bits > 0)
    <3>1. fields[j].bits \in Nat
      BY <1>1, FieldTypes
    <3> QED
      BY <1>5, <3>1 DEF CaseBits
  <2>3. fields[j].kind = "choice" /\ (\A k \in 1..Len(fields[j].cases) : fields[j].cases[k] > 0)
        /\ (\A v \in 1..Len(fields[j].select) : fields[j].select[v] > 0)
    BY <2>1, <2>2 DEF TakesBits
  <2>4. t = Selected(w, j)
    BY <2>3 DEF RightCase
  <2>5. w[fields[j].selector].value \in Nat /\ fields[j].select \in Seq(Nat)
    <3>1. fields[j].selector \in 1..(j - 1)
      BY <1>1, <2>3, RefersTo
    <3>2. fields[j].selector \in 1..m
      BY <1>1, <3>1
    <3> QED
      BY <1>1, <3>2, FieldTypes DEF IsObject, ObjectType
  <2>6. t # 0
    <3> DEFINE x == w[fields[j].selector].value
    <3> HIDE DEF x
    <3>1. CASE x < Len(fields[j].select)
      <4>1. x + 1 \in 1..Len(fields[j].select)
        BY <2>5, <3>1 DEF x
      <4>2. Selected(w, j) = fields[j].select[x + 1]
        BY <3>1 DEF Selected, x
      <4>3. fields[j].select[x + 1] > 0 /\ fields[j].select[x + 1] \in Nat
        BY <2>3, <2>5, <4>1
      <4> QED
        BY <2>4, <4>2, <4>3
    <3>2. CASE ~(x < Len(fields[j].select))
      BY <2>4, <3>2 DEF Selected, NoMatch, x
    <3> QED
      BY <3>1, <3>2
  <2>7. CaseBits(j, t) = fields[j].cases[t]
    BY <2>3, <2>6 DEF CaseBits
  <2>8. t \in 1..Len(fields[j].cases)
    <3>1. Len(fields[j].cases) \in Nat
      BY <1>1, FieldTypes
    <3> QED
      BY <1>4, <2>6, <3>1
  <2>9. fields[j].cases[t] > 0
    BY <2>3, <2>8
  <2> QED
    BY <1>4, <1>5, <2>7, <2>9
<1>7. IsSet(w, j) => ValueStart(j, a) = a
  <2> SUFFICES ASSUME IsSet(w, j) PROVE ValueStart(j, a) = a
    OBVIOUS
  <2>1. fields[j].alignment \in {0, 1, 2, 4, 8}
    BY <1>1, <1>6 DEF PlainSchemas, Plain
  <2>2. AlignTo(fields[j].alignment, a) = a /\ AlignTo(8, a) = a
    <3> HIDE DEF a
    <3> QED
      BY <1>2, <2>1, AlignToByte
  <2> HIDE DEF a
  <2> QED
    BY <2>2 DEF ValueStart
<1>8. End(w, j, p) = a
  <2> HIDE DEF a, t
  <2>1. End(w, j, p) = IF IsSet(w, j) THEN ValueStart(j, a) + ValueBits(j, t) ELSE a
    BY <1>3 DEF End, t
  <2>2. IsSet(w, j) => ValueBits(j, t) = 0
    BY <1>4, <1>5
  <2>3. a + 0 = a
    BY <1>2
  <2> QED
    BY <1>7, <2>1, <2>2, <2>3
<1> QED
  BY <1>3, <1>5, <1>7, <1>8

\* An extended field that leaves a trace ends behind the byte that it starts at.
LEMMA Traced ==
  ASSUME fields \in Schemas, NEW m \in 1..Len(fields), NEW w, IsObject(w, m),
         NEW j \in 1..m, fields[j].extended, NEW p \in Nat, IsPresent(w, j),
         fields[j].optional = "auto" \/ (IsSet(w, j) /\ ValueBits(j, w[j].tag) > 0)
  PROVE  AlignTo(8, p) \in Nat /\ AlignTo(8, p) < End(w, j, p)
<1> DEFINE a == MeasureStart(j, p)
           q == FlagEnd(j, a)
           v == ValueStart(j, q)
<1>1. /\ a \in Nat /\ p =< a /\ q \in Nat /\ a =< q /\ v \in Nat /\ q =< v
      /\ fields[j].optional = "auto" => q = a + 1
      /\ TagBits(j) \in {0, 8} /\ CaseBits(j, w[j].tag) \in Nat
  BY PartsAre
<1>2. a = AlignTo(8, p)
  BY DEF MeasureStart
<1>3. End(w, j, p) = IF IsSet(w, j) THEN v + ValueBits(j, w[j].tag) ELSE q
  BY DEF End
<1>4. ValueBits(j, w[j].tag) \in Nat
  BY <1>1 DEF ValueBits
<1> HIDE DEF a, q, v
<1>5. End(w, j, p) > a
  BY <1>1, <1>3, <1>4
<1> QED
  BY <1>1, <1>2, <1>5

\* The reader finds another extended field in the buffer where there is a trace of one.
LEMMA TraceIsSeen ==
  ASSUME PlainSchemas, fields \in Schemas, NEW m \in 1..Len(fields), NEW w, IsObject(w, m),
         \A j \in 1..m : IsPresent(w, j) /\ IsSet(w, j) => RightCase(w, j),
         NEW b \in 1..m, fields[b].extended
  PROVE  LeavesTrace(w, m, b) <=> AlignTo(8, Ends(w, m)[b - 1]) < Ends(w, m)[m]
<1> DEFINE e == Ends(w, m)
           start == e[b - 1]
           top == AlignTo(8, start)
<1>1. m \in Nat /\ b \in Nat /\ b - 1 \in 0..m /\ m \in 0..m /\ Len(fields) \in Nat
  BY FieldTypes
<1>2. AreEnds(e, w, m) /\ \A k \in 0..m : e[k] \in Nat /\ \A j \in 0..k : e[j] =< e[k]
  BY EndsAre
<1>3. \A j \in 1..m : e[j] = End(w, j, e[j - 1]) /\ e[j - 1] \in Nat
  BY <1>1, <1>2 DEF AreEnds
<1> HIDE DEF e
<1>4. start \in Nat /\ top \in Nat /\ start =< top /\ top % 8 = 0
  <2>1. start \in Nat
    BY <1>1, <1>2
  <2> HIDE DEF start
  <2> QED
    BY <2>1, AlignToByte
<1> HIDE DEF start, top
<1>5. ASSUME LeavesTrace(w, m, b) PROVE top < e[m]
  <2>1. PICK j \in Extended(m) :
          /\ j >= b /\ w[j].present
          /\ fields[j].optional = "auto" \/ (IsSet(w, j) /\ ValueBits(j, w[j].tag) > 0)
    BY <1>5 DEF LeavesTrace
  <2>2. j \in 1..m /\ fields[j].extended /\ j \in 0..m /\ j - 1 \in 0..m /\ j - 1 >= b - 1 /\ j \in Nat
    BY <1>1, <2>1 DEF Extended
  <2> DEFINE p == e[j - 1]
  <2>3. p \in Nat /\ start =< p /\ e[j] = End(w, j, p) /\ e[j] \in Nat /\ e[j] =< e[m] /\ e[m] \in Nat
    <3>1. b - 1 \in 0..(j - 1)
      BY <1>1, <2>2
    <3> QED
      BY <1>1, <1>2, <1>3, <2>2, <3>1 DEF start
  <2> HIDE DEF p
  <2>4. IsPresent(w, j)
    BY <2>1 DEF IsPresent
  <2>5. AlignTo(8, p) \in Nat /\ AlignTo(8, p) < e[j]
    BY <2>1, <2>2, <2>3, <2>4, Traced
  <2>6. top =< AlignTo(8, p)
    <3>1. start =< AlignTo(8, p)
      <4>1. p =< AlignTo(8, p)
        BY <2>3, AlignToByte
      <4> QED
        BY <1>4, <2>3, <2>5, <4>1
    <3> QED
      BY <1>4, <2>3, <3>1, AlignToByte DEF top
  <2> QED
    BY <1>4, <2>3, <2>5, <2>6
<1>6. ASSUME ~LeavesTrace(w, m, b) PROVE e[m] =< top
  <2> DEFINE T == {k \in Nat : b - 1 + k =< m => e[b - 1 + k] =< top}
  <2>1. 0 \in T
    <3>1. b - 1 + 0 = b - 1
      BY <1>1
    <3> QED
      BY <1>4, <3>1 DEF start
  <2>2. \A k \in T : k + 1 \in T
    <3>1. ASSUME NEW k \in T, b - 1 + (k + 1) =< m PROVE e[b - 1 + (k + 1)] =< top
      <4> DEFINE j == b + k
                 p == e[j - 1]
      <4>1. j \in 1..m /\ b - 1 + (k + 1) = j /\ b - 1 + k = j - 1 /\ b - 1 + k =< m /\ j >= b /\ k \in Nat
        BY <1>1, <3>1
      <4>2. p =< top /\ p \in Nat /\ e[j] = End(w, j, p)
        BY <1>3, <4>1
      <4>3. fields[j].extended
        <5>1. b \in 1..Len(fields) /\ j \in 1..Len(fields) /\ b =< j
          BY <1>1, <4>1
        <5> HIDE DEF j
        <5> QED
          BY <5>1 DEF PlainSchemas, Plain
      <4>4. w[j].present => fields[j].optional # "auto" /\ ~(IsSet(w, j) /\ ValueBits(j, w[j].tag) > 0)
        BY <1>6, <4>1, <4>3 DEF LeavesTrace, Extended
      <4> HIDE DEF p, j
      <4>5. CASE ~w[j].present
        <5>1. End(w, j, p) = p
          BY <4>3, <4>5 DEF End, IsPresent
        <5> QED
          BY <4>1, <4>2, <5>1
      <4>6. CASE w[j].present
        <5>1. IsPresent(w, j)
          BY <4>6 DEF IsPresent
        <5>2. End(w, j, p) = AlignTo(8, p)
          BY <4>1, <4>2, <4>3, <4>4, <4>6, <5>1, Traceless
        <5>3. AlignTo(8, p) =< top
          BY <1>4, <4>2, AlignToByte DEF top
        <5> QED
          BY <4>1, <4>2, <5>2, <5>3
      <4> QED
        BY <4>5, <4>6
    <3> QED
      BY <3>1
  <2> HIDE DEF T
  <2>3. T = Nat
    <3>1. T \subseteq Nat
      BY DEF T
    <3> QED
      BY <2>1, <2>2, <3>1, Array!SetInduction
  <2>4. m - (b - 1) \in T
    BY <1>1, <2>3
  <2>5. b - 1 + (m - (b - 1)) = m
    BY <1>1
  <2> QED
    BY <1>1, <2>4, <2>5 DEF T
<1>7. e[m] \in Nat
  BY <1>1, <1>2
<1> QED
  BY <1>4, <1>5, <1>6, <1>7 DEF e, start, top

LEMMA DeserializeSent ==
  ASSUME PlainSchemas, Types, GoodFields, Layout, Counted, Coding,
         NEW n \in Versions, NEW d \in Cuts, NEW r \in BOOLEAN, NEW target \in Targets(n),
         Deserialize(n, target, d, r)
  PROVE  Sent'
<1> DEFINE e == Ends(object, known)
           size == IF r THEN AlignTo(8, bitSize) ELSE bitSize
           whole == PadTo(bits, size)
<1>1. /\ operation = "write" /\ status = "done" /\ sent = Nothing /\ d =< Len(bits) /\ fields' = fields
      /\ buffer' = SubSeq(whole, 1, Len(whole) - d)
      /\ sent' = [known |-> known, object |-> object, bits |-> bits, cut |-> d]
  BY DEF Deserialize, Did
<1>2. sent'.known = known /\ sent'.object = object /\ sent'.bits = bits /\ sent'.cut = d
  BY <1>1
<1>3. fields \in Schemas /\ known \in Versions /\ known \in 1..Len(fields) /\ known \in Nat /\ index = known
      /\ IsObject(object, known) /\ bits \in Seq({0, 1}) /\ Len(bits) \in Nat /\ bitSize \in Nat
      /\ d \in Nat
  BY <1>1, AtWork, CutsAssumption DEF Types
<1>4. e[known] = bitSize /\ Len(bits) = bitSize
  BY <1>1, <1>3 DEF Layout
<1>5. ASSUME NEW i \in 1..known
      PROVE  /\ Good(object, i, IsOffset(i, known), FALSE)
             /\ IsPresent(object, i) /\ IsSet(object, i) => InRange(object, i)
             /\ Coded(object, i, bits, e[i - 1])
  <2>1. Good(object, i, IsOffset(i, known), sent # Nothing)
    BY <1>1 DEF GoodFields
  <2>2. Good(object, i, IsOffset(i, known), FALSE)
    BY <1>1, <2>1 DEF Good
  <2> QED
    BY <1>1, <1>3, <2>2 DEF Coding
<1>6. Contiguous(object, known)
  BY <1>1 DEF Counted
<1>7. size \in Nat /\ bitSize =< size /\ size =< AlignTo(8, bitSize) /\ AlignTo(8, bitSize) \in Nat
  <2>1. AlignTo(8, bitSize) \in Nat /\ bitSize =< AlignTo(8, bitSize)
    BY <1>3, AlignToByte
  <2> QED
    BY <1>3, <2>1
<1> HIDE DEF size
<1>8. /\ whole \in Seq({0, 1}) /\ Len(whole) = size
      /\ \A k \in 1..bitSize : whole[k] = bits[k]
  <2>1. /\ PadTo(bits, size) \in Seq({0, 1})
        /\ Len(PadTo(bits, size)) = IF size > Len(bits) THEN size ELSE Len(bits)
        /\ \A k \in 1..Len(bits) : PadTo(bits, size)[k] = bits[k]
    BY <1>3, <1>7, PadToIs
  <2> HIDE DEF whole
  <2>2. whole = PadTo(bits, size)
    BY DEF whole
  <2> QED
    BY <1>3, <1>4, <1>7, <2>1, <2>2
<1> HIDE DEF whole, e
<1>9. /\ Len(buffer') = size - d
      /\ \A k \in 1..Len(buffer') : buffer'[k] = whole[k]
  BY <1>1, <1>3, <1>4, <1>7, <1>8
<1>10. /\ Len(buffer') =< AlignTo(8, e[known]) /\ (d = 0 => e[known] =< Len(buffer'))
       /\ \A k \in 1..Len(buffer') : k =< e[known] => buffer'[k] = bits[k]
  BY <1>3, <1>4, <1>7, <1>8, <1>9
<1>11. /\ \A o, i, s, p : Coded(o, i, s, p)' <=> Coded(o, i, s, p)
       /\ \A o, x : Contiguous(o, x)' <=> Contiguous(o, x)
       /\ \A o, x : IsObject(o, x)' <=> IsObject(o, x)
       /\ \A o, x : Ends(o, x)' = Ends(o, x)
       /\ Versions' = Versions
  BY <1>1, MeaningsStay, FieldsStay
<1>12. \A o, i : /\ IsPresent(o, i)' <=> IsPresent(o, i)
                 /\ IsSet(o, i)' <=> IsSet(o, i)
                 /\ InRange(o, i)' <=> InRange(o, i)
  BY <1>1, PredicatesStay
<1>13. \A o, i, m : Good(o, i, IsOffset(i, m), FALSE)' <=> Good(o, i, IsOffset(i, m), FALSE)
  BY <1>1, PredicatesStay DEF Good
<1> DEFINE was == sent.object
           m == sent.known
           g == Ends(was, m)
<1>14. (m \in Versions /\ IsObject(was, m) /\ sent.cut \in Nat /\ sent.bits \in Seq({0, 1}))'
  BY <1>2, <1>3, <1>11
<1>15. (\A i \in 1..m : /\ Good(was, i, IsOffset(i, m), FALSE)
                        /\ IsPresent(was, i) /\ IsSet(was, i) => InRange(was, i)
                        /\ Coded(was, i, sent.bits, g[i - 1]))'
  <2>1. g' = e
    BY <1>2, <1>11 DEF e
  <2>2. \A i \in 1..known : /\ Good(was, i, IsOffset(i, m), FALSE)'
                            /\ (IsPresent(was, i) /\ IsSet(was, i) => InRange(was, i))'
                            /\ Coded(was, i, sent.bits, g[i - 1])'
    BY <1>2, <1>5, <1>11, <1>12, <1>13, <2>1
  <2> QED
    BY <1>2, <2>2
<1>16. (Contiguous(was, m) /\ Len(sent.bits) = g[m])'
  BY <1>2, <1>4, <1>6, <1>11 DEF e
<1>17. (/\ Len(buffer) =< AlignTo(8, g[m]) /\ (sent.cut = 0 => g[m] =< Len(buffer))
        /\ \A k \in 1..Len(buffer) : k =< g[m] => buffer[k] = sent.bits[k])'
  <2>1. g' = e /\ m' = known
    BY <1>2, <1>11 DEF e
  <2>2. \A p : AlignTo(8, p)' = AlignTo(8, p)
    OBVIOUS
  <2> QED
    BY <1>2, <1>10, <2>1, <2>2
<1> QED
  BY <1>14, <1>15, <1>16, <1>17 DEF Sent

\* The other steps leave what was sent alone.
LEMMA SentStays ==
  ASSUME Sent, UNCHANGED <<fields, sent, buffer>>
  PROVE  Sent'
<1> DEFINE was == sent.object
           m == sent.known
           g == Ends(was, m)
<1>1. /\ \A o, i, s, p : Coded(o, i, s, p)' <=> Coded(o, i, s, p)
      /\ \A o, x : Contiguous(o, x)' <=> Contiguous(o, x)
      /\ \A o, x : IsObject(o, x)' <=> IsObject(o, x)
      /\ \A o, x : Ends(o, x)' = Ends(o, x)
      /\ Versions' = Versions
  BY MeaningsStay, FieldsStay
<1>2. \A o, i : /\ IsPresent(o, i)' <=> IsPresent(o, i)
                /\ IsSet(o, i)' <=> IsSet(o, i)
                /\ InRange(o, i)' <=> InRange(o, i)
  BY PredicatesStay
<1>3. \A o, i, x : Good(o, i, IsOffset(i, x), FALSE)' <=> Good(o, i, IsOffset(i, x), FALSE)
  BY PredicatesStay DEF Good
<1>4. (sent # Nothing)' <=> (sent # Nothing)
  BY DEF Nothing
<1>5. CASE sent = Nothing
  BY <1>4, <1>5 DEF Sent
<1>6. CASE sent # Nothing
  <2>1. (m \in Versions /\ IsObject(was, m) /\ sent.cut \in Nat /\ sent.bits \in Seq({0, 1}))'
    BY <1>1, <1>6 DEF Sent
  <2>2. g' = g
    BY <1>1
  <2>3. (\A i \in 1..m : /\ Good(was, i, IsOffset(i, m), FALSE)
                         /\ IsPresent(was, i) /\ IsSet(was, i) => InRange(was, i)
                         /\ Coded(was, i, sent.bits, g[i - 1]))'
    <3>1. \A i \in 1..m : /\ Good(was, i, IsOffset(i, m), FALSE)'
                          /\ (IsPresent(was, i) /\ IsSet(was, i) => InRange(was, i))'
                          /\ Coded(was, i, sent.bits, g[i - 1])'
      BY <1>1, <1>2, <1>3, <1>6, <2>2 DEF Sent
    <3> QED
      BY <3>1
  <2>4. (Contiguous(was, m) /\ Len(sent.bits) = g[m])'
    BY <1>1, <1>6, <2>2 DEF Sent
  <2>5. (/\ Len(buffer) =< AlignTo(8, g[m]) /\ (sent.cut = 0 => g[m] =< Len(buffer))
         /\ \A k \in 1..Len(buffer) : k =< g[m] => buffer[k] = sent.bits[k])'
    <3>1. \A p : AlignTo(8, p)' = AlignTo(8, p)
      OBVIOUS
    <3> QED
      BY <1>6, <2>2, <3>1 DEF Sent
  <2> QED
    BY <2>1, <2>3, <2>4, <2>5 DEF Sent
<1> QED
  BY <1>5, <1>6

LEMMA SentNext ==
  ASSUME PlainSchemas, Types, GoodFields, Layout, Counted, Coding, Sent, [Next]_vars
  PROVE  Sent'
<1>1. CASE \E n \in Versions, d \in Cuts, r \in BOOLEAN :
             \E target \in Targets(n) : Deserialize(n, target, d, r)
  BY <1>1, DeserializeSent
<1>2. CASE \/ ValidateField \/ InitializeOffsets \/ MeasureField \/ Write \/ WriteField \/ ReadField
           \/ SerializeView \/ SerializeDataView \/ UNCHANGED vars
  <2>1. UNCHANGED <<fields, sent, buffer>>
    BY <1>2 DEF ValidateField, InitializeOffsets, MeasureField, Write, WriteField, ReadField, SerializeView,
                SerializeDataView, vars
  <2> QED
    BY <2>1, SentStays
<1> QED
  BY <1>1, <1>2 DEF Next

-------------------------------------------------------------------------------
(* One field arrives.                                                      *)

\* read is at a field that was sent, and all of the fields before it have arrived.
Arriving ==
  /\ Types /\ GoodFields /\ Sent
  /\ operation = "read" /\ status = "busy"
  /\ ReadTo(index) /\ index < sent.known

LEMMA ArrivingIs ==
  ASSUME PlainSchemas, Arriving
  PROVE  LET i == index + 1
             w == sent.object
             m == sent.known
             e == Ends(w, m)
         IN  /\ fields \in Schemas /\ m \in 1..Len(fields) /\ IsObject(w, m) /\ i \in 1..m /\ i \in 1..known
             /\ i \in 1..Len(fields) /\ m \in Nat /\ index \in Nat
             /\ bitPosition \in Nat /\ bitPosition = e[index] /\ e[i] = End(w, i, bitPosition)
             /\ e[i] \in Nat /\ e[m] \in Nat /\ e[i] =< e[m] /\ bitPosition =< e[i]
             /\ Coded(w, i, sent.bits, bitPosition) /\ Good(w, i, IsOffset(i, m), FALSE)
             /\ IsPresent(w, i) /\ IsSet(w, i) => InRange(w, i)
             /\ buffer \in Seq({0, 1}) /\ Len(buffer) \in Nat
             /\ \A k \in 1..Len(buffer) : k =< e[i] => buffer[k] = sent.bits[k]
             /\ sent.cut = 0 => e[m] =< Len(buffer)
             /\ fields[i].optional = "clause" => (IsUsed(object, i) <=> IsUsed(w, i))
             /\ fields[i].kind = "choice" => Selected(object, i) = Selected(w, i)
<1> DEFINE i == index + 1
           w == sent.object
           m == sent.known
           e == Ends(w, m)
<1>1. sent # Nothing
  BY DEF Arriving, GoodFields
<1>2. fields \in Schemas /\ m \in Versions /\ m \in 1..Len(fields) /\ m \in Nat /\ IsObject(w, m)
      /\ buffer \in Seq({0, 1}) /\ Len(buffer) \in Nat /\ Len(fields) \in Nat
  <2>1. fields \in Schemas /\ m \in Versions /\ IsObject(w, m) /\ buffer \in Seq({0, 1}) /\ Len(fields) \in Nat
    BY <1>1, AtWork DEF Arriving, Sent, Types
  <2> HIDE DEF m
  <2> QED
    BY <2>1, VersionsAre
<1>3. i \in 1..known /\ index \in Nat /\ i \in 1..m /\ i \in 1..Len(fields)
  <2>1. i \in 1..known /\ index \in Nat
    BY AtWork DEF Arriving
  <2>2. index < m
    BY DEF Arriving
  <2> QED
    BY <1>2, <2>1, <2>2
<1>4. AreEnds(e, w, m) /\ \A k \in 0..m : e[k] \in Nat /\ \A j \in 0..k : e[j] =< e[k]
  <2> HIDE DEF w, m
  <2> QED
    BY <1>2, EndsAre
<1>5. bitPosition = e[index]
  BY DEF Arriving, ReadTo
<1>6. /\ \A k \in 1..m : /\ Good(w, k, IsOffset(k, m), FALSE)
                         /\ IsPresent(w, k) /\ IsSet(w, k) => InRange(w, k)
                         /\ Coded(w, k, sent.bits, e[k - 1])
      /\ sent.cut = 0 => e[m] =< Len(buffer)
      /\ \A k \in 1..Len(buffer) : k =< e[m] => buffer[k] = sent.bits[k]
  BY <1>1 DEF Arriving, Sent
<1>7. \A k \in 1..index : Got(object, w, k)
  BY DEF Arriving, ReadTo
<1> HIDE DEF w, m, e
<1>8. ASSUME NEW c \in 1..index, fields[c].optional = "no", fields[c].kind = "number"
      PROVE  object[c].value = w[c].value
  <2>1. Got(object, w, c) /\ IsSet(w, c) /\ HasValue(w, c) /\ ~Empty(object, c)
    BY <1>7, <1>8 DEF IsSet, HasValue, Empty
  <2> QED
    BY <2>1 DEF Got
<1>9. /\ fields[i].optional = "clause" => (IsUsed(object, i) <=> IsUsed(w, i))
      /\ fields[i].kind = "choice" => Selected(object, i) = Selected(w, i)
  <2>1. /\ fields[i].optional = "clause" => /\ fields[i].clause \in 1..(i - 1)
                                            /\ fields[fields[i].clause].optional = "no"
                                            /\ fields[fields[i].clause].kind = "number"
        /\ fields[i].kind = "choice" => /\ fields[i].selector \in 1..(i - 1)
                                        /\ fields[fields[i].selector].optional = "no"
                                        /\ fields[fields[i].selector].kind = "number"
    <3> HIDE DEF i
    <3> QED
      BY <1>2, <1>3, RefersTo
  <2>2. i - 1 = index
    BY <1>3
  <2>3. /\ fields[i].optional = "clause" => object[fields[i].clause].value = w[fields[i].clause].value
        /\ fields[i].kind = "choice" => object[fields[i].selector].value = w[fields[i].selector].value
    BY <1>8, <2>1, <2>2
  <2> QED
    BY <2>3 DEF IsUsed, Selected
<1>10. /\ e[i] = End(w, i, bitPosition) /\ e[i] \in Nat /\ e[m] \in Nat /\ e[i] =< e[m]
       /\ bitPosition =< e[i] /\ bitPosition \in Nat
  <2>1. i \in 0..m /\ m \in 0..m /\ index \in 0..m /\ index \in 0..i /\ i \in 0..m /\ i - 1 = index
    BY <1>2, <1>3
  <2>2. e[i] = End(w, i, e[i - 1])
    BY <1>3, <1>4 DEF AreEnds
  <2>3. e[i] \in Nat /\ e[m] \in Nat /\ e[i] =< e[m] /\ e[index] =< e[i] /\ e[index] \in Nat
    BY <1>4, <2>1
  <2> QED
    BY <1>5, <2>1, <2>2, <2>3
<1>11. Coded(w, i, sent.bits, bitPosition)
  <2>1. i - 1 = index
    BY <1>3
  <2> QED
    BY <1>3, <1>5, <1>6, <2>1
<1>12. Good(w, i, IsOffset(i, m), FALSE) /\ (IsPresent(w, i) /\ IsSet(w, i) => InRange(w, i))
  BY <1>3, <1>6
<1>13. \A k \in 1..Len(buffer) : k =< e[i] => buffer[k] = sent.bits[k]
  BY <1>2, <1>6, <1>10
<1> QED
  BY <1>2, <1>3, <1>5, <1>6, <1>9, <1>10, <1>11, <1>12, <1>13 DEF w, m, e

LEMMA SubSeqIs ==
  ASSUME NEW stream \in Seq({0, 1}), NEW run \in Seq({0, 1}), NEW before \in Nat,
         before + Len(run) =< Len(stream), \A k \in 1..Len(run) : stream[before + k] = run[k]
  PROVE  SubSeq(stream, before + 1, before + Len(run)) = run
<1> DEFINE s == SubSeq(stream, before + 1, before + Len(run))
<1>1. Len(run) \in Nat
  OBVIOUS
<1>2. s \in Seq({0, 1}) /\ Len(s) = Len(run) /\ \A k \in 1..Len(run) : s[k] = stream[before + k]
  <2> DEFINE l == Len(run)
  <2> HIDE DEF l
  <2>1. SubSeq(stream, before + 1, before + l) \in Seq({0, 1}) /\ Len(SubSeq(stream, before + 1, before + l)) = l
        /\ \A k \in 1..l : SubSeq(stream, before + 1, before + l)[k] = stream[before + k]
    BY <1>1, SubBits DEF l
  <2> QED
    BY <2>1 DEF l
<1> HIDE DEF s
<1>3. \A k \in 1..Len(run) : s[k] = run[k]
  BY <1>2
<1>4. s = run
  BY <1>2, <1>3
<1> QED
  BY <1>4 DEF s

LEMMA ByteValues == Pow2[8] = 256
<1>1. Pow2[0] = 1 /\ \A n \in Nat : Pow2[n + 1] = 2 * Pow2[n]
  BY Pow2Is
<1>2. Pow2[0 + 1] = 2 /\ Pow2[1 + 1] = 2 * Pow2[1] /\ Pow2[2 + 1] = 2 * Pow2[2] /\ Pow2[3 + 1] = 2 * Pow2[3]
  BY <1>1
<1>3. Pow2[4 + 1] = 2 * Pow2[4] /\ Pow2[5 + 1] = 2 * Pow2[5] /\ Pow2[6 + 1] = 2 * Pow2[6]
      /\ Pow2[7 + 1] = 2 * Pow2[7]
  BY <1>1
<1> QED
  BY <1>2, <1>3

\* Where the value of the field at work is to be.
ValueAt == ValueStart(index + 1, FlagEnd(index + 1, MeasureStart(index + 1, bitPosition)))

LEMMA PartsAt ==
  ASSUME fields \in Schemas, NEW m \in 1..Len(fields), NEW w, IsObject(w, m), NEW x \in 1..m,
         NEW before \in Nat, NEW at, at = ValueStart(x, FlagEnd(x, MeasureStart(x, before)))
  PROVE  /\ MeasureStart(x, before) \in Nat /\ before =< MeasureStart(x, before)
         /\ FlagEnd(x, MeasureStart(x, before)) \in Nat
         /\ MeasureStart(x, before) =< FlagEnd(x, MeasureStart(x, before))
         /\ at \in Nat /\ FlagEnd(x, MeasureStart(x, before)) =< at
         /\ fields[x].optional = "auto" => FlagEnd(x, MeasureStart(x, before)) = MeasureStart(x, before) + 1
         /\ w[x].tag \in 0..Len(fields[x].cases) /\ TagBits(x) \in {0, 8} /\ CaseBits(x, w[x].tag) \in Nat
<1> DEFINE a == MeasureStart(x, before)
           q == FlagEnd(x, a)
           v == ValueStart(x, q)
           t == w[x].tag
<1>1. /\ a \in Nat /\ before =< a /\ q \in Nat /\ a =< q /\ v \in Nat /\ q =< v
      /\ fields[x].optional = "auto" => q = a + 1
      /\ t \in 0..Len(fields[x].cases) /\ TagBits(x) \in {0, 8} /\ CaseBits(x, t) \in Nat
  BY PartsAre
<1> QED
  BY <1>1

LEMMA ArrivingParts ==
  ASSUME PlainSchemas, Arriving
  PROVE  LET i == index + 1
             w == sent.object
             e == Ends(w, sent.known)
             a == MeasureStart(i, bitPosition)
             q == FlagEnd(i, a)
             t == w[i].tag
         IN  /\ a \in Nat /\ bitPosition =< a /\ q \in Nat /\ a =< q /\ ValueAt \in Nat /\ q =< ValueAt
             /\ fields[i].optional = "auto" => q = a + 1
             /\ t \in 0..Len(fields[i].cases) /\ TagBits(i) \in {0, 8} /\ CaseBits(i, t) \in Nat
             /\ ValueBits(i, t) = TagBits(i) + CaseBits(i, t)
             /\ e[i] = IF ~IsPresent(w, i) THEN bitPosition
                       ELSE IF IsSet(w, i) THEN ValueAt + ValueBits(i, t) ELSE q
<1> DEFINE here == index + 1
           was == sent.object
           many == sent.known
<1>1. /\ fields \in Schemas /\ many \in 1..Len(fields) /\ IsObject(was, many) /\ here \in 1..many
      /\ bitPosition \in Nat /\ Ends(was, many)[here] = End(was, here, bitPosition)
  BY ArrivingIs
<1>2. ValueAt = ValueStart(here, FlagEnd(here, MeasureStart(here, bitPosition)))
  BY DEF ValueAt
<1> HIDE DEF here, was, many
<1>3. /\ MeasureStart(here, bitPosition) \in Nat /\ bitPosition =< MeasureStart(here, bitPosition)
      /\ FlagEnd(here, MeasureStart(here, bitPosition)) \in Nat
      /\ MeasureStart(here, bitPosition) =< FlagEnd(here, MeasureStart(here, bitPosition))
      /\ ValueAt \in Nat /\ FlagEnd(here, MeasureStart(here, bitPosition)) =< ValueAt
      /\ fields[here].optional = "auto"
         => FlagEnd(here, MeasureStart(here, bitPosition)) = MeasureStart(here, bitPosition) + 1
      /\ was[here].tag \in 0..Len(fields[here].cases) /\ TagBits(here) \in {0, 8}
      /\ CaseBits(here, was[here].tag) \in Nat
  BY <1>1, <1>2, PartsAt
<1>4. ValueBits(here, was[here].tag) = TagBits(here) + CaseBits(here, was[here].tag)
  BY DEF ValueBits
<1>5. End(was, here, bitPosition) =
        IF ~IsPresent(was, here) THEN bitPosition
        ELSE IF IsSet(was, here) THEN ValueAt + ValueBits(here, was[here].tag)
        ELSE FlagEnd(here, MeasureStart(here, bitPosition))
  BY <1>2 DEF End
<1> QED
  BY <1>1, <1>3, <1>4, <1>5 DEF here, was, many

\* The tag is the one that was written, or the one the selector asks for.
LEMMA ReadsTag ==
  ASSUME PlainSchemas, Arriving,
         IsPresent(sent.object, index + 1), IsSet(sent.object, index + 1),
         ValueAt + TagBits(index + 1) =< Len(buffer)
  PROVE  ReadTag(index + 1, ValueAt) = sent.object[index + 1].tag
<1> DEFINE i == index + 1
           w == sent.object
           m == sent.known
           t == w[i].tag
           v == ValueAt
           n == TagBits(i)
<1>1. /\ fields \in Schemas /\ i \in 1..Len(fields) /\ buffer \in Seq({0, 1}) /\ Len(buffer) \in Nat
      /\ Coded(w, i, sent.bits, bitPosition) /\ Good(w, i, IsOffset(i, m), FALSE)
      /\ \A k \in 1..Len(buffer) : k =< Ends(w, m)[i] => buffer[k] = sent.bits[k]
      /\ fields[i].kind = "choice" => Selected(object, i) = Selected(w, i)
  BY ArrivingIs
<1>2. /\ v \in Nat /\ n \in {0, 8} /\ CaseBits(i, t) \in Nat /\ t \in 0..Len(fields[i].cases)
      /\ Ends(w, m)[i] = IF ~IsPresent(w, i) THEN bitPosition
                         ELSE IF IsSet(w, i) THEN v + ValueBits(i, t) ELSE FlagEnd(i, MeasureStart(i, bitPosition))
      /\ ValueBits(i, t) = n + CaseBits(i, t)
  BY ArrivingParts
<1>3. RightCase(w, i)
  BY <1>1 DEF Good
<1>4. fields[i].kind \in {"number", "choice", "union"} /\ fields[i].cases \in Seq(Nat)
      /\ (fields[i].kind = "number" => fields[i].cases = <<>>) /\ Len(fields[i].cases) =< 256
      /\ Len(fields[i].cases) \in Nat
  <2>1. fields[i] \in FieldType /\ Len(fields[i].cases) \in Nat
    BY <1>1, FieldTypes
  <2>2. fields[i].kind = "number" => fields[i].cases = <<>>
    BY <1>1, SchemasAssumption
  <2>3. Len(fields[i].cases) =< 256
    BY <1>1 DEF PlainSchemas, Plain
  <2> QED
    BY <2>1, <2>2, <2>3 DEF FieldType
<1>5. \A k \in 1..n : sent.bits[v + k] = BitsOf(t - 1, n)[k]
  BY <1>1 DEF Coded, ValueAt
<1> HIDE DEF i, w, m, t, v, n
<1>6. CASE fields[i].kind = "choice"
  BY <1>1, <1>3, <1>6 DEF ReadTag, RightCase, i, w, t, v
<1>7. CASE fields[i].kind = "union"
  <2>1. n = 8
    BY <1>7 DEF TagBits, n
  <2>2. t \in 1..256 /\ t - 1 \in Nat /\ t - 1 < Pow2[8]
    <3>1. t # 0
      BY <1>3, <1>7 DEF RightCase, t
    <3> QED
      BY <1>2, <1>4, <3>1, ByteValues
  <2> DEFINE b == BitsOf(t - 1, 8)
  <2>3. b \in Seq({0, 1}) /\ Len(b) = 8 /\ NumOfBits(b) = t - 1
    BY <2>2, NumOfBitsOf
  <2>4. v + 8 =< Len(buffer)
    BY <2>1 DEF v, n, i
  <2>5. v + 8 =< Ends(w, m)[i]
    BY <1>2, <2>1 DEF w, i
  <2>6. \A k \in 1..8 : buffer[v + k] = b[k]
    <3>1. \A k \in 1..8 : v + k \in 1..Len(buffer) /\ v + k =< Ends(w, m)[i]
      <4>1. Ends(w, m)[i] \in Nat
        BY <1>2 DEF w, i
      <4> QED
        BY <1>1, <1>2, <2>4, <2>5, <4>1
    <3> QED
      BY <1>1, <1>5, <2>1, <3>1
  <2> HIDE DEF b
  <2>7. SubSeq(buffer, v + 1, v + 8) = b
    <3>1. v + Len(b) =< Len(buffer) /\ \A k \in 1..Len(b) : buffer[v + k] = b[k]
      BY <2>3, <2>4, <2>6
    <3>2. SubSeq(buffer, v + 1, v + Len(b)) = b
      BY <1>1, <1>2, <2>3, <3>1, SubSeqIs
    <3> QED
      BY <2>3, <3>2
  <2>8. ReadTag(i, v) = NumOfBits(SubSeq(buffer, v + 1, v + 8)) + 1
    BY <1>7, <2>1, <2>4 DEF ReadTag, n
  <2>9. ReadTag(i, v) = t
    <3>1. ReadTag(i, v) = (t - 1) + 1
      BY <2>3, <2>7, <2>8
    <3>2. (t - 1) + 1 = t
      BY <2>2
    <3> QED
      BY <3>1, <3>2
  <2> QED
    BY <2>9 DEF i, v, t, w
<1>8. CASE fields[i].kind = "number"
  <2>1. ReadTag(i, v) = 0
    BY <1>8 DEF ReadTag
  <2>2. t = 0
    BY <1>2, <1>4, <1>8
  <2> QED
    BY <2>1, <2>2 DEF i, v, t, w
<1> QED
  BY <1>4, <1>6, <1>7, <1>8

LEMMA ReadsValue ==
  ASSUME PlainSchemas, Arriving,
         IsPresent(sent.object, index + 1), IsSet(sent.object, index + 1),
         HasValue(sent.object, index + 1),
         ValueAt + ValueBits(index + 1, sent.object[index + 1].tag) =< Len(buffer)
  PROVE  LET i == index + 1
             start == ValueAt + TagBits(i)
         IN  NumOfBits(SubSeq(buffer, start + 1, start + CaseBits(i, sent.object[i].tag))) = sent.object[i].value
<1> DEFINE i == index + 1
           w == sent.object
           m == sent.known
           t == w[i].tag
           start == ValueAt + TagBits(i)
           n == CaseBits(i, t)
           val == w[i].value
           end == Ends(w, m)[i]
<1>1. /\ buffer \in Seq({0, 1}) /\ Len(buffer) \in Nat /\ m \in Nat /\ i \in 1..m /\ IsObject(w, m)
      /\ Coded(w, i, sent.bits, bitPosition) /\ InRange(w, i)
      /\ \A k \in 1..Len(buffer) : k =< end => buffer[k] = sent.bits[k]
  BY ArrivingIs
<1>2. /\ ValueAt \in Nat /\ TagBits(i) \in {0, 8} /\ n \in Nat
      /\ end = ValueAt + ValueBits(i, t) /\ ValueBits(i, t) = TagBits(i) + n
  BY ArrivingParts
<1>3. \A k \in 1..n : sent.bits[start + k] = BitsOf(val, n)[k]
  BY <1>1 DEF Coded, ValueAt
<1>4. val \in Nat /\ val < Pow2[n]
  <2>1. val \in Nat
    BY <1>1 DEF IsObject, ObjectType
  <2> QED
    BY <1>1, <2>1 DEF InRange, Fits
<1>5. start \in Nat /\ start + n = end /\ start + n =< Len(buffer)
  BY <1>2
<1> DEFINE b == BitsOf(val, n)
<1> HIDE DEF start, n, val, end, t
<1>6. b \in Seq({0, 1}) /\ Len(b) = n /\ NumOfBits(b) = val
  BY <1>2, <1>4, NumOfBitsOf
<1>7. \A k \in 1..n : start + k \in 1..Len(buffer) /\ start + k =< end
  BY <1>1, <1>2, <1>5
<1>8. \A k \in 1..n : buffer[start + k] = b[k]
  BY <1>1, <1>3, <1>7
<1> HIDE DEF b
<1>9. SubSeq(buffer, start + 1, start + n) = b
  BY <1>1, <1>5, <1>6, <1>8, SubSeqIs
<1> QED
  BY <1>6, <1>9 DEF start, n, val, t

\* There is more in the buffer at the start of an extended field where one leaves a trace.
LEMMA MoreIsATrace ==
  ASSUME PlainSchemas, Types, Sent, sent # Nothing, NEW b \in 1..sent.known, fields[b].extended
  PROVE  LET start == Ends(sent.object, sent.known)[b - 1]
         IN  /\ HasMore(start) => LeavesTrace(sent.object, sent.known, b) /\ sent.object[b].present
             /\ sent.cut = 0 /\ LeavesTrace(sent.object, sent.known, b) => HasMore(start)
<1> DEFINE was == sent.object
           many == sent.known
           e == Ends(was, many)
           before == e[b - 1]
           last == e[many]
<1>1. fields \in Schemas /\ many \in 1..Len(fields) /\ many \in Nat /\ IsObject(was, many)
      /\ Len(buffer) \in Nat
  <2>1. fields \in Schemas /\ many \in Versions /\ IsObject(was, many) /\ buffer \in Seq({0, 1})
    BY DEF Sent, Types
  <2> HIDE DEF many
  <2> QED
    BY <2>1, VersionsAre
<1>2. /\ \A k \in 1..many : IsPresent(was, k) /\ IsSet(was, k) => RightCase(was, k)
      /\ Contiguous(was, many)
      /\ Len(buffer) =< AlignTo(8, last) /\ (sent.cut = 0 => last =< Len(buffer))
  BY DEF Sent, Good
<1>3. b \in 1..many
  OBVIOUS
<1> HIDE DEF was, many
<1>4. \A k \in 0..many : e[k] \in Nat /\ \A j \in 0..k : e[j] =< e[k]
  BY <1>1, EndsAre
<1>5. before \in Nat /\ last \in Nat
  <2>1. b - 1 \in 0..many /\ many \in 0..many
    BY <1>1, <1>3
  <2> QED
    BY <1>4, <2>1
<1>6. LeavesTrace(was, many, b) <=> AlignTo(8, before) < last
  BY <1>1, <1>2, <1>3, TraceIsSeen
<1> HIDE DEF e, before, last
<1>7. AlignTo(8, before) \in Nat /\ AlignTo(8, last) \in Nat
      /\ (last =< AlignTo(8, before) => AlignTo(8, last) =< AlignTo(8, before))
  BY <1>5, AlignToByte
<1>8. HasMore(before) <=> AlignTo(8, before) < Len(buffer)
  BY DEF HasMore
<1>9. HasMore(before) => LeavesTrace(was, many, b)
  BY <1>1, <1>2, <1>5, <1>6, <1>7, <1>8
<1>10. LeavesTrace(was, many, b) => was[b].present
  <2>1. LeavesTrace(was, many, b) => \E j \in 1..many : j >= b /\ fields[j].extended /\ was[j].present
    BY DEF LeavesTrace, Extended
  <2> QED
    BY <1>1, <1>2, <1>3, <2>1 DEF Contiguous
<1>11. sent.cut = 0 /\ LeavesTrace(was, many, b) => HasMore(before)
  BY <1>1, <1>2, <1>5, <1>6, <1>7, <1>8
<1> QED
  BY <1>9, <1>10, <1>11 DEF was, many, e, before

\* The value of a field that is there is looked for where it was set.
LEMMA WillReadIs ==
  ASSUME PlainSchemas, Arriving, IsPresent(sent.object, index + 1),
         FlagEnd(index + 1, ReadStart(index + 1)) =< Len(buffer)
  PROVE  WillRead(index + 1) <=> IsSet(sent.object, index + 1)
<1> DEFINE i == index + 1
           w == sent.object
           m == sent.known
           a == MeasureStart(i, bitPosition)
           q == FlagEnd(i, a)
           end == Ends(w, m)[i]
<1>1. /\ Coded(w, i, sent.bits, bitPosition) /\ Good(w, i, IsOffset(i, m), FALSE)
      /\ \A k \in 1..Len(buffer) : k =< end => buffer[k] = sent.bits[k]
      /\ fields[i].optional = "clause" => (IsUsed(object, i) <=> IsUsed(w, i))
      /\ fields \in Schemas /\ i \in 1..Len(fields) /\ i \in 1..m /\ IsObject(w, m) /\ Len(buffer) \in Nat
  BY ArrivingIs
<1>2. /\ a \in Nat /\ q \in Nat /\ ValueAt \in Nat /\ q =< ValueAt
      /\ fields[i].optional = "auto" => q = a + 1
      /\ TagBits(i) \in {0, 8} /\ CaseBits(i, w[i].tag) \in Nat
      /\ ValueBits(i, w[i].tag) = TagBits(i) + CaseBits(i, w[i].tag)
      /\ end = IF IsSet(w, i) THEN ValueAt + ValueBits(i, w[i].tag) ELSE q
  BY ArrivingParts
<1>3. ReadStart(i) = a
  BY DEF ReadStart, MeasureStart
<1>4. fields[i].optional \in {"no", "auto", "clause"} /\ w[i].set \in BOOLEAN
  BY <1>1, FieldTypes DEF FieldType, IsObject, ObjectType
<1>5. fields[i].optional = "auto" => sent.bits[a + 1] = IF w[i].set THEN 1 ELSE 0
  BY <1>1 DEF Coded
<1>6. fields[i].optional = "clause" => (w[i].set <=> IsUsed(w, i))
  BY <1>1 DEF Good
<1>7. IsPresent(w, i) /\ FlagEnd(i, ReadStart(i)) =< Len(buffer)
  OBVIOUS
<1> HIDE DEF i, w, m, a, q, end
<1>8. CASE fields[i].optional = "no"
  BY <1>8 DEF WillRead, IsSet, i, w
<1>9. CASE fields[i].optional = "auto"
  <2>1. q =< Len(buffer) /\ q = a + 1 /\ q =< end
    BY <1>2, <1>3, <1>7, <1>9 DEF q
  <2>2. a + 1 \in 1..Len(buffer) /\ a + 1 =< end
    BY <1>1, <1>2, <2>1
  <2>3. buffer[a + 1] = IF w[i].set THEN 1 ELSE 0
    BY <1>1, <1>5, <1>9, <2>2
  <2>4. WillRead(i) <=> buffer[a + 1] = 1
    BY <1>3, <1>9 DEF WillRead
  <2>5. IsSet(w, i) <=> w[i].set
    BY <1>9 DEF IsSet
  <2> QED
    BY <1>4, <2>3, <2>4, <2>5 DEF i, w
<1>10. CASE fields[i].optional = "clause"
  <2>1. WillRead(i) <=> IsUsed(object, i)
    BY <1>10 DEF WillRead
  <2>2. IsSet(w, i) <=> w[i].set
    BY <1>10 DEF IsSet
  <2> QED
    BY <1>1, <1>6, <1>10, <2>1, <2>2 DEF i, w
<1> QED
  BY <1>4, <1>8, <1>9, <1>10

\* A value that was written can be read if all of it is there.
LEMMA ReadableIs ==
  ASSUME PlainSchemas, Arriving, IsPresent(sent.object, index + 1), IsSet(sent.object, index + 1)
  PROVE  LET end == Ends(sent.object, sent.known)[index + 1]
         IN  /\ Unreadable(index + 1, ValueAt) => end > Len(buffer)
             /\ ~Unreadable(index + 1, ValueAt) =>
                  /\ ReadTag(index + 1, ValueAt) = sent.object[index + 1].tag
                  /\ ValueAt + ValueBits(index + 1, sent.object[index + 1].tag) = end /\ end =< Len(buffer)
<1> DEFINE i == index + 1
           w == sent.object
           t == w[i].tag
           last == Ends(w, sent.known)[i]
<1>1. /\ ValueAt \in Nat /\ t \in 0..Len(fields[i].cases)
      /\ TagBits(i) \in {0, 8} /\ CaseBits(i, t) \in Nat
      /\ ValueBits(i, t) = TagBits(i) + CaseBits(i, t)
      /\ last = ValueAt + ValueBits(i, t)
  BY ArrivingParts
<1>2. Len(buffer) \in Nat
  BY ArrivingIs
<1>3. ValueAt + TagBits(i) =< Len(buffer) => ReadTag(i, ValueAt) = t
  BY ReadsTag
<1> HIDE DEF i, w, t, last
<1>4. ASSUME Unreadable(i, ValueAt) PROVE last > Len(buffer)
  <2>1. CASE ValueAt + TagBits(i) > Len(buffer)
    BY <1>1, <1>2, <2>1
  <2>2. CASE ~(ValueAt + TagBits(i) > Len(buffer))
    <3>1. ReadTag(i, ValueAt) = t
      BY <1>1, <1>2, <1>3, <2>2
    <3> QED
      BY <1>1, <1>4, <2>2, <3>1 DEF Unreadable
  <2> QED
    BY <2>1, <2>2
<1>5. ASSUME ~Unreadable(i, ValueAt)
      PROVE  ReadTag(i, ValueAt) = t /\ ValueAt + ValueBits(i, t) = last /\ last =< Len(buffer)
  <2>1. ~(ValueAt + TagBits(i) > Len(buffer))
    BY <1>5 DEF Unreadable
  <2>2. ReadTag(i, ValueAt) = t
    BY <1>1, <1>2, <1>3, <2>1
  <2>3. ~(ValueAt + ValueBits(i, t) > Len(buffer))
    BY <1>5, <2>2 DEF Unreadable
  <2> QED
    BY <1>1, <1>2, <2>2, <2>3
<1> QED
  BY <1>4, <1>5 DEF i, w, t, last

\* What Got, Violated and Empty go by.
LEMMA GotIs ==
  ASSUME NEW o, NEW w, NEW i, o[i].present,
         fields[i].optional # "no" => o[i].set = w[i].set,
         IsSet(w, i) => \/ o[i].tag = w[i].tag /\ (HasValue(w, i) => o[i].value = w[i].value)
                        \/ Empty(o, i)
  PROVE  Got(o, w, i)
BY DEF Got

\* A value that can be read is the one that was written.
LEMMA FilledArrives ==
  ASSUME PlainSchemas, Arriving, IsPresent(sent.object, index + 1), IsSet(sent.object, index + 1),
         ~Unreadable(index + 1, ValueAt), object[index + 1].present,
         NEW new, new = [object EXCEPT ![index + 1] = Filled(index + 1, ValueAt)]
  PROVE  /\ Got(new, sent.object, index + 1)
         /\ ValueAt + ValueBits(index + 1, ReadTag(index + 1, ValueAt)) = Ends(sent.object, sent.known)[index + 1]
         /\ Refused(index + 1, ValueAt) => IsOffset(index + 1, sent.known) /\ Violated(new, index + 1)
<1> DEFINE i == index + 1
           w == sent.object
           m == sent.known
           t == w[i].tag
           f == Filled(i, ValueAt)
           val == NumOfBits(SubSeq(buffer, ValueAt + TagBits(i) + 1, ValueAt + TagBits(i) + CaseBits(i, t)))
<1>1. /\ fields \in Schemas /\ i \in 1..Len(fields) /\ i \in 1..known /\ i \in 1..m /\ IsObject(w, m)
      /\ Good(w, i, IsOffset(i, m), FALSE)
      /\ fields[i].kind = "choice" => Selected(object, i) = Selected(w, i)
  BY ArrivingIs
<1>2. /\ ReadTag(i, ValueAt) = t /\ ValueAt + ValueBits(i, t) = Ends(w, m)[i]
      /\ ValueAt + ValueBits(i, t) =< Len(buffer)
  BY ReadableIs
<1>3. ValueAt \in Nat
  BY ArrivingParts
<1>4. HasValue(w, i) => val = w[i].value
  <2>1. ASSUME HasValue(w, i) PROVE val = w[i].value
    <3>1. HasValue(sent.object, index + 1)
          /\ ValueAt + ValueBits(index + 1, sent.object[index + 1].tag) =< Len(buffer)
      BY <1>2, <2>1
    <3> QED
      BY <3>1, ReadsValue
  <2> QED
    BY <2>1
<1>5. ~Unreadable(i, ValueAt) /\ object[i].present /\ new = [object EXCEPT ![i] = f]
      /\ IsPresent(w, i) /\ IsSet(w, i) /\ Types
  BY DEF Arriving
<1> HIDE DEF i, w, m, t
<1>6. /\ f.present = object[i].present /\ f \in ObjectType
      /\ IF EmptyCase(i) THEN f = Emplaced(i)
         ELSE /\ f.tag = t /\ f.value = val
              /\ f.set = Emplaced(i).set
  BY <1>1, <1>2, <1>3, <1>5, FilledIs
<1>7. IF fields[i].optional = "no" THEN Emplaced(i) = object[i]
      ELSE Emplaced(i).set = TRUE /\ Emplaced(i).value = 0 /\ Emplaced(i).tag = 0
  BY <1>1, <1>5, EmplacedIs
<1> HIDE DEF f, val
<1>8. new[i] = f
  BY <1>1, <1>5 DEF Types, IsObject
<1>9. RightCase(w, i) /\ (IsOffset(i, m) \/ ~Violated(w, i))
  BY <1>1, <1>5 DEF Good
<1>10. fields[i].optional # "no" => new[i].set = w[i].set
  <2>1. w[i].set \in BOOLEAN
    BY <1>1 DEF IsObject, ObjectType
  <2>2. fields[i].optional # "no" => w[i].set
    BY <1>5 DEF IsSet
  <2>3. fields[i].optional # "no" => f.set = TRUE
    BY <1>6, <1>7
  <2> QED
    BY <1>8, <2>1, <2>2, <2>3
<1>11. fields[i].kind = "choice" => Selected(new, i) = Selected(object, i)
  <2>1. ASSUME fields[i].kind = "choice" PROVE Selected(new, i) = Selected(object, i)
    <3>1. fields[i].selector \in 1..(i - 1)
      BY <1>1, <2>1, RefersTo
    <3>2. fields[i].selector \in 1..known /\ fields[i].selector # i
      BY <1>1, <1>5, <3>1, AtWork
    <3>3. new[fields[i].selector] = object[fields[i].selector]
      BY <1>5, <3>2 DEF Types, IsObject
    <3> QED
      BY <3>3 DEF Selected
  <2> QED
    BY <2>1
<1>12. \/ new[i].tag = t /\ (HasValue(w, i) => new[i].value = w[i].value)
       \/ Empty(new, i)
  <2>1. CASE ~EmptyCase(i)
    BY <1>4, <1>6, <1>8, <2>1
  <2>2. CASE EmptyCase(i) /\ fields[i].optional = "no"
    <3>1. Empty(new, i)
      BY <1>11, <2>2 DEF Empty, EmptyCase
    <3> QED
      BY <3>1
  <2>3. CASE EmptyCase(i) /\ fields[i].optional # "no"
    <3>1. fields[i].kind = "choice" /\ Selected(w, i) = 0
      BY <1>1, <2>3 DEF EmptyCase
    <3>2. t = 0
      BY <1>9, <3>1 DEF RightCase, t
    <3>3. new[i].tag = 0
      BY <1>6, <1>7, <1>8, <2>3
    <3>4. ~HasValue(w, i)
      BY <3>1, <3>2 DEF HasValue, t
    <3> QED
      BY <3>2, <3>3, <3>4
  <2> QED
    BY <2>1, <2>2, <2>3
<1>13. Got(new, w, i)
  BY <1>5, <1>6, <1>8, <1>10, <1>12, GotIs DEF t
<1>14. Refused(i, ValueAt) => IsOffset(i, m) /\ Violated(new, i)
  <2>1. ASSUME Refused(i, ValueAt) PROVE IsOffset(i, m) /\ Violated(new, i)
    <3>1. ~EmptyCase(i) /\ Violated(new, i)
      BY <1>5, <2>1 DEF Refused, f
    <3>2. HasValue(new, i) /\ new[i].value \in fields[i].forbidden
      BY <3>1 DEF Violated
    <3>3. new[i].tag = t /\ new[i].value = val
      BY <1>6, <1>8, <3>1
    <3>4. HasValue(w, i)
      BY <3>2, <3>3 DEF HasValue, t
    <3>5. Violated(w, i)
      BY <1>4, <3>2, <3>3, <3>4 DEF Violated
    <3> QED
      BY <1>9, <3>1, <3>5
  <2> QED
    BY <2>1
<1> QED
  BY <1>2, <1>13, <1>14 DEF i, w, m

\* A step of read at a field that was sent: the field arrives, unless it is not in the buffer.
LEMMA FieldArrives ==
  ASSUME PlainSchemas, Arriving, ReadField, object[index + 1].present, ~ReadNothing(index + 1)
  PROVE  /\ fields[index + 1].extended => LeavesTrace(sent.object, sent.known, index + 1)
         /\ \/ /\ Continue
               /\ Got(object', sent.object, index + 1)
               /\ bitPosition' = Ends(sent.object, sent.known)[index + 1]
            \/ /\ status' = "thrown"
               /\ sent.cut = 0 => IsOffset(index + 1, sent.known) /\ Violated(object', index + 1)
<1> DEFINE i == index + 1
           w == sent.object
           m == sent.known
           q == FlagEnd(i, ReadStart(i))
           end == Ends(w, m)[i]
<1>1. /\ i \in 1..m /\ i \in 1..known /\ end \in Nat /\ Ends(w, m)[m] \in Nat /\ end =< Ends(w, m)[m]
      /\ sent.cut = 0 => Ends(w, m)[m] =< Len(buffer)
      /\ bitPosition = Ends(w, m)[i - 1] /\ Len(buffer) \in Nat
  <2>1. (index + 1) - 1 = index
    BY ArrivingIs
  <2> QED
    BY <2>1, ArrivingIs
<1>2. Types /\ Sent /\ sent # Nothing
  BY DEF Arriving, GoodFields
<1>3. ReadUnset(i) \/ ReadValue(i) \/ ReadFails(i)
  BY <1>2, ReadFieldIs
<1>4. fields[i].extended => HasMore(bitPosition)
  BY <1>3 DEF ReadUnset, ReadValue, ReadFails
<1>5. fields[i].extended => LeavesTrace(w, m, i) /\ w[i].present
  <2> HIDE DEF i
  <2> QED
    BY <1>1, <1>2, <1>4, MoreIsATrace
<1>6. IsPresent(w, i)
  BY <1>5 DEF IsPresent
<1>7. q = FlagEnd(i, MeasureStart(i, bitPosition)) /\ StreamStart(i, q) = ValueAt
  <2>1. ReadStart(i) = MeasureStart(i, bitPosition) /\ StreamStart(i, q) = ValueStart(i, q)
    BY <1>1, <1>2, ReadStartIs
  <2> QED
    BY <2>1 DEF ValueAt
<1>8. /\ q \in Nat /\ ValueAt \in Nat /\ q =< ValueAt /\ ValueBits(i, w[i].tag) \in Nat
      /\ end = IF IsSet(w, i) THEN ValueAt + ValueBits(i, w[i].tag) ELSE q
  <2>1. /\ FlagEnd(i, MeasureStart(i, bitPosition)) \in Nat /\ ValueAt \in Nat
        /\ FlagEnd(i, MeasureStart(i, bitPosition)) =< ValueAt
        /\ TagBits(i) \in {0, 8} /\ CaseBits(i, w[i].tag) \in Nat
        /\ ValueBits(i, w[i].tag) = TagBits(i) + CaseBits(i, w[i].tag)
        /\ end = IF ~IsPresent(w, i) THEN bitPosition
                 ELSE IF IsSet(w, i) THEN ValueAt + ValueBits(i, w[i].tag)
                 ELSE FlagEnd(i, MeasureStart(i, bitPosition))
    BY ArrivingParts
  <2>2. ValueBits(i, w[i].tag) \in Nat
    BY <2>1
  <2> QED
    BY <1>6, <1>7, <2>1, <2>2
<1>9. q =< Len(buffer) => (WillRead(i) <=> IsSet(w, i))
  BY <1>6, WillReadIs
<1>10. IsSet(w, i) => (Unreadable(i, ValueAt) => end > Len(buffer))
  BY <1>6, ReadableIs
<1>11. object[i].present
  OBVIOUS
<1>12. object \in [1..known -> ObjectType]
  BY <1>2 DEF Types, IsObject
<1>13. fields[i].optional # "no" => w[i].set \in BOOLEAN
  BY <1>1, <1>2 DEF Sent, IsObject, ObjectType
<1>14. ASSUME ReadValue(i)
       PROVE  \/ Continue /\ Got(object', w, i) /\ bitPosition' = end
              \/ status' = "thrown" /\ IsOffset(i, m) /\ Violated(object', i)
  <2>1. /\ WillRead(i) /\ q =< Len(buffer) /\ ~Unreadable(i, ValueAt)
        /\ object' = [object EXCEPT ![i] = Filled(i, ValueAt)]
        /\ bitPosition' = ValueAt + ValueBits(i, ReadTag(i, ValueAt))
        /\ (~Refused(i, ValueAt) /\ Continue) \/ (Refused(i, ValueAt) /\ status' = "thrown" /\ UNCHANGED index)
    BY <1>7, <1>14 DEF ReadValue
  <2>2. IsSet(w, i)
    BY <1>9, <2>1
  <2>3. /\ Got(object', w, i) /\ ValueAt + ValueBits(i, ReadTag(i, ValueAt)) = end
        /\ Refused(i, ValueAt) => IsOffset(i, m) /\ Violated(object', i)
    BY <1>6, <1>11, <2>1, <2>2, FilledArrives
  <2> QED
    BY <2>1, <2>3
<1> HIDE DEF i, w, m, q, end
<1>15. ASSUME ReadUnset(i) PROVE Continue /\ Got(object', w, i) /\ bitPosition' = end
  <2>1. /\ q =< Len(buffer) /\ ~WillRead(i) /\ object' = [object EXCEPT ![i] = Reset(i)]
        /\ bitPosition' = q /\ Continue
    BY <1>15 DEF ReadUnset, q
  <2>2. ~IsSet(w, i)
    BY <1>9, <2>1
  <2>3. object'[i] = Reset(i)
    BY <1>1, <1>12, <2>1
  <2>4. object'[i].present /\ object'[i].set = FALSE
    BY <1>1, <1>2, <1>11, <2>3, AbsentAndResetAre
  <2>5. fields[i].optional # "no" => w[i].set = FALSE
    BY <1>13, <2>2 DEF IsSet
  <2>6. Got(object', w, i)
    BY <2>2, <2>4, <2>5 DEF Got
  <2> QED
    BY <1>8, <2>1, <2>2, <2>6
<1>16. ASSUME ReadFails(i) PROVE status' = "thrown" /\ sent.cut # 0
  <2>1. status' = "thrown" /\ (q > Len(buffer) \/ (q =< Len(buffer) /\ WillRead(i) /\ Unreadable(i, ValueAt)))
    BY <1>7, <1>16 DEF ReadFails, q
  <2>2. end > Len(buffer)
    <3>1. CASE q > Len(buffer)
      BY <1>1, <1>8, <3>1
    <3>2. CASE q =< Len(buffer) /\ WillRead(i) /\ Unreadable(i, ValueAt)
      BY <1>9, <1>10, <3>2
    <3> QED
      BY <2>1, <3>1, <3>2
  <2> QED
    BY <1>1, <2>1, <2>2
<1> QED
  BY <1>3, <1>5, <1>14, <1>15, <1>16 DEF i, w, m, end

-------------------------------------------------------------------------------
(* All of the fields arrive.                                               *)

\* The objects that are read over have all of their fields: MCStructureReuse shows what becomes
\* of others.
PresentReused == Reused \subseteq {TRUE}

LEMMA AlikeGot ==
  ASSUME NEW o, NEW u, NEW w, NEW i, Alike(o, u, i)
  PROVE  Got(o, w, i) <=> Got(u, w, i)
<1>1. (Empty(o, i) <=> Empty(u, i)) /\ o[i] = u[i]
  BY AlikeIs DEF Alike
<1> QED
  BY <1>1 DEF Got

LEMMA ReadToIs ==
  ASSUME UNCHANGED <<fields, sent, buffer>>, NEW j, j =< sent.known,
         \A k \in 1..j : /\ Got(object', sent.object, k)
                         /\ fields[k].extended => LeavesTrace(sent.object, sent.known, k),
         \A k \in (j + 1)..index' : fields[k].extended /\ ~object'[k].present,
         bitPosition' = Ends(sent.object, sent.known)[j],
         j < index' => ~HasMore(bitPosition')
  PROVE  ReadTo(j)'
<1>1. /\ \A o, w, i : Got(o, w, i)' <=> Got(o, w, i)
      /\ \A o, n, i : LeavesTrace(o, n, i)' <=> LeavesTrace(o, n, i)
      /\ \A o, n : Ends(o, n)' = Ends(o, n)
  BY MeaningsStay, FieldsStay
<1>2. \A p : HasMore(p)' <=> HasMore(p)
  BY DEF HasMore
<1>3. \A k \in 1..j : /\ Got(object, sent.object, k)'
                      /\ (fields[k].extended => LeavesTrace(sent.object, sent.known, k))'
  BY <1>1
<1>4. Ends(sent.object, sent.known)' = Ends(sent.object, sent.known)
  BY <1>1
<1>5. (j < index => ~HasMore(bitPosition))'
  BY <1>2
<1> QED
  BY <1>3, <1>4, <1>5 DEF ReadTo

LEMMA ReadFieldReading ==
  ASSUME PlainSchemas, Types, GoodFields, Sent, Reading, ReadField
  PROVE  Reading'
<1> DEFINE here == index + 1
           was == sent.object
           many == sent.known
<1>1. /\ here \in 1..known /\ status = "busy" /\ operation = "read" /\ operation' = operation
      /\ UNCHANGED <<fields, known, buffer, sent>>
      /\ ReadNothing(here) \/ ReadUnset(here) \/ ReadValue(here) \/ ReadFails(here)
  BY ReadFieldIs
<1>2. sent # Nothing
  BY <1>1 DEF GoodFields
<1>3. fields \in Schemas /\ many \in Versions /\ many \in 1..Len(fields) /\ many \in Nat /\ Len(fields) \in Nat
      /\ known \in 1..Len(fields) /\ known \in Nat /\ index \in Nat /\ object \in [1..known -> ObjectType]
      /\ Len(buffer) \in Nat
  <2>1. fields \in Schemas /\ many \in Versions /\ object \in [1..known -> ObjectType] /\ buffer \in Seq({0, 1})
    BY <1>2 DEF Sent, Types, IsObject
  <2>2. known \in 1..Len(fields) /\ known \in Nat /\ index \in Nat /\ Len(fields) \in Nat
    BY AtWork
  <2> HIDE DEF many
  <2> QED
    BY <2>1, <2>2, VersionsAre
<1>4. PICK j \in 0..index : ReadTo(j)
  BY <1>1 DEF Reading
<1>5. j \in Nat /\ j =< index
  BY <1>3, <1>4
<1>6. \A k \in 1..known : k > index => object[k].present
  BY <1>1 DEF Reading
<1>7. object[here].present
  BY <1>1, <1>3, <1>6
<1>8. /\ \A k \in 1..known : k # here => object'[k] = object[k]
      /\ \A k \in 1..index : Alike(object', object, k)
  BY ReadChangesOne
<1>9. \A k \in 1..index : (Got(object', was, k) <=> Got(object, was, k)) /\ object'[k] = object[k]
  <2> HIDE DEF was
  <2> QED
    BY <1>8, AlikeGot DEF Alike
<1>10. /\ j =< many
       /\ \A k \in 1..j : Got(object, was, k) /\ (fields[k].extended => LeavesTrace(was, many, k))
       /\ \A k \in (j + 1)..index : fields[k].extended /\ ~object[k].present
       /\ bitPosition = Ends(was, many)[j]
       /\ j < index => ~HasMore(bitPosition)
  BY <1>4 DEF ReadTo
<1>11. \A k \in 1..j : Got(object', was, k)
  BY <1>3, <1>5, <1>9, <1>10
<1>12. \A k \in (j + 1)..index : fields[k].extended /\ ~object'[k].present
  BY <1>3, <1>5, <1>9, <1>10
<1>13. ASSUME Continue, NEW b \in 0..index', ReadTo(b)' PROVE Reading'
  <2>1. status' # "thrown" /\ index' = here
    BY <1>13 DEF Continue
  <2>2. \A k \in 1..known : k > here => object'[k].present
    <3>1. \A k \in 1..known : k > here => k # here /\ k > index
      BY <1>3
    <3> HIDE DEF here
    <3> QED
      BY <1>6, <1>8, <3>1
  <2> QED
    BY <1>1, <1>13, <2>1, <2>2 DEF Reading
<1>14. CASE ReadNothing(here)
  <2>1. /\ fields[here].extended /\ ~HasMore(bitPosition) /\ bitPosition' = bitPosition /\ Continue
        /\ object' = [object EXCEPT ![here] = Absent(here)]
    BY <1>14 DEF ReadNothing
  <2>2. ~object'[here].present
    <3>1. object'[here] = Absent(here)
      BY <1>1, <1>3, <2>1
    <3> HIDE DEF here
    <3>2. Absent(here).present = FALSE
      BY <1>1, AbsentAndResetAre
    <3> QED
      BY <3>1, <3>2
  <2>3. index' = here
    BY <2>1 DEF Continue
  <2>4. \A k \in (j + 1)..index' : fields[k].extended /\ ~object'[k].present
    <3>1. \A k \in (j + 1)..index' : k \in (j + 1)..index \/ k = here
      BY <1>3, <1>5, <2>3
    <3> QED
      BY <1>12, <2>1, <2>2, <3>1
  <2>5. ReadTo(j)'
    <3>1. bitPosition' = Ends(was, many)[j] /\ ~HasMore(bitPosition')
      BY <1>10, <2>1
    <3>2. \A k \in 1..j : Got(object', was, k) /\ (fields[k].extended => LeavesTrace(was, many, k))
      BY <1>10, <1>11
    <3> QED
      BY <1>1, <1>10, <2>4, <3>1, <3>2, ReadToIs
  <2>6. j \in 0..index'
    BY <1>3, <1>5, <2>3
  <2> QED
    BY <1>13, <2>1, <2>5, <2>6
<1>15. CASE ~ReadNothing(here)
  <2>1. fields[here].extended => HasMore(bitPosition)
    BY <1>1, <1>15 DEF ReadUnset, ReadValue, ReadFails
  <2>2. j = index
    <3> SUFFICES ASSUME j # index PROVE FALSE
      OBVIOUS
    <3>1. j < index /\ index \in (j + 1)..index /\ index \in 1..Len(fields) /\ here \in 1..Len(fields)
          /\ index =< here
      BY <1>1, <1>3, <1>5
    <3>2. fields[index].extended /\ ~HasMore(bitPosition)
      BY <1>10, <3>1
    <3> HIDE DEF here
    <3>3. fields[here].extended
      BY <1>3, <3>1, <3>2 DEF PlainSchemas, Plain
    <3> QED
      BY <2>1, <3>2, <3>3
  <2>3. index < many
    <3> SUFFICES ASSUME ~(index < many) PROVE FALSE
      OBVIOUS
    <3>1. index = many /\ here \in (many + 1)..Len(fields)
      BY <1>1, <1>3, <1>10, <2>2
    <3>2. fields[here].extended
      BY <1>3, <3>1 DEF Versions
    <3> DEFINE last == Ends(was, many)[many]
    <3>3. bitPosition = last
      BY <1>10, <2>2, <3>1
    <3>4. Len(buffer) =< AlignTo(8, last)
      BY <1>2 DEF Sent
    <3>5. last \in Nat
      BY <3>3 DEF Types
    <3> HIDE DEF last
    <3>6. AlignTo(8, last) \in Nat
      BY <3>5, AlignToByte
    <3>7. ~HasMore(bitPosition)
      BY <1>3, <3>3, <3>4, <3>6 DEF HasMore
    <3> QED
      BY <2>1, <3>2, <3>7
  <2>4. Arriving
    BY <1>1, <1>4, <2>2, <2>3 DEF Arriving
  <2>5. /\ fields[here].extended => LeavesTrace(was, many, here)
        /\ \/ Continue /\ Got(object', was, here) /\ bitPosition' = Ends(was, many)[here]
           \/ /\ status' = "thrown"
              /\ sent.cut = 0 => IsOffset(here, many) /\ Violated(object', here)
    BY <1>7, <1>15, <2>4, FieldArrives
  <2>6. CASE Continue /\ Got(object', was, here) /\ bitPosition' = Ends(was, many)[here]
    <3>1. index' = here /\ here =< many /\ here \in Nat
      BY <1>3, <2>3, <2>6 DEF Continue
    <3>2. \A k \in 1..here : Got(object', was, k) /\ (fields[k].extended => LeavesTrace(was, many, k))
      <4>1. \A k \in 1..here : k \in 1..j \/ k = here
        BY <1>3, <2>2
      <4> QED
        BY <1>10, <1>11, <2>5, <2>6, <4>1
    <3> HIDE DEF here
    <3>3. PICK b \in Nat : b = here
      BY <3>1
    <3>4. \A k \in (b + 1)..index' : FALSE
      BY <3>1, <3>3
    <3>5. ~(b < index') /\ b \in 0..index'
      BY <3>1, <3>3
    <3>6. ReadTo(b)'
      <4>1. b =< many /\ bitPosition' = Ends(was, many)[b]
            /\ \A k \in 1..b : Got(object', was, k) /\ (fields[k].extended => LeavesTrace(was, many, k))
        BY <2>6, <3>1, <3>2, <3>3
      <4> QED
        BY <1>1, <3>4, <3>5, <4>1, ReadToIs
    <3> QED
      BY <1>13, <2>6, <3>5, <3>6
  <2>7. CASE status' = "thrown" /\ (sent.cut = 0 => IsOffset(here, many) /\ Violated(object', here))
    <3>1. \A o, i : (Violated(o, i)' <=> Violated(o, i)) /\ (IsOffset(i, o)' <=> IsOffset(i, o))
      BY <1>1, PredicatesStay
    <3> HIDE DEF here
    <3>2. PICK b \in 1..known : b = here
      BY <1>1
    <3>3. sent.cut = 0 => IsOffset(b, sent.known)' /\ Violated(object, b)'
      BY <1>1, <2>7, <3>1, <3>2
    <3> QED
      BY <1>1, <2>7, <3>2, <3>3 DEF Reading
  <2> QED
    BY <2>5, <2>6, <2>7
<1> QED
  BY <1>14, <1>15

LEMMA TargetsArePresent ==
  ASSUME PresentReused, NEW n \in Nat, NEW target \in Targets(n)
  PROVE  \A i \in 1..n : target[i].present
<1>1. CASE target = Fresh(n)
  BY <1>1 DEF Fresh
<1>2. CASE target \in Used(n)
  <2>1. PICK p \in Reused :
          target = [i \in 1..n |-> [present |-> ~fields[i].extended \/ p,
                                    set |-> fields[i].optional # "no",
                                    value |-> IF CaseBits(i, Len(fields[i].cases)) = 0 THEN 0 ELSE 1,
                                    tag |-> Len(fields[i].cases)]]
    BY <1>2 DEF Used
  <2>2. p
    BY DEF PresentReused
  <2>3. \A i \in 1..n : target[i].present = (~fields[i].extended \/ p)
    BY <2>1
  <2> QED
    BY <2>2, <2>3
<1> QED
  BY <1>1, <1>2 DEF Targets

LEMMA DeserializeReading ==
  ASSUME PresentReused, Types, NEW n \in Versions, NEW d \in Cuts, NEW r \in BOOLEAN, NEW target \in Targets(n),
         Deserialize(n, target, d, r)
  PROVE  Reading'
<1>1. /\ fields' = fields /\ known' = n /\ object' = target /\ bitPosition' = 0
      /\ operation' = "read" /\ status' = "busy" /\ index' = 0
      /\ sent'.known = known /\ sent'.object = object
  BY DEF Deserialize, Begin
<1>2. n \in Nat /\ known \in 1..Len(fields) /\ known \in Nat /\ fields \in Schemas /\ IsObject(object, known)
  BY VersionsAre, AtWork DEF Types
<1>3. \A i \in 1..n : target[i].present
  BY <1>2, TargetsArePresent
<1>4. Ends(object, known)[0] = 0
  BY <1>2, EndsAre DEF AreEnds
<1>5. Ends(sent.object, sent.known)' = Ends(object, known)
  BY <1>1, FieldsStay
<1>6. ReadTo(0)'
  BY <1>1, <1>2, <1>4, <1>5 DEF ReadTo
<1>7. 0 \in 0..index'
  BY <1>1
<1> QED
  BY <1>1, <1>3, <1>6, <1>7 DEF Reading

LEMMA ReadingNext ==
  ASSUME PlainSchemas, PresentReused, Types, GoodFields, Sent, Reading, [Next]_vars
  PROVE  Reading'
<1>1. CASE ReadField
  BY <1>1, ReadFieldReading
<1>2. CASE \E n \in Versions, d \in Cuts, r \in BOOLEAN :
             \E target \in Targets(n) : Deserialize(n, target, d, r)
  BY <1>2, DeserializeReading
<1>3. CASE UNCHANGED vars
  <2>1. UNCHANGED <<fields, known, object, operation, status, index, buffer, bitPosition, sent>>
    BY <1>3 DEF vars
  <2>2. \A j : ReadTo(j)' <=> ReadTo(j)
    <3>1. /\ \A o, w, i : Got(o, w, i)' <=> Got(o, w, i)
          /\ \A o, n, i : LeavesTrace(o, n, i)' <=> LeavesTrace(o, n, i)
          /\ \A o, n : Ends(o, n)' = Ends(o, n)
      BY <2>1, MeaningsStay, FieldsStay
    <3>2. \A p : HasMore(p)' <=> HasMore(p)
      BY <2>1 DEF HasMore
    <3> QED
      BY <2>1, <3>1, <3>2 DEF ReadTo
  <2>3. \A o, i : (Violated(o, i)' <=> Violated(o, i)) /\ (IsOffset(i, o)' <=> IsOffset(i, o))
    BY <2>1, PredicatesStay
  <2> QED
    BY <2>1, <2>2, <2>3 DEF Reading
<1>4. CASE \/ ValidateField \/ InitializeOffsets \/ MeasureField \/ Write \/ WriteField \/ SerializeView
           \/ SerializeDataView
  <2>1. operation' # "read"
    BY <1>4 DEF ValidateField, InitializeOffsets, MeasureField, Write, WriteField, SerializeView,
                SerializeDataView, Busy, Begin
  <2> QED
    BY <2>1 DEF Reading
<1> QED
  BY <1>1, <1>2, <1>3, <1>4 DEF Next

\* What holds of an object on its way through the buffer and back.
ReadInvariant == Types /\ GoodFields /\ Layout /\ Counted /\ Coding /\ Sent /\ Reading

LEMMA ReadInvariantHolds ==
  ASSUME PlainSchemas, PresentReused
  PROVE  Spec => []ReadInvariant
<1>1. Init => ReadInvariant
  <2> SUFFICES ASSUME Init PROVE ReadInvariant
    OBVIOUS
  <2>1. Types /\ GoodFields
    BY TypesInit, GoodInit
  <2>2. operation = "validate" /\ status = "busy" /\ index = 0 /\ numExtendedFields = 0 /\ sent = Nothing
    BY DEF Init
  <2>3. Counted
    <3>1. Preceding(0) = 0
      <4>1. {j \in 1..0 : fields[j].extended} = {}
        OBVIOUS
      <4> QED
        BY <4>1, FS_EmptySet DEF Preceding
    <3>2. Contiguous(object, 0)
      BY DEF Contiguous
    <3> QED
      BY <2>2, <3>1, <3>2 DEF Counted
  <2> QED
    BY <2>1, <2>2, <2>3 DEF ReadInvariant, Layout, Coding, Sent, Reading
<1>2. ReadInvariant /\ [Next]_vars => ReadInvariant'
  BY TypesNext, GoodNext, LayoutNext, CountedNext, CodingNext, SentNext, ReadingNext DEF ReadInvariant
<1> QED
  BY <1>1, <1>2, PTL DEF Spec

\* What was read arrived up to some field, and nothing is behind it but extended fields that are
\* missing; if no bits were lost these had not left a trace.
LEMMA ArrivedTo ==
  ASSUME PlainSchemas, ReadInvariant, Did("read")
  PROVE  \E j \in 0..known : \A i \in 1..known :
           IF i =< j THEN FieldArrived(i)
           ELSE ~object[i].present /\ (sent.cut = 0 => FieldArrived(i))
<1> DEFINE was == sent.object
           many == sent.known
<1>1. operation = "read" /\ index = known /\ known \in Nat /\ sent # Nothing /\ fields \in Schemas
      /\ many \in Versions
  BY AtWork DEF Did, ReadInvariant, Types, GoodFields, Sent
<1> HIDE DEF was, many
<1>2. many \in Nat /\ many \in 1..Len(fields)
  BY <1>1, VersionsAre
<1>3. PICK j \in 0..index : ReadTo(j)
  BY <1>1 DEF ReadInvariant, Reading, Did
<1>4. /\ j =< many
      /\ \A k \in 1..j : Got(object, was, k) /\ (fields[k].extended => LeavesTrace(was, many, k))
      /\ \A k \in (j + 1)..index : fields[k].extended /\ ~object[k].present
      /\ bitPosition = Ends(was, many)[j]
      /\ j < index => ~HasMore(bitPosition)
  BY <1>3 DEF ReadTo, was, many
<1>5. ASSUME NEW i \in 1..j PROVE FieldArrived(i)
  <2>1. Got(object, was, i) /\ (fields[i].extended => LeavesTrace(was, many, i))
    BY <1>4
  <2>2. Empty(object, i) => Leftover(i)
    BY <1>1 DEF Empty, Leftover
  <2> QED
    BY <2>1, <2>2 DEF Got, FieldArrived, was, many
<1>6. ASSUME NEW i \in (j + 1)..known PROVE ~object[i].present /\ (sent.cut = 0 => FieldArrived(i))
  <2>1. fields[i].extended /\ ~object[i].present /\ j < index /\ j + 1 \in (j + 1)..index
    BY <1>1, <1>4
  <2>2. ASSUME sent.cut = 0, LeavesTrace(was, many, i) PROVE FALSE
    <3>1. PICK k \in Extended(many) :
            /\ k >= i /\ was[k].present
            /\ fields[k].optional = "auto" \/ (IsSet(was, k) /\ ValueBits(k, was[k].tag) > 0)
      BY <2>2 DEF LeavesTrace
    <3>2. k \in 1..many /\ j + 1 \in 1..many /\ k >= j + 1 /\ (j + 1) - 1 = j
      BY <1>1, <1>2, <3>1 DEF Extended
    <3>3. LeavesTrace(was, many, j + 1)
      BY <3>1, <3>2 DEF LeavesTrace
    <3>4. fields[j + 1].extended /\ ~HasMore(bitPosition)
      BY <1>4, <2>1
    <3> DEFINE b == j + 1
    <3>5. b \in 1..sent.known /\ fields[b].extended /\ LeavesTrace(sent.object, sent.known, b)
          /\ bitPosition = Ends(sent.object, sent.known)[b - 1]
      BY <1>4, <3>2, <3>3, <3>4 DEF was, many
    <3> HIDE DEF b
    <3>6. HasMore(bitPosition)
      BY <1>1, <2>2, <3>5, MoreIsATrace DEF ReadInvariant
    <3> QED
      BY <3>4, <3>6
  <2> QED
    BY <2>1, <2>2 DEF FieldArrived, was, many
<1>7. \A i \in 1..known : i \in 1..j \/ i \in (j + 1)..known
  BY <1>1
<1>8. \A i \in (j + 1)..known : ~(i =< j)
  BY <1>1
<1>9. j \in 0..known
  BY <1>1
<1> QED
  BY <1>5, <1>6, <1>7, <1>8, <1>9

\* RoundTrip for every schema: an object that was sent whole, between two programs of any versions
\* of the schema, is accepted by the checks of read and arrives.
THEOREM ObjectsArrive ==
  ASSUME PlainSchemas, PresentReused
  PROVE  Spec => []RoundTrip
<1>1. ReadInvariant => RoundTrip
  <2> SUFFICES ASSUME ReadInvariant, operation = "read", sent.cut = 0
      PROVE  /\ status = "thrown" => \E i \in 1..known : IsOffset(i, sent.known) /\ Violated(object, i)
             /\ status = "done" => \A i \in 1..known : FieldArrived(i)
    BY DEF RoundTrip
  <2>1. status = "thrown" => \E i \in 1..known : IsOffset(i, sent.known) /\ Violated(object, i)
    BY DEF ReadInvariant, Reading
  <2>2. ASSUME status = "done", NEW i \in 1..known PROVE FieldArrived(i)
    BY <2>2, ArrivedTo DEF Did
  <2> QED
    BY <2>1, <2>2
<1> QED
  BY <1>1, ReadInvariantHolds, PTL

\* CutReadsPrefix for every schema: a reader that does not notice that bits were lost has read all
\* fields up to some extended one, and what it has read passes validate, leftovers aside.
THEOREM CutObjectsArriveInPart ==
  ASSUME PlainSchemas, PresentReused
  PROVE  Spec => []CutReadsPrefix
<1>1. ReadInvariant => CutReadsPrefix
  <2> SUFFICES ASSUME ReadInvariant PROVE CutReadsPrefix
    OBVIOUS
  <2>1. ASSUME Did("read")
        PROVE  \E n \in 0..known : \A i \in 1..known : IF i =< n THEN FieldArrived(i) ELSE ~object[i].present
    BY <2>1, ArrivedTo
  <2>2. operation = "validate" /\ status = "thrown" => sent = Nothing \/ \E i \in 1..known : Leftover(i)
    BY DEF ReadInvariant, Counted
  <2> QED
    BY <2>1, <2>2 DEF CutReadsPrefix
<1> QED
  BY <1>1, ReadInvariantHolds, PTL

-------------------------------------------------------------------------------
(* LayoutAgrees and SameBits: offsets, and objects that are written again. *)

\* The offset of field i is the byte that it is at.
Holds(o, n, i) ==
  fields[i].offset # 0 /\ IsPresent(o, i) /\ IsSet(o, i)
  => o[fields[i].offset].value = OffsetOf(i, Ends(o, n)[i - 1])

\* The offsets that were set, those that are written, and those that were sent.
Holding ==
  /\ operation = "initializeOffsets" => \A i \in 1..index : Holds(object, known, i)
  /\ operation = "write" /\ NothingLeft => \A i \in 1..known : Holds(object, known, i)
  /\ sent # Nothing => \A i \in 1..sent.known : Holds(sent.object, sent.known, i)

\* The object is the one that arrived, up to field j.
Kept(j) ==
  /\ j =< sent.known
  /\ \A i \in 1..j : /\ Got(object, sent.object, i)
                     /\ fields[i].extended => LeavesTrace(sent.object, sent.known, i)
  /\ \A i \in (j + 1)..known : fields[i].extended /\ ~object[i].present
  /\ j < known => ~HasMore(Ends(sent.object, sent.known)[j])

Keeping ==
  sent # Nothing /\ operation # "read" /\ NothingLeft => \E j \in 0..known : Kept(j)

LEMMA OffsetsStay ==
  ASSUME fields' = fields
  PROVE  \A o, n, i : Holds(o, n, i)' <=> Holds(o, n, i)
<1>1. \A i, p : OffsetOf(i, p)' = OffsetOf(i, p)
  BY DEF OffsetOf, ValueStart, FlagEnd, MeasureStart, ValueTypeBits
<1> QED
  BY <1>1, FieldsStay, PredicatesStay DEF Holds

\* initializeOffsets sets one offset after the other.
LEMMA MeasureFieldHolding ==
  ASSUME PlainSchemas, Types, Layout, Holding, MeasureField, operation = "initializeOffsets"
  PROVE  \A i \in 1..index' : Holds(object', known, i)
<1> DEFINE here == index + 1
           so == SetOffset(here, endBitPosition)
           holder == fields[here].offset
<1>1. /\ status = "busy" /\ index' = here /\ object' = so
  BY DEF MeasureField, Continue
<1>2. here \in 1..known /\ here \in 1..Len(fields) /\ fields \in Schemas /\ known \in 1..Len(fields)
      /\ endBitPosition \in Nat /\ IsObject(object, known) /\ index \in Nat /\ known \in Nat
      /\ Len(fields) \in Nat
  BY <1>1, AtWork DEF Types
<1>3. endBitPosition = Ends(object, known)[here - 1]
  <2>1. here - 1 = index
    BY <1>2
  <2> QED
    BY <2>1 DEF Layout
<1> HIDE DEF here
<1>4. /\ \A k \in 1..known : so[k].present = object[k].present /\ so[k].set = object[k].set
      /\ \A k \in 0..known : Ends(so, known)[k] = Ends(object, known)[k]
  BY <1>2, SetOffsetLayout
<1>5. /\ \A k \in 1..known : so[k] = object[k] \/ k = holder
      /\ holder # 0 /\ IsPresent(object, here) /\ IsSet(object, here) => so[holder].value = OffsetOf(here, endBitPosition)
  <2>1. OffsetWritten(so, here, endBitPosition)
    BY <1>2, OffsetIsWritten
  <2> QED
    BY <2>1 DEF OffsetWritten
<1> HIDE DEF so
<1>6. ASSUME NEW k \in 1..here, fields[k].offset # 0, IsPresent(so, k), IsSet(so, k)
      PROVE  so[fields[k].offset].value = OffsetOf(k, Ends(so, known)[k - 1])
  <2>1. k \in 1..known /\ k \in 1..Len(fields) /\ k - 1 \in 0..known
    BY <1>2
  <2>2. IsPresent(object, k) /\ IsSet(object, k)
    BY <1>4, <1>6, <2>1 DEF IsPresent, IsSet
  <2>3. Ends(so, known)[k - 1] = Ends(object, known)[k - 1]
    BY <1>4, <2>1
  <2>4. CASE k = here
    BY <1>3, <1>5, <1>6, <2>2, <2>3, <2>4
  <2>5. CASE k # here
    <3>1. k \in 1..index
      BY <1>2, <2>5 DEF here
    <3>2. Holds(object, known, k)
      BY <3>1 DEF Holding
    <3>3. fields[k].offset \in 1..known
      <4>1. fields[k].offset \in 1..(k - 1)
        BY <1>2, <1>6, <2>1, RefersTo
      <4> QED
        BY <1>2, <2>1, <4>1
    <3>4. fields[k].offset # holder
      BY <1>2, <1>6, <2>1, <2>5 DEF PlainSchemas, Plain
    <3> QED
      BY <1>5, <1>6, <2>2, <2>3, <3>2, <3>3, <3>4 DEF Holds
  <2> QED
    BY <2>4, <2>5
<1> QED
  BY <1>1, <1>6 DEF Holds

\* Objects that field i takes the same bits of.
Same(o, w, i) ==
  /\ IsPresent(o, i) <=> IsPresent(w, i)
  /\ IsSet(o, i) <=> IsSet(w, i)
  /\ IsSet(w, i) => o[i].tag = w[i].tag /\ (HasValue(w, i) => o[i].value = w[i].value)

\* What arrived takes the bits it was read from, and starts and ends where they do.
LEMMA KeptIs ==
  ASSUME PlainSchemas, Types, Sent, sent # Nothing, NothingLeft, NEW j \in 0..known, Kept(j)
  PROVE  /\ \A k \in 1..j : Same(object, sent.object, k) /\ IsPresent(sent.object, k)
         /\ \A k \in 0..j : Ends(object, known)[k] = Ends(sent.object, sent.known)[k]
         /\ Ends(object, known)[known] = Ends(sent.object, sent.known)[j]
<1> DEFINE was == sent.object
           many == sent.known
<1>1. fields \in Schemas /\ many \in Versions /\ many \in 1..Len(fields) /\ many \in Nat /\ IsObject(was, many)
      /\ known \in 1..Len(fields) /\ known \in Nat /\ IsObject(object, known) /\ Len(fields) \in Nat
      /\ j \in Nat /\ j =< known /\ j =< many
  <2>1. fields \in Schemas /\ many \in Versions /\ IsObject(was, many) /\ IsObject(object, known) /\ j =< many
    BY DEF Sent, Types, Kept
  <2>2. known \in 1..Len(fields) /\ known \in Nat /\ Len(fields) \in Nat
    BY AtWork
  <2> HIDE DEF many
  <2> QED
    BY <2>1, <2>2, VersionsAre
<1>2. /\ \A k \in 1..many : Good(was, k, IsOffset(k, many), FALSE)
      /\ Contiguous(was, many)
  BY DEF Sent
<1>3. /\ \A k \in 1..j : Got(object, was, k) /\ (fields[k].extended => LeavesTrace(was, many, k))
      /\ \A k \in (j + 1)..known : fields[k].extended /\ ~object[k].present
  BY DEF Kept
<1> HIDE DEF was, many
<1>4. ASSUME NEW k \in 1..j PROVE Same(object, was, k) /\ IsPresent(was, k)
  <2>1. k \in 1..many /\ k \in 1..known /\ k \in 1..Len(fields)
    BY <1>1
  <2>2. Got(object, was, k)
    BY <1>3
  <2>3. IsPresent(was, k) /\ IsPresent(object, k)
    <3>1. ASSUME fields[k].extended PROVE was[k].present
      <4>1. \E b \in 1..many : b >= k /\ fields[b].extended /\ was[b].present
        BY <1>3, <3>1 DEF LeavesTrace, Extended
      <4> QED
        BY <1>1, <1>2, <2>1, <3>1, <4>1 DEF Contiguous
    <3> QED
      BY <2>2, <3>1 DEF IsPresent, Got
  <2>4. IsSet(object, k) <=> IsSet(was, k)
    BY <2>2 DEF Got, IsSet
  <2>5. ASSUME IsSet(was, k) PROVE object[k].tag = was[k].tag /\ (HasValue(was, k) => object[k].value = was[k].value)
    <3>1. CASE ~Empty(object, k)
      BY <2>2, <2>5, <3>1 DEF Got
    <3>2. CASE Empty(object, k)
      <4>1. fields[k].kind = "choice" /\ fields[k].optional = "no" /\ Selected(object, k) = 0
        BY <3>2 DEF Empty
      <4>2. object[k].tag = 0
        BY <2>1, <4>1 DEF NothingLeft, Leftover
      <4> DEFINE c == fields[k].selector
      <4>3. c \in 1..(k - 1) /\ fields[c].optional = "no" /\ fields[c].kind = "number"
        BY <1>1, <2>1, <4>1, RefersTo
      <4>4. c \in 1..j
        BY <1>1, <4>3
      <4> HIDE DEF c
      <4>5. Got(object, was, c) /\ IsSet(was, c) /\ HasValue(was, c) /\ ~Empty(object, c)
        BY <1>3, <4>3, <4>4 DEF IsSet, HasValue, Empty
      <4>6. object[c].value = was[c].value
        BY <4>5 DEF Got
      <4>7. Selected(was, k) = 0
        BY <4>1, <4>6 DEF Selected, c
      <4>8. RightCase(was, k)
        BY <1>2, <2>1, <2>3, <2>5 DEF Good
      <4>9. was[k].tag = 0
        BY <4>1, <4>7, <4>8 DEF RightCase
      <4> QED
        BY <4>1, <4>2, <4>9 DEF HasValue
    <3> QED
      BY <3>1, <3>2
  <2> QED
    BY <2>3, <2>4, <2>5 DEF Same
<1>5. \A k \in 0..j : Ends(object, known)[k] = Ends(was, many)[k]
  <2>1. \A k \in 1..j : \A p \in Nat : End(object, k, p) = End(was, k, p)
    BY <1>4 DEF Same, End
  <2>2. j \in 0..known
    OBVIOUS
  <2> QED
    BY <1>1, <2>1, <2>2, EndsAgree
<1>6. Ends(object, known)[known] = Ends(object, known)[j]
  <2> DEFINE e == Ends(object, known)
             T == {k \in Nat : j + k =< known => e[j + k] = e[j]}
  <2>1. AreEnds(e, object, known)
    BY <1>1, EndsAre
  <2> HIDE DEF e
  <2>2. 0 \in T
    <3>1. j + 0 = j
      BY <1>1
    <3> QED
      BY <3>1
  <2>3. \A k \in T : k + 1 \in T
    <3>1. ASSUME NEW k \in T, j + (k + 1) =< known PROVE e[j + (k + 1)] = e[j]
      <4>1. j + (k + 1) \in 1..known /\ (j + (k + 1)) - 1 = j + k /\ j + k =< known /\ j + (k + 1) \in (j + 1)..known
        BY <1>1, <3>1
      <4>2. e[j + (k + 1)] = End(object, j + (k + 1), e[j + k])
        BY <2>1, <4>1 DEF AreEnds
      <4>3. ~IsPresent(object, j + (k + 1))
        BY <1>3, <4>1 DEF IsPresent
      <4>4. e[j + k] = e[j]
        BY <3>1, <4>1
      <4> QED
        BY <4>2, <4>3, <4>4 DEF End
    <3> QED
      BY <3>1
  <2> HIDE DEF T
  <2>4. T = Nat
    <3>1. T \subseteq Nat
      BY DEF T
    <3> QED
      BY <3>1, <2>2, <2>3, Array!SetInduction
  <2>5. known - j \in Nat /\ j + (known - j) = known
    BY <1>1
  <2>6. known - j \in T
    BY <2>4, <2>5
  <2>7. e[known] = e[j]
    BY <1>1, <2>5, <2>6 DEF T
  <2> QED
    BY <2>7 DEF e
<1>7. j \in 0..j
  BY <1>1
<1> QED
  BY <1>4, <1>5, <1>6, <1>7 DEF was, many

\* The offsets that arrived are those of what is written.
LEMMA KeptHolds ==
  ASSUME PlainSchemas, Types, Sent, Holding, sent # Nothing, NothingLeft, NEW j \in 0..known, Kept(j)
  PROVE  \A i \in 1..known : Holds(object, known, i)
<1> DEFINE was == sent.object
           many == sent.known
<1>1. fields \in Schemas /\ known \in 1..Len(fields) /\ known \in Nat /\ j \in Nat /\ j =< many
      /\ many \in Nat
  <2>1. many \in Versions /\ j =< many
    BY DEF Sent, Kept
  <2>2. many \in Nat
    <3> HIDE DEF many
    <3> QED
      BY <2>1, AtWork, VersionsAre
  <2> QED
    BY <2>1, <2>2, AtWork
<1>2. /\ \A k \in 1..j : Same(object, was, k) /\ IsPresent(was, k)
      /\ \A k \in 0..j : Ends(object, known)[k] = Ends(was, many)[k]
  BY KeptIs
<1>3. \A k \in (j + 1)..known : fields[k].extended /\ ~object[k].present
  BY DEF Kept
<1>4. \A i \in 1..many : Holds(was, many, i)
  BY DEF Holding
<1> HIDE DEF was, many
<1>5. ASSUME NEW i \in 1..known PROVE Holds(object, known, i)
  <2>1. CASE i \in (j + 1)..known
    BY <1>3, <2>1 DEF Holds, IsPresent
  <2>2. CASE i \in 1..j
    <3> SUFFICES ASSUME fields[i].offset # 0, IsSet(object, i)
                 PROVE  object[fields[i].offset].value = OffsetOf(i, Ends(object, known)[i - 1])
      BY DEF Holds
    <3> DEFINE c == fields[i].offset
    <3>1. i \in 1..Len(fields) /\ i \in 1..many /\ i - 1 \in 0..j
      BY <1>1, <2>2
    <3>2. c \in 1..(i - 1) /\ fields[c].optional = "no" /\ fields[c].kind = "number"
      BY <1>1, <3>1, RefersTo
    <3>3. c \in 1..j
      BY <1>1, <2>2, <3>2
    <3> HIDE DEF c
    <3>4. object[c].value = was[c].value
      BY <1>2, <3>2, <3>3 DEF Same, IsSet, HasValue
    <3>5. Holds(was, many, i) /\ IsPresent(was, i) /\ IsSet(was, i)
      BY <1>2, <1>4, <2>2, <3>1 DEF Same
    <3>6. was[c].value = OffsetOf(i, Ends(was, many)[i - 1])
      BY <3>5 DEF Holds, c
    <3> QED
      BY <1>2, <3>1, <3>4, <3>6 DEF c
  <2>3. i \in (j + 1)..known \/ i \in 1..j
    BY <1>1
  <2> QED
    BY <2>1, <2>2, <2>3
<1> QED
  BY <1>5

LEMMA KeptStays ==
  ASSUME UNCHANGED <<fields, known, object, sent, buffer>>
  PROVE  (NothingLeft' <=> NothingLeft) /\ \A j : Kept(j)' <=> Kept(j)
<1>1. NothingLeft' <=> NothingLeft
  BY DEF NothingLeft, Leftover, Selected, Nothing
<1>2. ASSUME NEW j PROVE Kept(j)' <=> Kept(j)
  <2>1. /\ \A o, w, i : Got(o, w, i)' <=> Got(o, w, i)
        /\ \A o, n, i : LeavesTrace(o, n, i)' <=> LeavesTrace(o, n, i)
        /\ \A o, n : Ends(o, n)' = Ends(o, n)
    BY MeaningsStay, FieldsStay
  <2>2. \A p : HasMore(p)' <=> HasMore(p)
    BY DEF HasMore
  <2> QED
    BY <2>1, <2>2 DEF Kept
<1> QED
  BY <1>1, <1>2

LEMMA SentHolding ==
  ASSUME Holding, UNCHANGED <<fields, sent>>
  PROVE  (sent # Nothing => \A i \in 1..sent.known : Holds(sent.object, sent.known, i))'
<1>1. \A o, n, i : Holds(o, n, i)' <=> Holds(o, n, i)
  BY OffsetsStay
<1> QED
  BY <1>1 DEF Holding, Nothing

LEMMA HoldingNext ==
  ASSUME PlainSchemas, Types, Layout, Counted, Sent, Holding, Keeping, [Next]_vars
  PROVE  Holding'
<1>1. ASSUME fields' = fields PROVE \A o, n, i : Holds(o, n, i)' <=> Holds(o, n, i)
  BY <1>1, OffsetsStay
<1>2. CASE \/ ValidateField \/ ReadField \/ SerializeView \/ SerializeDataView
  <2>1. operation' \notin {"initializeOffsets", "write"} /\ UNCHANGED <<fields, sent>>
    BY <1>2 DEF ValidateField, ReadField, SerializeView, SerializeDataView, Busy, Begin
  <2> QED
    BY <2>1, SentHolding DEF Holding
<1>3. CASE InitializeOffsets
  <2>1. operation' = "initializeOffsets" /\ index' = 0 /\ UNCHANGED <<fields, sent>>
    BY <1>3 DEF InitializeOffsets, Begin
  <2> QED
    BY <2>1, SentHolding DEF Holding
<1>4. CASE MeasureField
  <2>1. operation' = operation /\ operation # "write" /\ UNCHANGED <<fields, known, sent>>
    BY <1>4 DEF MeasureField
  <2>2. ASSUME operation = "initializeOffsets" PROVE (\A i \in 1..index : Holds(object, known, i))'
    <3>1. \A i \in 1..index' : Holds(object', known, i)
      BY <1>4, <2>2, MeasureFieldHolding
    <3>2. \A i \in 1..index' : Holds(object, known, i)'
      BY <1>1, <2>1, <3>1
    <3> QED
      BY <3>2
  <2> QED
    BY <2>1, <2>2, SentHolding DEF Holding
<1>5. CASE Write
  <2>1. /\ operation' = "write" /\ UNCHANGED <<fields, known, object, sent, buffer>>
        /\ operation \in {"initializeOffsets", "bitSizeOf"} /\ status = "done"
    BY <1>5 DEF Write, Begin, Did
  <2>2. ASSUME NothingLeft PROVE \A i \in 1..known : Holds(object, known, i)
    <3>1. CASE operation = "initializeOffsets"
      <4>1. index = known
        BY <2>1 DEF Types
      <4> QED
        BY <3>1, <4>1 DEF Holding
    <3>2. CASE operation = "bitSizeOf"
      <4>1. sent # Nothing
        BY <3>2 DEF Counted
      <4>2. PICK j \in 0..known : Kept(j)
        BY <2>2, <3>2, <4>1 DEF Keeping
      <4> QED
        BY <2>2, <4>1, <4>2, KeptHolds
    <3> QED
      BY <2>1, <3>1, <3>2
  <2>3. (NothingLeft => \A i \in 1..known : Holds(object, known, i))'
    <3>1. ASSUME NothingLeft' PROVE \A i \in 1..known : Holds(object, known, i)'
      BY <1>1, <2>1, <2>2, <3>1, KeptStays
    <3> QED
      BY <2>1, <3>1
  <2> QED
    BY <2>1, <2>3, SentHolding DEF Holding
<1>6. CASE WriteField \/ UNCHANGED vars
  <2>1. operation' = operation /\ UNCHANGED <<fields, known, object, sent, buffer>>
        /\ (operation = "initializeOffsets" => index' = index)
    BY <1>6 DEF WriteField, Busy, vars
  <2>2. \A i : Holds(object, known, i)' <=> Holds(object, known, i)
    BY <1>1, <2>1
  <2>3. NothingLeft' <=> NothingLeft
    BY <2>1, KeptStays
  <2> QED
    BY <2>1, <2>2, <2>3, SentHolding DEF Holding
<1>7. CASE \E n \in Versions, d \in Cuts, r \in BOOLEAN :
             \E target \in Targets(n) : Deserialize(n, target, d, r)
  <2>1. /\ operation = "write" /\ sent = Nothing /\ fields' = fields
        /\ sent'.known = known /\ sent'.object = object /\ operation' = "read"
    BY <1>7 DEF Deserialize, Did, Begin
  <2>2. NothingLeft
    BY <2>1 DEF NothingLeft, Leftover
  <2>3. \A i \in 1..known : Holds(object, known, i)
    BY <2>1, <2>2 DEF Holding
  <2>4. \A i \in 1..sent'.known : Holds(sent.object, sent.known, i)'
    BY <1>1, <2>1, <2>3
  <2> QED
    BY <2>1, <2>4 DEF Holding
<1> QED
  BY <1>2, <1>3, <1>4, <1>5, <1>6, <1>7 DEF Next

\* An offset that arrived is set to what it is.
LEMMA OffsetIsKept ==
  ASSUME PlainSchemas, Types, Layout, Sent, Holding, Keeping, MeasureField, sent # Nothing,
         operation = "initializeOffsets", NothingLeft'
  PROVE  NothingLeft /\ object' = object
<1> DEFINE here == index + 1
           so == SetOffset(here, endBitPosition)
           holder == fields[here].offset
<1>1. /\ status = "busy" /\ object' = so /\ UNCHANGED <<fields, known, sent>>
  BY DEF MeasureField
<1>2. here \in 1..known /\ here \in 1..Len(fields) /\ fields \in Schemas /\ known \in 1..Len(fields)
      /\ endBitPosition \in Nat /\ IsObject(object, known) /\ index \in Nat /\ known \in Nat
      /\ Len(fields) \in Nat
  BY <1>1, AtWork DEF Types
<1>3. endBitPosition = Ends(object, known)[here - 1]
  <2>1. here - 1 = index
    BY <1>2
  <2> QED
    BY <2>1 DEF Layout
<1> HIDE DEF here
<1>4. \A k \in 1..known : so[k].tag = object[k].tag
  BY <1>2, SetOffsetLayout
<1>5. \A k \in 1..known : so[k] = object[k] \/ k = holder
  <2>1. OffsetWritten(so, here, endBitPosition)
    BY <1>2, OffsetIsWritten
  <2> QED
    BY <2>1 DEF OffsetWritten
<1>6. NothingLeft
  <2> SUFFICES ASSUME NEW k \in 1..known, Leftover(k) PROVE object[k].tag = 0
    BY DEF NothingLeft
  <2>1. fields[k].kind = "choice" /\ fields[k].optional = "no" /\ Selected(object, k) = 0 /\ sent # Nothing
    BY DEF Leftover
  <2>2. k \in 1..Len(fields) /\ k \in Nat
    BY <1>2
  <2> DEFINE c == fields[k].selector
  <2>3. c \in 1..known /\ (c # holder \/ holder = 0)
    BY <1>2, <2>1, <2>2, RefersTo
  <2>4. so[c] = object[c]
    BY <1>5, <2>3
  <2>5. Selected(object, k)' = 0
    BY <1>1, <2>1, <2>4 DEF Selected
  <2>6. Leftover(k)'
    BY <1>1, <2>1, <2>5 DEF Leftover, Nothing
  <2>7. so[k].tag = 0
    BY <1>1, <2>6 DEF NothingLeft
  <2> QED
    BY <1>4, <2>7
<1>7. PICK j \in 0..known : Kept(j)
  BY <1>6 DEF Keeping
<1>8. Holds(object, known, here)
  BY <1>2, <1>6, <1>7, KeptHolds
<1>9. so = object
  <2>1. CASE ~(holder # 0 /\ IsPresent(object, here) /\ IsSet(object, here))
    BY <2>1 DEF SetOffset
  <2>2. CASE holder # 0 /\ IsPresent(object, here) /\ IsSet(object, here)
    <3>1. object[holder].value = OffsetOf(here, endBitPosition)
      BY <1>3, <1>8, <2>2 DEF Holds
    <3>2. so = [object EXCEPT ![holder].value = object[holder].value]
      BY <2>2, <3>1 DEF SetOffset
    <3>3. object \in [1..known -> ObjectType]
      BY <1>2 DEF IsObject
    <3>4. holder \in 1..known
      <4>1. holder \in 1..(here - 1)
        BY <1>2, <2>2, RefersTo
      <4> QED
        BY <1>2, <4>1
    <3> HIDE DEF holder, so
    <3>5. object[holder] \in ObjectType
      BY <3>3, <3>4
    <3>6. [object[holder] EXCEPT !.value = object[holder].value] = object[holder]
      BY <3>5 DEF ObjectType
    <3> QED
      BY <3>2, <3>3, <3>4, <3>6
  <2> QED
    BY <2>1, <2>2
<1> QED
  BY <1>1, <1>6, <1>9

LEMMA KeepingNext ==
  ASSUME PlainSchemas, Types, Layout, Sent, Reading, Holding, Keeping, [Next]_vars
  PROVE  Keeping'
<1>1. ASSUME UNCHANGED <<fields, known, object, sent, buffer>>, operation # "read" \/ Did("read")
      PROVE  Keeping'
  <2>1. ASSUME sent # Nothing, NothingLeft PROVE \E j \in 0..known : Kept(j)
    <3>1. CASE operation # "read"
      BY <2>1, <3>1 DEF Keeping
    <3>2. CASE Did("read")
      <4>1. operation = "read" /\ status # "thrown" /\ index = known
        BY <3>2 DEF Did, Types
      <4>2. PICK j \in 0..index : ReadTo(j)
        BY <4>1 DEF Reading
      <4>3. Kept(j)
        BY <4>1, <4>2 DEF ReadTo, Kept
      <4> QED
        BY <4>1, <4>3
    <3> QED
      BY <1>1, <3>1, <3>2
  <2>2. (NothingLeft' <=> NothingLeft) /\ \A j : Kept(j)' <=> Kept(j)
    BY <1>1, KeptStays
  <2>3. (sent # Nothing)' <=> (sent # Nothing)
    BY <1>1 DEF Nothing
  <2>4. ASSUME (sent # Nothing)', NothingLeft' PROVE \E j \in 0..known' : Kept(j)'
    BY <1>1, <2>1, <2>2, <2>3, <2>4
  <2> QED
    BY <2>4 DEF Keeping
<1>2. CASE \/ ValidateField \/ InitializeOffsets \/ Write \/ WriteField \/ SerializeView \/ SerializeDataView
  <2>1. UNCHANGED <<fields, known, object, sent, buffer>> /\ (operation # "read" \/ Did("read"))
    BY <1>2 DEF ValidateField, InitializeOffsets, Write, WriteField, SerializeView, SerializeDataView, Busy, Did
  <2> QED
    BY <1>1, <2>1
<1>3. CASE MeasureField
  <2>1. operation \in {"bitSizeOf", "initializeOffsets"} /\ UNCHANGED <<fields, known, sent, buffer>>
        /\ (operation = "bitSizeOf" => object' = object)
    BY <1>3 DEF MeasureField
  <2>2. CASE object' = object
    BY <1>1, <2>1, <2>2
  <2>3. CASE object' # object
    <3>1. operation = "initializeOffsets"
      BY <2>1, <2>3
    <3>2. ~(sent # Nothing /\ NothingLeft')
      BY <1>3, <2>3, <3>1, OffsetIsKept
    <3> QED
      BY <2>1, <3>2 DEF Keeping, Nothing
  <2> QED
    BY <2>2, <2>3
<1>4. CASE ReadField \/ \E n \in Versions, d \in Cuts, r \in BOOLEAN :
             \E target \in Targets(n) : Deserialize(n, target, d, r)
  <2>1. operation' = "read"
    BY <1>4 DEF ReadField, Busy, Deserialize, Begin
  <2> QED
    BY <2>1 DEF Keeping
<1>5. CASE UNCHANGED vars
  <2>1. UNCHANGED <<fields, known, object, sent, buffer, operation>>
    BY <1>5 DEF vars
  <2>2. (NothingLeft' <=> NothingLeft) /\ \A j : Kept(j)' <=> Kept(j)
    BY <2>1, KeptStays
  <2> QED
    BY <2>1, <2>2 DEF Keeping, Nothing
<1> QED
  BY <1>2, <1>3, <1>4, <1>5 DEF Next

\* What holds of offsets, and of an object that is written again.
KeepingInvariant == ReadInvariant /\ Holding /\ Keeping

LEMMA KeepingInvariantHolds ==
  ASSUME PlainSchemas, PresentReused
  PROVE  Spec => []KeepingInvariant
<1>1. Init => Holding /\ Keeping
  BY DEF Init, Holding, Keeping
<1>2. ReadInvariant /\ Holding /\ Keeping /\ [Next]_vars => Holding' /\ Keeping'
  BY HoldingNext, KeepingNext DEF ReadInvariant
<1> QED
  BY <1>1, <1>2, ReadInvariantHolds, PTL DEF Spec, KeepingInvariant

\* A byte position that its holder can hold is held there.
LEMMA OffsetIsHeld ==
  ASSUME PlainSchemas, fields \in Schemas, NEW i \in 1..Len(fields), NEW p \in Nat, fields[i].offset # 0,
         NEW place, place = ValueStart(i, FlagEnd(i, MeasureStart(i, p))),
         place \div 8 < Pow2[ValueTypeBits(fields[i].offset)]
  PROVE  8 * OffsetOf(i, p) = place
<1> DEFINE holder == fields[i].offset
           q == FlagEnd(i, MeasureStart(i, p))
           r == AlignTo(fields[i].alignment, q)
           limit == Pow2[ValueTypeBits(holder)]
<1>1. i \in Nat /\ Len(fields) \in Nat /\ fields[i].alignment \in Nat
  BY FieldTypes
<1>2. holder \in 1..Len(fields)
  <2>1. holder \in 1..(i - 1)
    BY RefersTo
  <2> QED
    BY <1>1, <2>1
<1>3. limit \in Nat \ {0}
  <2>1. ValueTypeBits(holder) \in {8, 16, 32, 64}
    BY <1>2, ValueTypeBitsIs
  <2>2. ValueTypeBits(holder) \in Nat
    BY <2>1
  <2> QED
    BY <2>2, Pow2Is
<1>4. q \in Nat
  <2>1. MeasureStart(i, p) \in Nat
    BY StartsAgree
  <2> QED
    BY <2>1, StartsAgree
<1>5. r \in Nat
  <2> HIDE DEF q
  <2> QED
    BY <1>1, <1>4, AlignToIs
<1>6. place = AlignTo(8, r)
  BY DEF ValueStart
<1>7. OffsetOf(i, p) = (place \div 8) % limit
  BY DEF OffsetOf
<1> HIDE DEF q, r, limit
<1>8. place \in Nat /\ place % 8 = 0
  BY <1>5, <1>6, AlignToByte
<1>9. place \div 8 \in Nat /\ place = 8 * (place \div 8)
  BY <1>8
<1>10. (place \div 8) % limit = place \div 8
  BY <1>3, <1>9 DEF limit
<1> QED
  BY <1>7, <1>9, <1>10

\* LayoutAgrees for every schema: write fills the measured buffer, and each offset is the byte at
\* which its field was written.
THEOREM OffsetsArePlaces ==
  ASSUME PlainSchemas, PresentReused
  PROVE  Spec => []LayoutAgrees
<1>1. KeepingInvariant => LayoutAgrees
  <2> SUFFICES ASSUME KeepingInvariant, Did("write") PROVE
        /\ Len(bits) = bitSize
        /\ \A i \in 1..known :
             fields[i].offset # 0 /\ IsPresent(object, i) /\ IsSet(object, i) /\ NothingLeft
             /\ places[i] \div 8 < Pow2[ValueTypeBits(fields[i].offset)]
             => 8 * object[fields[i].offset].value = places[i]
    BY DEF LayoutAgrees
  <2> DEFINE e == Ends(object, known)
  <2>1. operation = "write" /\ index = known /\ fields \in Schemas /\ known \in 1..Len(fields) /\ known \in Nat
        /\ Len(fields) \in Nat /\ IsObject(object, known)
    BY AtWork DEF Did, KeepingInvariant, ReadInvariant, Types
  <2>2. /\ bitSize = e[known] /\ Len(bits) = e[known]
        /\ \A i \in 1..known : places[i] = ValueStart(i, FlagEnd(i, MeasureStart(i, e[i - 1])))
    BY <2>1 DEF KeepingInvariant, ReadInvariant, Layout
  <2>3. ASSUME NEW i \in 1..known, fields[i].offset # 0, IsPresent(object, i), IsSet(object, i), NothingLeft,
               places[i] \div 8 < Pow2[ValueTypeBits(fields[i].offset)]
        PROVE  8 * object[fields[i].offset].value = places[i]
    <3>1. i \in 1..Len(fields) /\ i - 1 \in 0..known
      BY <2>1
    <3>2. object[fields[i].offset].value = OffsetOf(i, e[i - 1])
      BY <2>1, <2>3 DEF KeepingInvariant, Holding, Holds
    <3>3. e[i - 1] \in Nat
      BY <2>1, <3>1, EndsAre
    <3> HIDE DEF e
    <3> QED
      BY <2>1, <2>2, <2>3, <3>1, <3>2, <3>3, OffsetIsHeld
  <2> QED
    BY <2>2, <2>3
<1> QED
  BY <1>1, KeepingInvariantHolds, PTL

\* A field of two objects that is the same in both is coded alike.
LEMMA CodedAlike ==
  ASSUME fields \in Schemas, NEW m \in 1..Len(fields), NEW w, IsObject(w, m), NEW i \in 1..m, NEW p \in Nat,
         NEW o, Same(o, w, i), IsPresent(w, i), NEW s, Coded(o, i, s, p), NEW u, Coded(w, i, u, p)
  PROVE  \A k \in (p + 1)..End(w, i, p) : s[k] = u[k]
<1> DEFINE start == MeasureStart(i, p)
           flags == FlagEnd(i, start)
           value == ValueStart(i, flags)
           tag == w[i].tag
           tagged == TagBits(i)
           size == CaseBits(i, tag)
<1>1. /\ start \in Nat /\ p =< start /\ flags \in Nat /\ start =< flags /\ value \in Nat /\ flags =< value
      /\ fields[i].optional = "auto" => flags = start + 1
      /\ tagged \in Nat /\ size \in Nat
  <2>1. /\ start \in Nat /\ p =< start /\ flags \in Nat /\ start =< flags /\ value \in Nat /\ flags =< value
        /\ fields[i].optional = "auto" => flags = start + 1
        /\ tag \in 0..Len(fields[i].cases) /\ tagged \in {0, 8} /\ size \in Nat
    BY PartsAre
  <2> HIDE DEF start, flags, value, tagged, size
  <2> QED
    BY <2>1
<1>2. fields[i].optional # "auto" => flags = start
  BY DEF FlagEnd
<1>3. End(w, i, p) = IF IsSet(w, i) THEN value + (tagged + size) ELSE flags
  BY DEF End, ValueBits
<1>4. IsPresent(o, i) /\ (IsSet(o, i) <=> IsSet(w, i)) /\ (IsSet(w, i) => o[i].tag = tag)
  BY DEF Same
<1>5. \A k \in (p + 1)..start : s[k] = 0 /\ u[k] = 0
  BY <1>4 DEF Coded
<1>6. fields[i].optional = "auto" => s[start + 1] = u[start + 1]
  <2> SUFFICES ASSUME fields[i].optional = "auto" PROVE s[start + 1] = u[start + 1]
    OBVIOUS
  <2>1. s[start + 1] = (IF o[i].set THEN 1 ELSE 0) /\ u[start + 1] = (IF w[i].set THEN 1 ELSE 0)
    BY <1>4 DEF Coded
  <2>2. o[i].set <=> w[i].set
    BY <1>4 DEF IsSet
  <2> QED
    BY <2>1, <2>2
<1>7. ASSUME IsSet(w, i) PROVE \A k \in (flags + 1)..value : s[k] = 0 /\ u[k] = 0
  BY <1>4, <1>7 DEF Coded
<1>8. ASSUME IsSet(w, i) PROVE \A k \in 1..tagged : s[value + k] = u[value + k]
  BY <1>4, <1>8 DEF Coded
<1>9. ASSUME IsSet(w, i) PROVE \A k \in 1..size : s[value + tagged + k] = u[value + tagged + k]
  <2>1. CASE HasValue(w, i)
    <3>1. o[i].value = w[i].value
      BY <1>9, <2>1 DEF Same
    <3>2. \A k \in 1..size : s[value + tagged + k] = BitsOf(w[i].value, size)[k]
      BY <1>4, <1>9, <3>1 DEF Coded
    <3>3. \A k \in 1..size : u[value + tagged + k] = BitsOf(w[i].value, size)[k]
      BY <1>9 DEF Coded
    <3> QED
      BY <3>2, <3>3
  <2>2. CASE ~HasValue(w, i)
    <3>1. size = 0
      BY <2>2 DEF HasValue, CaseBits
    <3> HIDE DEF size
    <3>2. \A k \in 1..size : FALSE
      BY <3>1
    <3> QED
      BY <3>2
  <2> QED
    BY <2>1, <2>2
<1> HIDE DEF start, flags, value, tagged, size
<1>10. ASSUME NEW k \in (p + 1)..End(w, i, p) PROVE s[k] = u[k]
  <2>1. k \in Nat /\ k >= p + 1
    <3>1. End(w, i, p) \in Nat
      BY <1>1, <1>3
    <3> QED
      BY <3>1
  <2>2. CASE k =< start
    <3>1. k \in (p + 1)..start
      BY <1>1, <2>1, <2>2
    <3> QED
      BY <1>5, <3>1
  <2>3. CASE k > start /\ k =< flags
    <3>1. k = start + 1 /\ fields[i].optional = "auto"
      BY <1>1, <1>2, <2>1, <2>3
    <3> QED
      BY <1>6, <3>1
  <2>4. CASE k > flags
    <3>1. IsSet(w, i) /\ k =< value + (tagged + size)
      BY <1>1, <1>3, <2>1, <2>4
    <3>2. CASE k =< value
      <4>1. k \in (flags + 1)..value
        BY <1>1, <2>1, <2>4, <3>2
      <4> QED
        BY <1>7, <3>1, <4>1
    <3>3. CASE k > value /\ k =< value + tagged
      <4>1. k - value \in 1..tagged /\ value + (k - value) = k
        BY <1>1, <2>1, <3>3
      <4>2. s[value + (k - value)] = u[value + (k - value)]
        BY <1>8, <3>1, <4>1
      <4> QED
        BY <4>1, <4>2
    <3>4. CASE k > value + tagged
      <4>1. k - (value + tagged) \in 1..size /\ value + tagged + (k - (value + tagged)) = k
        BY <1>1, <2>1, <3>1, <3>4
      <4>2. s[value + tagged + (k - (value + tagged))] = u[value + tagged + (k - (value + tagged))]
        BY <1>9, <3>1, <4>1
      <4> QED
        BY <4>1, <4>2
    <3> QED
      BY <1>1, <2>1, <3>2, <3>3, <3>4
  <2> QED
    BY <1>1, <2>1, <2>2, <2>3, <2>4
<1> QED
  BY <1>10

\* Of what was written again each bit was read.
LEMMA KeptBits ==
  ASSUME PlainSchemas, Types, Layout, Coding, Sent, Did("write"), sent # Nothing, NothingLeft,
         NEW j \in 0..known, Kept(j)
  PROVE  /\ Len(bits) = Ends(sent.object, sent.known)[j]
         /\ \A b \in 1..Len(bits) : bits[b] = sent.bits[b]
<1> DEFINE was == sent.object
           many == sent.known
           e == Ends(object, known)
           g == Ends(was, many)
<1>1. /\ fields \in Schemas /\ many \in 1..Len(fields) /\ many \in Nat /\ IsObject(was, many)
      /\ known \in 1..Len(fields) /\ known \in Nat /\ j \in Nat /\ j =< known /\ j =< many
  <2>1. fields \in Schemas /\ many \in Versions /\ IsObject(was, many) /\ j =< many
    BY DEF Sent, Types, Kept
  <2>2. known \in 1..Len(fields) /\ known \in Nat
    BY AtWork
  <2> HIDE DEF many
  <2> QED
    BY <2>1, <2>2, VersionsAre
<1>2. /\ \A k \in 1..j : Same(object, was, k) /\ IsPresent(was, k)
      /\ \A k \in 0..j : e[k] = g[k]
      /\ e[known] = g[j]
  BY KeptIs
<1>3. /\ Len(bits) = e[known]
      /\ \A k \in 1..known : Coded(object, k, bits, e[k - 1])
  BY DEF Did, Types, Layout, Coding
<1>4. \A k \in 1..many : Coded(was, k, sent.bits, g[k - 1])
  BY DEF Sent
<1>5. AreEnds(g, was, many) /\ \A k \in 0..many : g[k] \in Nat
  BY <1>1, EndsAre
<1> HIDE DEF e, g, was, many
<1> DEFINE T == {k \in Nat : k =< j => \A b \in 1..g[k] : bits[b] = sent.bits[b]}
<1>6. 0 \in T
  BY <1>5 DEF AreEnds
<1>7. \A k \in T : k + 1 \in T
  <2>1. ASSUME NEW k \in T, k + 1 =< j PROVE \A b \in 1..g[k + 1] : bits[b] = sent.bits[b]
    <3> DEFINE i == k + 1
    <3>1. i \in 1..j /\ i \in 1..many /\ i \in 1..known /\ i - 1 = k /\ k \in 0..many /\ k \in 0..j /\ i \in 0..many
      BY <1>1, <2>1
    <3> HIDE DEF i
    <3>2. g[i] = End(was, i, g[k]) /\ g[k] \in Nat /\ g[i] \in Nat
      BY <1>5, <3>1 DEF AreEnds
    <3>3. Coded(object, i, bits, g[k]) /\ Coded(was, i, sent.bits, g[k])
      BY <1>2, <1>3, <1>4, <3>1
    <3>4. Same(object, was, i) /\ IsPresent(was, i)
      BY <1>2, <3>1
    <3>5. \A b \in (g[k] + 1)..End(was, i, g[k]) : bits[b] = sent.bits[b]
      BY <1>1, <3>1, <3>2, <3>3, <3>4, CodedAlike
    <3>6. \A b \in 1..g[k] : bits[b] = sent.bits[b]
      BY <1>1, <2>1, <3>1
    <3>7. \A b \in 1..g[i] : b \in 1..g[k] \/ b \in (g[k] + 1)..g[i]
      BY <3>2
    <3>8. \A b \in 1..g[i] : bits[b] = sent.bits[b]
      BY <3>2, <3>5, <3>6, <3>7
    <3> QED
      BY <3>8 DEF i
  <2> QED
    BY <2>1
<1> HIDE DEF T
<1>8. T = Nat
  <2>1. T \subseteq Nat
    BY DEF T
  <2> QED
    BY <2>1, <1>6, <1>7, Array!SetInduction
<1>9. \A b \in 1..g[j] : bits[b] = sent.bits[b]
  BY <1>1, <1>8 DEF T
<1> QED
  BY <1>2, <1>3, <1>9 DEF g, was, many

\* A reader that was sent the whole and knows all of the fields misses zeros at most.
LEMMA MissedAreZeros ==
  ASSUME PlainSchemas, Types, Sent, sent # Nothing, sent.cut = 0, NEW j \in 0..known, Kept(j), known >= sent.known
  PROVE  \A b \in (Ends(sent.object, sent.known)[j] + 1)..Len(sent.bits) : sent.bits[b] = 0
<1> DEFINE was == sent.object
           many == sent.known
           g == Ends(was, many)
<1>1. /\ fields \in Schemas /\ many \in 1..Len(fields) /\ many \in Nat /\ IsObject(was, many)
      /\ known \in 1..Len(fields) /\ known \in Nat /\ j \in Nat /\ j =< known /\ j =< many /\ many =< known
      /\ Len(fields) \in Nat
  <2>1. fields \in Schemas /\ many \in Versions /\ IsObject(was, many) /\ j =< many
    BY DEF Sent, Types, Kept
  <2>2. known \in 1..Len(fields) /\ known \in Nat /\ Len(fields) \in Nat /\ many =< known
    <3>1. known \in 1..Len(fields) /\ known \in Nat /\ Len(fields) \in Nat
      BY AtWork
    <3>2. many \in Nat
      <4> HIDE DEF many
      <4> QED
        BY <2>1, VersionsAre
    <3> QED
      BY <3>1, <3>2
  <2> HIDE DEF many
  <2> QED
    BY <2>1, <2>2, VersionsAre
<1>2. /\ \A k \in 1..many : Good(was, k, IsOffset(k, many), FALSE)
      /\ \A k \in 1..many : Coded(was, k, sent.bits, g[k - 1])
      /\ Len(sent.bits) = g[many]
  BY DEF Sent
<1>3. AreEnds(g, was, many) /\ \A k \in 0..many : g[k] \in Nat
  BY <1>1, EndsAre
<1>4. /\ \A k \in (j + 1)..known : fields[k].extended
      /\ j < known => ~HasMore(g[j])
  BY DEF Kept
<1>5. j < many => ~LeavesTrace(was, many, j + 1)
  <2> SUFFICES ASSUME j < many, LeavesTrace(was, many, j + 1) PROVE FALSE
    OBVIOUS
  <2> DEFINE x == j + 1
  <2>1. x \in 1..sent.known /\ x \in (j + 1)..known /\ x - 1 = j /\ j < known
    BY <1>1
  <2>2. fields[x].extended /\ LeavesTrace(sent.object, sent.known, x)
    BY <1>4, <2>1
  <2> HIDE DEF x
  <2>3. HasMore(Ends(sent.object, sent.known)[x - 1])
    BY <2>1, <2>2, MoreIsATrace
  <2> QED
    BY <1>4, <2>1, <2>3
<1> HIDE DEF g, was, many
<1>6. ASSUME NEW i \in (j + 1)..many, \A b \in (g[j] + 1)..g[i - 1] : sent.bits[b] = 0
      PROVE  \A b \in (g[j] + 1)..g[i] : sent.bits[b] = 0
  <2>1. i \in 1..many /\ i \in (j + 1)..known /\ i - 1 \in 0..many /\ i \in 0..many /\ j \in 0..many /\ j < many
        /\ i >= j + 1
    BY <1>1
  <2> DEFINE p == g[i - 1]
             a == AlignTo(8, p)
  <2>2. g[i] = End(was, i, p) /\ p \in Nat /\ g[i] \in Nat /\ g[j] \in Nat
    BY <1>3, <2>1 DEF AreEnds
  <2> HIDE DEF p, a
  <2>3. fields[i].extended
    BY <1>4, <2>1
  <2>4. CASE ~IsPresent(was, i)
    <3>1. g[i] = p
      BY <2>2, <2>4 DEF End
    <3> QED
      BY <1>6, <3>1 DEF p
  <2>5. CASE IsPresent(was, i)
    <3>1. ~(fields[i].optional = "auto") /\ ~(IsSet(was, i) /\ ValueBits(i, was[i].tag) > 0)
      <4>1. was[i].present /\ i \in Extended(many)
        BY <2>1, <2>3, <2>5 DEF IsPresent, Extended
      <4> QED
        BY <1>5, <2>1, <4>1 DEF LeavesTrace
    <3>2. IsSet(was, i) => RightCase(was, i)
      BY <1>2, <2>1, <2>5 DEF Good
    <3>3. MeasureStart(i, p) = a /\ End(was, i, p) = a
      BY <1>1, <2>1, <2>2, <2>3, <2>5, <3>1, <3>2, Traceless DEF a
    <3>4. Coded(was, i, sent.bits, p)
      BY <1>2, <2>1 DEF p
    <3>5. \A b \in (p + 1)..a : sent.bits[b] = 0
      BY <2>5, <3>3, <3>4 DEF Coded
    <3>6. \A b \in (g[j] + 1)..g[i] : b \in (g[j] + 1)..p \/ b \in (p + 1)..a
      BY <2>2, <3>3
    <3> QED
      BY <1>6, <3>5, <3>6 DEF p
  <2> QED
    BY <2>4, <2>5
<1> DEFINE T == {k \in Nat : j + k =< many => \A b \in (g[j] + 1)..g[j + k] : sent.bits[b] = 0}
<1>7. 0 \in T
  <2>1. j + 0 = j /\ j \in 0..many
    BY <1>1
  <2>2. g[j] \in Nat
    BY <1>3, <2>1
  <2>3. \A b \in (g[j] + 1)..g[j] : FALSE
    BY <2>2
  <2> QED
    BY <2>1, <2>3
<1>8. \A k \in T : k + 1 \in T
  <2>1. ASSUME NEW k \in T, j + (k + 1) =< many PROVE \A b \in (g[j] + 1)..g[j + (k + 1)] : sent.bits[b] = 0
    <3>1. j + (k + 1) \in (j + 1)..many /\ (j + (k + 1)) - 1 = j + k /\ j + k =< many
      BY <1>1, <2>1
    <3>2. \A b \in (g[j] + 1)..g[j + k] : sent.bits[b] = 0
      BY <2>1, <3>1
    <3> DEFINE i == j + (k + 1)
    <3>3. i \in (j + 1)..many /\ \A b \in (g[j] + 1)..g[i - 1] : sent.bits[b] = 0
      BY <3>1, <3>2
    <3> HIDE DEF i
    <3>4. \A b \in (g[j] + 1)..g[i] : sent.bits[b] = 0
      BY <1>6, <3>3
    <3> QED
      BY <3>4 DEF i
  <2> QED
    BY <2>1
<1> HIDE DEF T
<1>9. T = Nat
  <2>1. T \subseteq Nat
    BY DEF T
  <2> QED
    BY <2>1, <1>7, <1>8, Array!SetInduction
<1>10. \A b \in (g[j] + 1)..g[many] : sent.bits[b] = 0
  <2>1. many - j \in Nat /\ j + (many - j) = many
    BY <1>1
  <2>2. many - j \in T
    BY <1>9, <2>1
  <2> QED
    BY <1>1, <2>1, <2>2 DEF T
<1> QED
  BY <1>2, <1>10 DEF g, was, many

\* SameBits for every schema: what was read is written as the bits it was read from.
THEOREM BitsStayTheSame ==
  ASSUME PlainSchemas, PresentReused
  PROVE  Spec => []SameBits
<1>1. KeepingInvariant => SameBits
  <2> SUFFICES ASSUME KeepingInvariant, Did("write"), sent # Nothing, NothingLeft
               PROVE  /\ IsPrefix(bits, sent.bits)
                      /\ known >= sent.known /\ sent.cut = 0
                         => \A k \in (Len(bits) + 1)..Len(sent.bits) : sent.bits[k] = 0
    BY DEF SameBits
  <2> DEFINE g == Ends(sent.object, sent.known)
  <2>1. PICK j \in 0..known : Kept(j)
    BY DEF KeepingInvariant, Keeping, Did
  <2>2. Len(bits) = g[j] /\ \A b \in 1..Len(bits) : bits[b] = sent.bits[b]
    BY <2>1, KeptBits DEF KeepingInvariant, ReadInvariant
  <2>3. bits \in Seq({0, 1}) /\ sent.bits \in Seq({0, 1}) /\ Len(bits) =< Len(sent.bits)
    <3>1. bits \in Seq({0, 1}) /\ sent.bits \in Seq({0, 1}) /\ Len(sent.bits) = g[sent.known]
      BY DEF KeepingInvariant, ReadInvariant, Types, Sent
    <3>2. sent.known \in Versions /\ fields \in Schemas /\ IsObject(sent.object, sent.known) /\ j =< sent.known
      BY <2>1 DEF KeepingInvariant, ReadInvariant, Types, Sent, Kept
    <3> DEFINE many == sent.known
    <3> HIDE DEF many
    <3>3. many \in 1..Len(fields) /\ many \in Nat
      BY <3>2, VersionsAre DEF many
    <3>4. known \in Nat
      BY AtWork DEF KeepingInvariant, ReadInvariant
    <3>5. many \in 0..many /\ j \in 0..many
      BY <3>2, <3>3, <3>4 DEF many
    <3>6. Ends(sent.object, many)[j] =< Ends(sent.object, many)[many]
      BY <3>2, <3>3, <3>5, EndsAre DEF many
    <3> QED
      BY <2>2, <3>1, <3>6 DEF many
  <2>4. IsPrefix(bits, sent.bits)
    <3> DEFINE s == sent.bits
               t == bits
    <3>1. 0 \in Nat /\ 0 + Len(t) =< Len(s) /\ 0 + Len(t) =< Len(t) /\ 0 + Len(t) = Len(t) /\ Len(t) \in Nat
      BY <2>3
    <3>2. /\ \A k \in 1..Len(t) : s[0 + k] = t[k]
          /\ \A k \in 1..Len(t) : t[0 + k] = t[k]
      BY <2>2
    <3>3. s \in Seq({0, 1}) /\ t \in Seq({0, 1})
      BY <2>3
    <3> HIDE DEF s, t
    <3>4. SubSeq(s, 0 + 1, 0 + Len(t)) = t
      BY <3>1, <3>2, <3>3, SubSeqIs
    <3>5. SubSeq(t, 0 + 1, 0 + Len(t)) = t
      BY <3>1, <3>2, <3>3, SubSeqIs
    <3> QED
      BY <2>3, <3>1, <3>4, <3>5 DEF IsPrefix, s, t
  <2>5. ASSUME known >= sent.known, sent.cut = 0 PROVE \A k \in (Len(bits) + 1)..Len(sent.bits) : sent.bits[k] = 0
    BY <2>1, <2>2, <2>5, MissedAreZeros DEF KeepingInvariant, ReadInvariant
  <2> QED
    BY <2>4, <2>5
<1> QED
  BY <1>1, KeepingInvariantHolds, PTL

-------------------------------------------------------------------------------
(* Arrays, as they are used beside the rest.                               *)

\* Whatever is used, the array is in a behaviour of its own.
LEMMA ArrayInBehaviours == MCSpec => Array!Spec
<1>1. MCInit => Array!Init
  BY DEF MCInit, IdleArray
<1>2. [MCNext]_<<part, arrayVars, vars, variantVars, optionalVars>> => [Array!Next]_(Array!vars)
  BY DEF MCNext, arrayVars, Array!vars
<1> QED
  BY <1>1, <1>2, PTL DEF MCSpec, Array!Spec

\* bitSizeOf, initializeOffsets and write move by the same number of bits and put the elements of an
\* aligned array at their offsets.
THEOREM ArraysAreLaidOut == MCSpec => []ArrayLayoutAgrees
<1>1. Array!Spec => []Array!LayoutAgrees
  BY Array!Layout, ArrayAssumption
<1>2. Array!LayoutAgrees => ArrayLayoutAgrees
  BY DEF ArrayLayoutAgrees
<1> QED
  BY ArrayInBehaviours, <1>1, <1>2, PTL

\* An array is written unless bits are missing.
THEOREM ArraysAreWritten == MCSpec => []WriteThrowsIffCut
<1>1. Array!Spec => []Array!WriteThrowsIffCut
  BY Array!NoThrow, ArrayAssumption
<1>2. Array!WriteThrowsIffCut => WriteThrowsIffCut
  BY DEF WriteThrowsIffCut
<1> QED
  BY ArrayInBehaviours, <1>1, <1>2, PTL

\* What was written is read back, element by element; a buffer in which bits are missing is not read
\* as an array, and what is stored of it is a prefix.
THEOREM ArraysAreRead == MCSpec => []ArrayRoundTrip
<1>1. Array!Spec => [](Array!RoundTrip /\ Array!CutReadsPrefix)
  BY Array!Reading, ArrayAssumption
<1>2. Array!RoundTrip /\ Array!CutReadsPrefix => ArrayRoundTrip
  BY DEF ArrayRoundTrip
<1> QED
  BY ArrayInBehaviours, <1>1, <1>2, PTL

\* Packing costs one bit at most.
THEOREM ArraysPay == MCSpec => []PackingPays
<1>1. Array!Spec => []Array!PackingPays
  BY Array!Paying, ArrayAssumption
<1>2. Array!PackingPays => PackingPays
  BY DEF PackingPays
<1> QED
  BY ArrayInBehaviours, <1>1, <1>2, PTL

\* Arrays and structures are of their types.
THEOREM ArraysAndStructuresAreTyped ==
  ASSUME PlainSchemas
  PROVE  MCSpec => []TypesOK
<1>1. MCInit => Init
  BY DEF MCInit, IdleStructure
<1>2. [MCNext]_<<part, arrayVars, vars, variantVars, optionalVars>> => [Next]_vars
  BY DEF MCNext
<1>3. MCSpec => Spec
  BY <1>1, <1>2, PTL DEF MCSpec, Spec
<1>4. Spec => []TypeOK
  BY StructureTypes
<1>5. Array!Spec => []Array!TypeOK
  BY Array!TypeCorrect, ArrayAssumption
<1>6. Array!TypeOK /\ TypeOK => TypesOK
  BY DEF TypesOK
<1> QED
  BY ArrayInBehaviours, <1>3, <1>4, <1>5, <1>6, PTL

-------------------------------------------------------------------------------
(* Variants and optionals, as they are used beside the rest.               *)

\* Whatever is used, the variants and the optionals are in a behaviour of their own.
LEMMA HoldersInBehaviours ==
  /\ MCInit => Variants!InitVariants /\ Optionals!InitOptionals
  /\ [MCNext]_<<part, arrayVars, vars, variantVars, optionalVars>> =>
       [Variants!NextVariants]_(Variants!heldVars) /\ [Optionals!NextOptionals]_(Optionals!optionalVars)
<1>1. MCInit => Variants!InitVariants /\ Optionals!InitOptionals
  BY DEF MCInit
<1>2. [MCNext]_<<part, arrayVars, vars, variantVars, optionalVars>> =>
        [Variants!NextVariants]_(Variants!heldVars) /\ [Optionals!NextOptionals]_(Optionals!optionalVars)
  BY DEF MCNext, variantVars, optionalVars, Variants!heldVars, Optionals!optionalVars, Optionals!heldVars
<1> QED
  BY <1>1, <1>2

\* A block of a variant or an optional has one owner at most, and an optional's goes back to the
\* allocator it is from, as a variant's does unless containers swap their allocators, whatever is
\* copied, moved, swapped and throws, up to what is undefined. A block of a variant is lost only by a
\* copy, move or swap that throws, and what is undefined comes only of a copy that throws or a swap of
\* unequal allocators.
THEOREM HoldersOwnTheirBlocks == MCSpec => OneOwner
<1>1. MCSpec => Variants!VariantSpec /\ Optionals!OptionalSpec
  BY HoldersInBehaviours, PTL DEF MCSpec, Variants!VariantSpec, Optionals!OptionalSpec
<1>2. Variants!OneOwner /\ Optionals!OneOwner =>
        (part = "variant" => Variants!OneOwner) /\ (part = "optional" => Optionals!OneOwner)
  OBVIOUS
<1>3. Variants!VariantSpec => []Variants!OneOwner
  BY Variants!VariantsHaveOneOwner, HoldersAssumption
<1>4. Optionals!OptionalSpec => []Optionals!OneOwner
  BY Optionals!OptionalsHaveOneOwner, HoldersAssumption
<1>5. Variants!VariantSpec => Variants!KeepsOrder
  BY Variants!VariantsKeepOrder, HoldersAssumption
<1>6. [Variants!OrderKept]_(Variants!heldVars) => [part = "variant" => Variants!OrderKept]_variantVars
  BY DEF Variants!heldVars, variantVars
<1> QED
  BY <1>1, <1>2, <1>3, <1>4, <1>5, <1>6, PTL DEF OneOwner, Variants!KeepsOrder

\* A call does what it says to the variants and optionals it names, and nothing to the others: each
\* of the two implements ValueHolder, step by step.
THEOREM HoldersImplementHolder == MCSpec => ImplementsHolder
<1>1. MCSpec => Variants!VariantSpec /\ Optionals!OptionalSpec
  BY HoldersInBehaviours, PTL DEF MCSpec, Variants!VariantSpec, Optionals!OptionalSpec
<1>2. Variants!VariantSpec => Variants!ImplementsHolder
  BY Variants!VariantsImplementHolder, HoldersAssumption
<1>3. Optionals!OptionalSpec => Optionals!ImplementsHolder
  BY Optionals!OptionalsImplementHolder, HoldersAssumption
<1>4. [Variants!Promised!AnyNext \/ v_world'.misused]_(Variants!Promised!holderVars)
      /\ [Optionals!Promised!Next]_(Optionals!Promised!holderVars)
      => [/\ part = "variant" => Variants!HolderStep
          /\ part = "optional" => Optionals!HolderStep]_<<variantVars, optionalVars>>
  BY DEF Variants!HolderStep, Optionals!HolderStep
<1> QED
  BY <1>1, <1>2, <1>3, <1>4, PTL
  DEF ImplementsHolder, Variants!ImplementsHolder, Optionals!ImplementsHolder, Optionals!Promised!Spec
===============================================================================
