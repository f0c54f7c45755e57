----------------------- MODULE ZserioTreeCreatorProofs -----------------------
(***************************************************************************)
(* The creator, for every schema and every sequence of calls: the two stacks *)
(* stay aligned, the object is one of the schema all the time, and the       *)
(* creator is a cursor in it (ObjectBuilder).                              *)
(*                                                                         *)
(* Aligned is not inductive as it stands: when an array or a compound is    *)
(* ended, the field below becomes the top one, and nothing is known of it.  *)
(* Inv adds that of every field on the stack: what is open is an array or a  *)
(* compound, and everything below the top is a compound.                   *)
(*                                                                         *)
(* Nor are TopIsOfTheType and ObjectFits. Fits looks at a tree as deep as MaxDepth *)
(* only, and an object that is appended to an array has to be one of the    *)
(* schema in all its depth: IInv says Sound instead. And when a field is    *)
(* closed, the pointer below it has to lead to what the field below it was  *)
(* opened as: Located says so of every field on the stack.                 *)
(*                                                                         *)
(* Memory that is exhausted between two pushes ends what is known of the    *)
(* stacks, and not what is known of the object: Spoiled.                    *)
(***************************************************************************)
EXTENDS ZserioTreeCreator, SequenceTheorems, FiniteSetTheorems, WellFoundedInduction, TLAPS

-----------------------------------------------------------------------------
(***************************************************************************)
(* Objects of any schema and paths of any length: what Get, Put and Exists   *)
(* do with a path, what a new object is, and which objects are sound.       *)
(*                                                                         *)
(* All of these are recursive functions, so each needs an induction. It is   *)
(* made with sets: a set of natural numbers that has 0, and with a number   *)
(* the next one, has all of them. The paths grow at their ends: every fact   *)
(* is shown for the empty path, and for a path with one more key from the   *)
(* path without it.                                                        *)
(***************************************************************************)

\* Names and indexes.
Keys == STRING \union Nat

Paths == Seq(Keys)
-----------------------------------------------------------------------------
(* Induction.                                                              *)

\* The order of the natural numbers is well-founded.
LEMMA LessIsWellFounded ==
    \E R : IsWellFoundedOn(R, Nat) /\ \A i, j \in Nat : i < j => <<i, j>> \in R
<1> DEFINE R == OpToRel(<, Nat)
<1>1. IsWellFoundedOn(R, Nat)
  BY NatLessThanWellFounded
<1>2. \A i, j \in Nat : i < j => <<i, j>> \in R
  BY DEF OpToRel
<1> HIDE DEF R
<1> QED
  BY <1>1, <1>2

\* A set of natural numbers that is not empty has a least element.
LEMMA LeastNatural ==
    ASSUME NEW T, T \subseteq Nat, T # {}
    PROVE  \E n \in T : \A m \in T : n <= m
<1>1. PICK R : IsWellFoundedOn(R, Nat) /\ \A i, j \in Nat : i < j => <<i, j>> \in R
  BY LessIsWellFounded
<1>2. \E x \in T : \A y \in T : ~(<<y, x>> \in R)
  <2>1. IsWellFoundedOn(R, Nat) /\ T \subseteq Nat /\ T # {}
    BY <1>1, Zenon
  <2> QED
    BY ONLY <2>1, WFMin, Zenon
<1>3. PICK x \in T : \A y \in T : ~(<<y, x>> \in R)
  BY <1>2
<1>4. ASSUME NEW m \in T PROVE x <= m
  <2>1. m \in Nat /\ x \in Nat /\ ~(m < x)
    BY <1>1, <1>3
  <2> QED
    BY <2>1
<1> QED
  BY <1>4

LEMMA SetInduction ==
    ASSUME NEW S, S \subseteq Nat, 0 \in S, \A n \in S : n + 1 \in S
    PROVE  S = Nat
<1> SUFFICES ASSUME S # Nat PROVE FALSE
  OBVIOUS
<1>1. PICK n \in Nat \ S : \A m \in Nat \ S : n <= m
  BY LeastNatural
<1>2. n # 0 /\ n - 1 \in S
  BY <1>1
<1> QED
  BY <1>1, <1>2
-----------------------------------------------------------------------------
(* Paths.                                                                  *)

LEMMA AppendPath ==
    ASSUME NEW path \in Paths, NEW key \in Keys
    PROVE  /\ Append(path, key) \in Paths
           /\ Len(Append(path, key)) = Len(path) + 1
           /\ Append(path, key)[Len(path) + 1] = key
           /\ \A i \in 1..Len(path) : Append(path, key)[i] = path[i]
BY AppendProperties DEF Paths

\* The path without its last key.
Above(path) == SubSeq(path, 1, Len(path) - 1)

LEMMA AboveOfAppend ==
    ASSUME NEW path \in Paths, NEW key \in Keys
    PROVE  Above(Append(path, key)) = path
<1>1. Append(path, key) \in Paths /\ Len(path) \in Nat /\ Len(Append(path, key)) = Len(path) + 1
  BY AppendPath DEF Paths
<1>2. Above(Append(path, key)) = [i \in 1..Len(path) |-> Append(path, key)[i]]
  BY <1>1 DEF Above
<1>3. path = [i \in 1..Len(path) |-> path[i]]
  BY DEF Paths
<1> QED
  BY <1>2, <1>3, AppendPath

\* A path that is not empty is one with a key more.
LEMMA PathIsAppend ==
    ASSUME NEW path \in Paths, path # <<>>
    PROVE  /\ Above(path) \in Paths
           /\ Len(Above(path)) = Len(path) - 1
           /\ path[Len(path)] \in Keys
           /\ path = Append(Above(path), path[Len(path)])
<1>1. Len(path) \in Nat /\ Len(path) # 0 /\ path = [i \in 1..Len(path) |-> path[i]]
  BY EmptySeq DEF Paths
<1>2. \A i \in 1..Len(path) : path[i] \in Keys
  BY ElementOfSeq DEF Paths
<1>3. Above(path) = [i \in 1..(Len(path) - 1) |-> path[i]]
  BY <1>1 DEF Above
<1>4. Above(path) \in Paths /\ Len(Above(path)) = Len(path) - 1
  BY <1>1, <1>2, <1>3 DEF Paths
<1>5. path[Len(path)] \in Keys
  BY <1>1, <1>2
<1>6. PICK above \in Paths : above = Above(path)
  BY <1>4
<1>7. PICK joined \in Paths : joined = Append(above, path[Len(path)])
  BY <1>5, AppendPath
<1>8. /\ Len(joined) = Len(above) + 1
      /\ joined[Len(above) + 1] = path[Len(path)]
      /\ \A i \in 1..Len(above) : joined[i] = above[i]
  BY <1>5, <1>7, AppendPath
<1>9. joined = [i \in 1..Len(joined) |-> joined[i]]
  BY DEF Paths
<1>10. joined = path
  <2>1. Len(above) + 1 = Len(path) /\ \A i \in 1..Len(above) : above[i] = path[i]
    BY <1>1, <1>3, <1>4, <1>6
  <2>2. Len(joined) = Len(path)
    BY <1>8, <2>1
  <2>3. ASSUME NEW i \in 1..Len(path) PROVE joined[i] = path[i]
    <3>1. i \in 1..Len(above) \/ i = Len(above) + 1
      BY <1>1, <2>1
    <3> QED
      BY <1>8, <2>1, <3>1
  <2> QED
    BY <1>1, <1>9, <2>2, <2>3
<1> QED
  BY <1>4, <1>5, <1>6, <1>7, <1>10
-----------------------------------------------------------------------------
(* Get: a walk from the root, a key at a time.                              *)

IsWalk(f, whole, path, n) ==
    f = [i \in 0..n |-> IF i = 0 THEN whole ELSE f[i - 1].at[path[i]]]

LEMMA WalkExists ==
    ASSUME NEW whole, NEW path, NEW n \in Nat
    PROVE  \E f : IsWalk(f, whole, path, n)
<1> DEFINE S == {m \in Nat : \E f : IsWalk(f, whole, path, m)}
<1>1. 0 \in S
  <2>1. IsWalk([i \in 0..0 |-> whole], whole, path, 0)
    BY DEF IsWalk
  <2> QED
    BY <2>1
<1>2. ASSUME NEW m \in S PROVE m + 1 \in S
  <2>1. PICK f : IsWalk(f, whole, path, m)
    OBVIOUS
  <2> DEFINE g == [i \in 0..(m + 1) |-> IF i <= m THEN f[i] ELSE f[m].at[path[m + 1]]]
  <2>2. \A i \in 0..m : f[i] = IF i = 0 THEN whole ELSE f[i - 1].at[path[i]]
    BY <2>1 DEF IsWalk
  <2>3. \A i \in 0..(m + 1) : g[i] = IF i = 0 THEN whole ELSE g[i - 1].at[path[i]]
    <3> SUFFICES ASSUME NEW i \in 0..(m + 1)
                 PROVE  g[i] = IF i = 0 THEN whole ELSE g[i - 1].at[path[i]]
      OBVIOUS
    <3>1. CASE i <= m
      <4>1. g[i] = f[i] /\ (i # 0 => g[i - 1] = f[i - 1])
        BY <3>1
      <4> QED
        BY <2>2, <3>1, <4>1
    <3>2. CASE i = m + 1
      <4>1. g[i] = f[m].at[path[m + 1]] /\ g[m] = f[m] /\ i # 0 /\ i - 1 = m
        BY <3>2
      <4> QED
        BY <3>2, <4>1
    <3> QED
      BY <3>1, <3>2
  <2>4. IsWalk(g, whole, path, m + 1)
    BY <2>3, Zenon DEF IsWalk
  <2> QED
    BY <2>4
<1>3. S = Nat
  <2> HIDE DEF S
  <2>1. S \subseteq Nat
    BY DEF S
  <2> QED
    BY <1>1, <1>2, <2>1, SetInduction
<1> QED
  BY <1>3

\* Two walks along the same keys are the same.
LEMMA WalksAgree ==
    ASSUME NEW whole, NEW p, NEW q, NEW m \in Nat, NEW n \in Nat, m <= n,
           NEW f, NEW g, IsWalk(f, whole, p, m), IsWalk(g, whole, q, n),
           \A i \in 1..m : p[i] = q[i]
    PROVE  \A i \in 0..m : f[i] = g[i]
<1> DEFINE S == {i \in Nat : i <= m => f[i] = g[i]}
<1>1. /\ \A i \in 0..m : f[i] = IF i = 0 THEN whole ELSE f[i - 1].at[p[i]]
      /\ \A i \in 0..n : g[i] = IF i = 0 THEN whole ELSE g[i - 1].at[q[i]]
  BY DEF IsWalk
<1>2. 0 \in S
  BY <1>1
<1>3. ASSUME NEW i \in S PROVE i + 1 \in S
  <2> SUFFICES ASSUME i + 1 <= m PROVE f[i + 1] = g[i + 1]
    OBVIOUS
  <2>1. f[i] = g[i] /\ p[i + 1] = q[i + 1]
    OBVIOUS
  <2>2. i + 1 \in 0..m /\ i + 1 \in 0..n /\ i + 1 # 0 /\ (i + 1) - 1 = i
    OBVIOUS
  <2>3. f[i + 1] = f[i].at[p[i + 1]] /\ g[i + 1] = g[i].at[q[i + 1]]
    BY <1>1, <2>2
  <2> QED
    BY <2>1, <2>3
<1>4. S = Nat
  <2> HIDE DEF S
  <2>1. S \subseteq Nat
    BY DEF S
  <2> QED
    BY <1>2, <1>3, <2>1, SetInduction
<1> QED
  BY <1>4

LEMMA GetIsWalk ==
    ASSUME NEW whole, NEW path, Len(path) \in Nat
    PROVE  \E f : IsWalk(f, whole, path, Len(path)) /\ Get(whole, path) = f[Len(path)]
<1> DEFINE walk == CHOOSE f : f = [i \in 0..Len(path) |->
                                      IF i = 0 THEN whole ELSE f[i - 1].at[path[i]]]
<1>1. Get(whole, path) = walk[Len(path)]
  BY Zenon DEF Get
<1>2. IsWalk(walk, whole, path, Len(path))
  <2>1. PICK f : IsWalk(f, whole, path, Len(path))
    BY WalkExists
  <2>2. \E g : g = [i \in 0..Len(path) |-> IF i = 0 THEN whole ELSE g[i - 1].at[path[i]]]
    BY <2>1, Zenon DEF IsWalk
  <2> QED
    BY <2>2, Zenon DEF IsWalk
<1> QED
  BY <1>1, <1>2, Zenon

LEMMA GetEmpty == ASSUME NEW whole PROVE Get(whole, <<>>) = whole
<1>1. PICK f : IsWalk(f, whole, <<>>, 0) /\ Get(whole, <<>>) = f[0]
  BY GetIsWalk
<1> QED
  BY <1>1 DEF IsWalk

LEMMA GetAppend ==
    ASSUME NEW whole, NEW path \in Paths, NEW key \in Keys
    PROVE  Get(whole, Append(path, key)) = Get(whole, path).at[key]
<1> DEFINE n == Len(path)
           longer == Append(path, key)
<1>1. n \in Nat /\ Len(longer) = n + 1 /\ longer[n + 1] = key /\ \A i \in 1..n : path[i] = longer[i]
  BY AppendPath DEF Paths
<1> HIDE DEF n, longer
<1>2. PICK f : IsWalk(f, whole, path, n) /\ Get(whole, path) = f[n]
  BY <1>1, GetIsWalk DEF n
<1>3. PICK g : IsWalk(g, whole, longer, n + 1) /\ Get(whole, longer) = g[n + 1]
  BY <1>1, GetIsWalk
<1>4. f[n] = g[n]
  <2>1. n + 1 \in Nat /\ n <= n + 1 /\ n \in 0..n
    BY <1>1
  <2>2. \A i \in 0..n : f[i] = g[i]
    BY <1>1, <1>2, <1>3, <2>1, WalksAgree
  <2> QED
    BY <2>1, <2>2
<1>5. g[n + 1] = g[n].at[key]
  BY <1>1, <1>3 DEF IsWalk
<1> QED
  BY <1>2, <1>3, <1>4, <1>5 DEF longer
-----------------------------------------------------------------------------
(* Put: the nodes from the one that is put up to the root, each with the one *)
(* below it replaced.                                                       *)

\* A node with another child.
Replaced(node, key, child) == [node EXCEPT !.at[key] = child]

IsPatch(f, whole, path, node) ==
    f = [i \in 0..Len(path) |->
            IF i = Len(path)
            THEN node
            ELSE Replaced(Get(whole, SubSeq(path, 1, i)), path[i + 1], f[i + 1])]

LEMMA PatchEquation ==
    ASSUME NEW f, NEW whole, NEW path \in Paths, NEW node, IsPatch(f, whole, path, node)
    PROVE  /\ f[Len(path)] = node
           /\ \A i \in 0..Len(path) : i # Len(path) =>
                 f[i] = Replaced(Get(whole, SubSeq(path, 1, i)), path[i + 1], f[i + 1])
<1>1. \A i \in 0..Len(path) :
         f[i] = IF i = Len(path)
                THEN node
                ELSE Replaced(Get(whole, SubSeq(path, 1, i)), path[i + 1], f[i + 1])
  BY Zenon DEF IsPatch
<1>2. Len(path) \in 0..Len(path)
  BY DEF Paths
<1> QED
  BY <1>1, <1>2, Zenon

LEMMA PatchesAgree ==
    ASSUME NEW whole, NEW path \in Paths, NEW node, NEW f, NEW g,
           IsPatch(f, whole, path, node), IsPatch(g, whole, path, node)
    PROVE  f[0] = g[0]
<1> DEFINE n == Len(path)
           S == {j \in Nat : j <= n => f[n - j] = g[n - j]}
<1>1. n \in Nat
  BY DEF Paths
<1>2. /\ f[n] = node
      /\ \A i \in 0..n : i # n =>
            f[i] = Replaced(Get(whole, SubSeq(path, 1, i)), path[i + 1], f[i + 1])
  BY PatchEquation, Zenon
<1>3. /\ g[n] = node
      /\ \A i \in 0..n : i # n =>
            g[i] = Replaced(Get(whole, SubSeq(path, 1, i)), path[i + 1], g[i + 1])
  BY PatchEquation, Zenon
<1> HIDE DEF n
<1>4. 0 \in S
  <2>1. n - 0 = n /\ n \in 0..n
    BY <1>1
  <2> QED
    BY <1>2, <1>3, <2>1
<1>5. ASSUME NEW j \in S PROVE j + 1 \in S
  <2> SUFFICES ASSUME j + 1 <= n PROVE f[n - (j + 1)] = g[n - (j + 1)]
    OBVIOUS
  <2>1. PICK i \in 0..n : i = n - (j + 1) /\ i # n /\ i + 1 = n - j
    BY <1>1
  <2>2. f[i + 1] = g[i + 1]
    BY <1>1, <2>1
  <2>3. /\ f[i] = Replaced(Get(whole, SubSeq(path, 1, i)), path[i + 1], f[i + 1])
        /\ g[i] = Replaced(Get(whole, SubSeq(path, 1, i)), path[i + 1], g[i + 1])
    BY <1>2, <1>3, <2>1, Zenon
  <2>4. f[i] = g[i]
    BY <2>2, <2>3, Zenon
  <2> QED
    BY <2>1, <2>4, Zenon
<1>6. S = Nat
  <2> HIDE DEF S
  <2>1. S \subseteq Nat
    BY DEF S
  <2> QED
    BY <1>4, <1>5, <2>1, SetInduction
<1>7. n \in S /\ n - n = 0
  BY <1>1, <1>6
<1> QED
  BY <1>1, <1>7

\* A patch along a longer path is one along the shorter path, with the node above patched.
LEMMA PatchAppend ==
    ASSUME NEW whole, NEW path \in Paths, NEW key \in Keys, NEW node, NEW f, NEW above,
           above = Replaced(Get(whole, path), key, node), IsPatch(f, whole, path, above)
    PROVE  \E g : IsPatch(g, whole, Append(path, key), node) /\ g[0] = f[0]
<1> DEFINE n == Len(path)
           longer == Append(path, key)
           g == [i \in 0..(n + 1) |-> IF i <= n THEN f[i] ELSE node]
<1>1. n \in Nat /\ Len(longer) = n + 1 /\ longer[n + 1] = key /\ \A i \in 1..n : longer[i] = path[i]
  BY AppendPath DEF Paths
<1>2. /\ f[n] = above
      /\ \A i \in 0..n : i # n =>
            f[i] = Replaced(Get(whole, SubSeq(path, 1, i)), path[i + 1], f[i + 1])
  BY PatchEquation
<1>3. \A i \in 0..n : SubSeq(longer, 1, i) = SubSeq(path, 1, i)
  BY <1>1
<1>4. SubSeq(path, 1, n) = path
  BY DEF Paths
<1>5. \A i \in 0..(n + 1) :
         g[i] = IF i = n + 1 THEN node
                ELSE Replaced(Get(whole, SubSeq(longer, 1, i)), longer[i + 1], g[i + 1])
  <2> SUFFICES ASSUME NEW i \in 0..(n + 1)
               PROVE  g[i] = IF i = n + 1 THEN node
                             ELSE Replaced(Get(whole, SubSeq(longer, 1, i)), longer[i + 1], g[i + 1])
    OBVIOUS
  <2> HIDE DEF n, longer
  <2>1. CASE i = n + 1
    BY <1>1, <2>1
  <2>2. CASE i = n
    <3>1. g[i] = above /\ g[i + 1] = node /\ longer[i + 1] = key /\ i # n + 1 /\ i \in 0..n
      <4>1. i # n + 1 /\ i \in 0..n /\ i + 1 \in 0..(n + 1) /\ ~(i + 1 <= n)
        BY <1>1, <2>2
      <4>2. g[i] = f[i] /\ g[i + 1] = node
        BY <2>2, <4>1
      <4> QED
        BY <1>1, <1>2, <2>2, <4>1, <4>2
    <3>2. SubSeq(longer, 1, i) = path
      BY <1>3, <1>4, <2>2, <3>1
    <3> HIDE DEF g
    <3> QED
      BY <3>1, <3>2, Zenon
  <2>3. CASE i < n
    <3>1. /\ g[i] = f[i] /\ g[i + 1] = f[i + 1] /\ longer[i + 1] = path[i + 1]
          /\ i # n + 1 /\ i # n /\ i \in 0..n
      BY <1>1, <2>3
    <3>2. SubSeq(longer, 1, i) = SubSeq(path, 1, i)
      BY <1>3, <3>1
    <3>3. f[i] = Replaced(Get(whole, SubSeq(path, 1, i)), path[i + 1], f[i + 1])
      BY <1>2, <3>1, Zenon
    <3> HIDE DEF g
    <3> QED
      BY <3>1, <3>2, <3>3, Zenon
  <2> QED
    BY <1>1, <2>1, <2>2, <2>3
<1>6. IsPatch(g, whole, longer, node)
  <2>1. g = [i \in 0..(n + 1) |-> g[i]]
    OBVIOUS
  <2> HIDE DEF g, n, longer
  <2>2. g = [i \in 0..(n + 1) |->
                IF i = n + 1 THEN node
                ELSE Replaced(Get(whole, SubSeq(longer, 1, i)), longer[i + 1], g[i + 1])]
    BY <1>5, <2>1, Zenon
  <2> QED
    BY <1>1, <2>2, Zenon DEF IsPatch
<1>7. g[0] = f[0]
  BY <1>1
<1> QED
  BY <1>6, <1>7

LEMMA PatchExists ==
    ASSUME NEW whole, NEW path \in Paths, NEW node
    PROVE  \E f : IsPatch(f, whole, path, node)
<1> DEFINE S == {n \in Nat : \A p \in Paths : Len(p) = n => \A b : \E f : IsPatch(f, whole, p, b)}
<1>1. 0 \in S
  <2> SUFFICES ASSUME NEW p \in Paths, Len(p) = 0, NEW b PROVE \E f : IsPatch(f, whole, p, b)
    OBVIOUS
  <2> DEFINE f == [i \in 0..Len(p) |-> b]
  <2>1. \A i \in 0..Len(p) : i = Len(p)
    OBVIOUS
  <2>2. IsPatch(f, whole, p, b)
    BY <2>1, Zenon DEF IsPatch
  <2> QED
    BY <2>2
<1>2. ASSUME NEW n \in S PROVE n + 1 \in S
  <2> SUFFICES ASSUME NEW p \in Paths, Len(p) = n + 1, NEW b PROVE \E f : IsPatch(f, whole, p, b)
    OBVIOUS
  <2>1. p # <<>>
    BY EmptySeq
  <2>2. PICK q \in Paths, key \in Keys : Len(q) = n /\ p = Append(q, key)
    BY <2>1, PathIsAppend
  <2>3. \E above : above = Replaced(Get(whole, q), key, b)
    OBVIOUS
  <2>4. PICK above : above = Replaced(Get(whole, q), key, b)
    BY <2>3
  <2>5. PICK f : IsPatch(f, whole, q, above)
    BY <2>2
  <2>6. \E g : IsPatch(g, whole, Append(q, key), b)
    BY <2>4, <2>5, PatchAppend
  <2> QED
    BY <2>2, <2>6
<1>3. S = Nat
  <2> HIDE DEF S
  <2>1. S \subseteq Nat
    BY DEF S
  <2> QED
    BY <1>1, <1>2, <2>1, SetInduction
<1>4. Len(path) \in S
  <2>1. Len(path) \in Nat
    BY DEF Paths
  <2> HIDE DEF S
  <2> QED
    BY <1>3, <2>1
<1> QED
  BY <1>4

LEMMA PutIsPatch ==
    ASSUME NEW whole, NEW path \in Paths, NEW node
    PROVE  \E f : IsPatch(f, whole, path, node) /\ Put(whole, path, node) = f[0]
<1> DEFINE patch == CHOOSE f : f = [i \in 0..Len(path) |->
                                       IF i = Len(path)
                                       THEN node
                                       ELSE [Get(whole, SubSeq(path, 1, i)) EXCEPT
                                                !.at[path[i + 1]] = f[i + 1]]]
<1>1. Put(whole, path, node) = patch[0]
  BY Zenon DEF Put
<1>2. IsPatch(patch, whole, path, node)
  <2>1. PICK f : IsPatch(f, whole, path, node)
    BY PatchExists
  <2>2. \E g : g = [i \in 0..Len(path) |->
                       IF i = Len(path)
                       THEN node
                       ELSE [Get(whole, SubSeq(path, 1, i)) EXCEPT !.at[path[i + 1]] = g[i + 1]]]
    BY <2>1, Zenon DEF IsPatch, Replaced
  <2> QED
    BY <2>2, Zenon DEF IsPatch, Replaced
<1> QED
  BY <1>1, <1>2, Zenon

LEMMA PutEmpty == ASSUME NEW whole, NEW node PROVE Put(whole, <<>>, node) = node
<1>1. <<>> \in Paths /\ Len(<<>>) = 0
  BY DEF Paths
<1>2. PICK path \in Paths : path = <<>>
  BY <1>1
<1>3. PICK f : IsPatch(f, whole, path, node) /\ Put(whole, path, node) = f[0]
  BY PutIsPatch
<1>4. f[Len(path)] = node
  BY <1>3, PatchEquation
<1> QED
  BY <1>1, <1>2, <1>3, <1>4

LEMMA PutAppend ==
    ASSUME NEW whole, NEW path \in Paths, NEW key \in Keys, NEW node
    PROVE  Put(whole, Append(path, key), node) = Put(whole, path, Replaced(Get(whole, path), key, node))
<1>1. \E above : above = Replaced(Get(whole, path), key, node)
  OBVIOUS
<1>2. PICK above : above = Replaced(Get(whole, path), key, node)
  BY <1>1
<1>3. PICK f : IsPatch(f, whole, path, above) /\ Put(whole, path, above) = f[0]
  BY PutIsPatch
<1>4. PICK g : IsPatch(g, whole, Append(path, key), node) /\ g[0] = f[0]
  BY <1>2, <1>3, PatchAppend
<1>5. PICK h : /\ IsPatch(h, whole, Append(path, key), node)
               /\ Put(whole, Append(path, key), node) = h[0]
  BY AppendPath, PutIsPatch
<1>6. g[0] = h[0]
  BY <1>4, <1>5, AppendPath, PatchesAgree
<1> QED
  BY <1>2, <1>3, <1>4, <1>5, <1>6
-----------------------------------------------------------------------------
(* Exists, and what Put keeps and changes.                                  *)

LEMMA ExistsEmpty == ASSUME NEW whole PROVE Exists(whole, <<>>)
BY DEF Exists

LEMMA ExistsAppend ==
    ASSUME NEW whole, NEW path \in Paths, NEW key \in Keys
    PROVE  Exists(whole, Append(path, key))
             <=> /\ Exists(whole, path)
                 /\ "at" \in DOMAIN Get(whole, path)
                 /\ key \in DOMAIN Get(whole, path).at
<1> DEFINE n == Len(path)
           longer == Append(path, key)
           Child(p, i) == /\ "at" \in DOMAIN Get(whole, SubSeq(p, 1, i - 1))
                          /\ p[i] \in DOMAIN Get(whole, SubSeq(p, 1, i - 1)).at
<1>1. n \in Nat /\ Len(longer) = n + 1 /\ longer[n + 1] = key /\ \A i \in 1..n : longer[i] = path[i]
  BY AppendPath DEF Paths
<1>2. \A i \in 1..(n + 1) : SubSeq(longer, 1, i - 1) = SubSeq(path, 1, i - 1)
  BY <1>1
<1>3. SubSeq(path, 1, n) = path
  BY DEF Paths
<1>4. Exists(whole, longer) <=> \A i \in 1..(n + 1) : Child(longer, i)
  BY <1>1, Zenon DEF Exists
<1>5. Exists(whole, path) <=> \A i \in 1..n : Child(path, i)
  BY Zenon DEF Exists
<1>6. \A i \in 1..n : Child(longer, i) <=> Child(path, i)
  <2> SUFFICES ASSUME NEW i \in 1..n PROVE Child(longer, i) <=> Child(path, i)
    OBVIOUS
  <2>1. SubSeq(longer, 1, i - 1) = SubSeq(path, 1, i - 1) /\ longer[i] = path[i]
    BY <1>1, <1>2
  <2> QED
    BY <2>1, Zenon
<1>7. Child(longer, n + 1) <=> "at" \in DOMAIN Get(whole, path) /\ key \in DOMAIN Get(whole, path).at
  <2>1. SubSeq(longer, 1, (n + 1) - 1) = path /\ longer[n + 1] = key
    BY <1>1, <1>2, <1>3
  <2> QED
    BY <2>1, Zenon
<1> HIDE DEF Child, n, longer
<1>8. (\A i \in 1..(n + 1) : Child(longer, i)) <=> (\A i \in 1..n : Child(longer, i)) /\ Child(longer, n + 1)
  BY <1>1
<1> QED
  BY <1>4, <1>5, <1>6, <1>7, <1>8, Zenon DEF longer

\* What is put has the keys it had, another child at one of them, and nothing else is changed.
LEMMA ReplacedIs ==
    ASSUME NEW node, "at" \in DOMAIN node, NEW key \in DOMAIN node.at, NEW child
    PROVE  /\ DOMAIN Replaced(node, key, child) = DOMAIN node
           /\ DOMAIN Replaced(node, key, child).at = DOMAIN node.at
           /\ Replaced(node, key, child).at[key] = child
           /\ \A other \in DOMAIN node.at :
                 other # key => Replaced(node, key, child).at[other] = node.at[other]
           /\ \A field \in DOMAIN node : field # "at" => Replaced(node, key, child)[field] = node[field]
BY DEF Replaced

\* What was put is found where it was put.
LEMMA PutFound ==
    ASSUME NEW whole, NEW path \in Paths, Exists(whole, path), NEW node
    PROVE  /\ Exists(Put(whole, path, node), path)
           /\ Get(Put(whole, path, node), path) = node
<1> DEFINE Found(p, b) == Exists(Put(whole, p, b), p) /\ Get(Put(whole, p, b), p) = b
           S == {n \in Nat : \A p \in Paths : Len(p) = n /\ Exists(whole, p) => \A b : Found(p, b)}
<1>1. 0 \in S
  <2> SUFFICES ASSUME NEW p \in Paths, Len(p) = 0, NEW b PROVE Found(p, b)
    OBVIOUS
  <2>1. p = <<>>
    BY EmptySeq DEF Paths
  <2> QED
    BY <2>1, PutEmpty, GetEmpty, ExistsEmpty
<1>2. ASSUME NEW n \in S PROVE n + 1 \in S
  <2> SUFFICES ASSUME NEW p \in Paths, Len(p) = n + 1, Exists(whole, p), NEW b PROVE Found(p, b)
    OBVIOUS
  <2>1. p # <<>>
    BY EmptySeq
  <2>2. PICK q \in Paths, key \in Keys : Len(q) = n /\ p = Append(q, key)
    BY <2>1, PathIsAppend
  <2>3. Exists(whole, q) /\ "at" \in DOMAIN Get(whole, q) /\ key \in DOMAIN Get(whole, q).at
    BY <2>2, ExistsAppend
  <2>4. PICK above : above = Replaced(Get(whole, q), key, b)
    OBVIOUS
  <2>5. "at" \in DOMAIN above /\ key \in DOMAIN above.at /\ above.at[key] = b
    BY <2>3, <2>4, ReplacedIs
  <2>6. Put(whole, p, b) = Put(whole, q, above)
    BY <2>2, <2>4, PutAppend
  <2>7. Exists(Put(whole, q, above), q) /\ Get(Put(whole, q, above), q) = above
    BY <2>2, <2>3
  <2>8. Exists(Put(whole, q, above), p)
    BY <2>2, <2>5, <2>7, ExistsAppend
  <2>9. Get(Put(whole, q, above), p) = b
    BY <2>2, <2>5, <2>7, GetAppend
  <2> QED
    BY <2>6, <2>8, <2>9
<1>3. S = Nat
  <2> HIDE DEF S
  <2>1. S \subseteq Nat
    BY DEF S
  <2> QED
    BY <1>1, <1>2, <2>1, SetInduction
<1>4. Len(path) \in S
  <2>1. Len(path) \in Nat
    BY DEF Paths
  <2> HIDE DEF S
  <2> QED
    BY <1>3, <2>1
<1> QED
  BY <1>4

\* A node is a record, and its children are a function of the keys.
Plain(node) ==
    /\ node = [field \in DOMAIN node |-> node[field]]
    /\ node.at = [key \in DOMAIN node.at |-> node.at[key]]

LEMMA ReplacedBySame ==
    ASSUME NEW node, "at" \in DOMAIN node, Plain(node), NEW key \in DOMAIN node.at
    PROVE  Replaced(node, key, node.at[key]) = node
<1> DEFINE at == [node.at EXCEPT ![key] = node.at[key]]
<1>1. at = node.at
  BY DEF Plain
<1>2. Replaced(node, key, node.at[key]) = [node EXCEPT !.at = at]
  BY DEF Replaced
<1>3. [node EXCEPT !.at = node.at] = node
  BY DEF Plain
<1> QED
  BY <1>1, <1>2, <1>3

\* To put what is there changes nothing.
LEMMA PutSame ==
    ASSUME NEW whole, NEW path \in Paths, Exists(whole, path),
           \A p \in Paths : Exists(whole, p) /\ "at" \in DOMAIN Get(whole, p) => Plain(Get(whole, p))
    PROVE  Put(whole, path, Get(whole, path)) = whole
<1> DEFINE S == {n \in Nat : \A p \in Paths : Len(p) = n /\ Exists(whole, p) => Put(whole, p, Get(whole, p)) = whole}
<1>1. 0 \in S
  <2> SUFFICES ASSUME NEW p \in Paths, Len(p) = 0 PROVE Put(whole, p, Get(whole, p)) = whole
    OBVIOUS
  <2>1. p = <<>>
    BY EmptySeq DEF Paths
  <2> QED
    BY <2>1, PutEmpty, GetEmpty
<1>2. ASSUME NEW n \in S PROVE n + 1 \in S
  <2> SUFFICES ASSUME NEW p \in Paths, Len(p) = n + 1, Exists(whole, p)
               PROVE  Put(whole, p, Get(whole, p)) = whole
    OBVIOUS
  <2>1. p # <<>>
    BY EmptySeq
  <2>2. PICK q \in Paths, key \in Keys : Len(q) = n /\ p = Append(q, key)
    BY <2>1, PathIsAppend
  <2>3. Exists(whole, q) /\ "at" \in DOMAIN Get(whole, q) /\ key \in DOMAIN Get(whole, q).at
    BY <2>2, ExistsAppend
  <2>4. Get(whole, p) = Get(whole, q).at[key]
    BY <2>2, GetAppend
  <2>5. Replaced(Get(whole, q), key, Get(whole, q).at[key]) = Get(whole, q)
    BY <2>3, ReplacedBySame
  <2>6. Put(whole, p, Get(whole, p)) = Put(whole, q, Get(whole, q))
    BY <2>2, <2>4, <2>5, PutAppend
  <2> QED
    BY <2>2, <2>3, <2>6
<1>3. S = Nat
  <2> HIDE DEF S
  <2>1. S \subseteq Nat
    BY DEF S
  <2> QED
    BY <1>1, <1>2, <2>1, SetInduction
<1>4. Len(path) \in S
  <2>1. Len(path) \in Nat
    BY DEF Paths
  <2> HIDE DEF S
  <2> QED
    BY <1>3, <2>1
<1> QED
  BY <1>4
-----------------------------------------------------------------------------
(* Default: an object has objects in place, and nothing has itself in place.  *)

\* Default-constructing a type, f being what its fields in place are.
NewOf(f, type) ==
    IF IsCompound(type) /\ ~HasChoice(type)
    THEN Node(Cpp(type), [name \in FieldNames(type) |->
            CASE FieldOf(type, name).isOptional -> Null
              [] ~FieldOf(type, name).isOptional /\ FieldOf(type, name).isArray -> Node(ArrayKind, <<>>)
              [] OTHER -> f[FieldOf(type, name).typeInfo]])
    ELSE DefaultLeaf(Cpp(type))

\* A type that is a counterexample is one in a set of them that contains none of the others.
LEMMA InnermostType ==
    ASSUME NEW T, T \subseteq DOMAIN Types, T # {}
    PROVE  \E type \in T : Contained(type) \intersect T = {}
BY TypesAssumption

\* A name that is found in a compound type is a field of it.
LEMMA FieldFound ==
    ASSUME NEW type \in DOMAIN Types, IsCompound(type), NEW name \in FieldNames(type)
    PROVE  FieldOf(type, name) \in FieldInfos /\ FieldOf(type, name) \in Range(FieldsOf(type))
<1>1. FieldsOf(type) \in Seq(FieldInfos)
  BY TypesAssumption
<1>2. PICK i \in DOMAIN FieldsOf(type) : FieldsOf(type)[i].schemaName = name
  BY DEF FieldNames
<1> DEFINE j == CHOOSE k \in DOMAIN FieldsOf(type) : FieldsOf(type)[k].schemaName = name
<1>3. j \in DOMAIN FieldsOf(type)
  BY <1>2
<1>4. FieldsOf(type)[j] \in FieldInfos
  BY <1>1, <1>3
<1>5. FieldsOf(type)[j] \in Range(FieldsOf(type))
  BY <1>3 DEF Range
<1> QED
  BY <1>4, <1>5 DEF FieldOf

LEMMA FieldInPlace ==
    ASSUME NEW type \in DOMAIN Types, IsCompound(type), ~HasChoice(type), NEW name \in FieldNames(type),
           ~FieldOf(type, name).isOptional, ~FieldOf(type, name).isArray
    PROVE  FieldOf(type, name).typeInfo \in Contained(type)
<1>1. FieldOf(type, name) \in Range(FieldsOf(type))
  BY FieldFound
<1> QED
  BY <1>1 DEF Contained

LEMMA ContainedAreTypes ==
    ASSUME NEW type \in DOMAIN Types
    PROVE  Contained(type) \subseteq DOMAIN Types
<1>1. CASE IsCompound(type) /\ ~HasChoice(type)
  <2>1. FieldsOf(type) \in Seq(FieldInfos)
    BY <1>1, TypesAssumption
  <2>2. \A f \in Range(FieldsOf(type)) : f \in FieldInfos
    BY <2>1, ElementOfSeq DEF Range
  <2>3. \A f \in Range(FieldsOf(type)) : f.typeInfo \in DOMAIN Types
    BY <2>2 DEF FieldInfos
  <2> QED
    BY <2>3 DEF Contained
<1>2. CASE ~(IsCompound(type) /\ ~HasChoice(type))
  BY <1>2 DEF Contained
<1> QED
  BY <1>1, <1>2

\* What a new object is, depends on what is in place only.
LEMMA NewOfSame ==
    ASSUME NEW type \in DOMAIN Types, NEW f, NEW g, \A t \in Contained(type) : f[t] = g[t]
    PROVE  NewOf(f, type) = NewOf(g, type)
<1>1. CASE ~(IsCompound(type) /\ ~HasChoice(type))
  BY <1>1 DEF NewOf
<1>2. CASE IsCompound(type) /\ ~HasChoice(type)
  <2> DEFINE At(h) == [name \in FieldNames(type) |->
                          CASE FieldOf(type, name).isOptional -> Null
                            [] ~FieldOf(type, name).isOptional /\ FieldOf(type, name).isArray -> Node(ArrayKind, <<>>)
                            [] OTHER -> h[FieldOf(type, name).typeInfo]]
  <2>1. At(f) = At(g)
    <3>1. \A name \in FieldNames(type) : At(f)[name] = At(g)[name]
      BY <1>2, FieldInPlace
    <3> QED
      BY <3>1
  <2>2. NewOf(f, type) = Node(Cpp(type), At(f)) /\ NewOf(g, type) = Node(Cpp(type), At(g))
    BY <1>2 DEF NewOf
  <2> QED
    BY <2>1, <2>2
<1> QED
  BY <1>1, <1>2

\* A set of types that holds what is in place in each, and the new objects of all of them.
IsPart(D, f) ==
    /\ D \subseteq DOMAIN Types
    /\ \A type \in D : Contained(type) \subseteq D /\ f[type] = NewOf(f, type)

LEMMA PartsAgree ==
    ASSUME NEW D, NEW E, NEW f, NEW g, IsPart(D, f), IsPart(E, g)
    PROVE  \A type \in D \intersect E : f[type] = g[type]
<1> DEFINE T == {type \in D \intersect E : f[type] # g[type]}
<1> SUFFICES ASSUME T # {} PROVE FALSE
  OBVIOUS
<1>1. PICK type \in T : Contained(type) \intersect T = {}
  BY InnermostType DEF IsPart
<1>2. \A t \in Contained(type) : f[t] = g[t]
  BY <1>1 DEF IsPart
<1>3. NewOf(f, type) = NewOf(g, type)
  BY <1>1, <1>2, NewOfSame DEF IsPart
<1> QED
  BY <1>1, <1>3 DEF IsPart

LEMMA PartExists == \E f : IsPart(DOMAIN Types, f)
<1> DEFINE Has(type, node) == \E D, f : IsPart(D, f) /\ type \in D /\ f[type] = node
           E == {type \in DOMAIN Types : \E node : Has(type, node)}
           F == [type \in DOMAIN Types |-> CHOOSE node : Has(type, node)]
<1>1. ASSUME NEW D, NEW f, IsPart(D, f), NEW type \in D
      PROVE  type \in E /\ F[type] = f[type]
  <2>1. Has(type, f[type]) /\ type \in DOMAIN Types
    BY <1>1 DEF IsPart
  <2>2. Has(type, F[type])
    BY <2>1
  <2>3. PICK D2, f2 : IsPart(D2, f2) /\ type \in D2 /\ f2[type] = F[type]
    BY <2>2
  <2>4. f2[type] = f[type]
    BY <1>1, <2>3, PartsAgree
  <2> QED
    BY <2>1, <2>3, <2>4
<1>2. IsPart(E, F)
  <2> SUFFICES ASSUME NEW type \in E
               PROVE  Contained(type) \subseteq E /\ F[type] = NewOf(F, type)
    BY DEF IsPart
  <2>1. PICK D, f : IsPart(D, f) /\ type \in D
    OBVIOUS
  <2> HIDE DEF E, F
  <2>2. Contained(type) \subseteq D /\ f[type] = NewOf(f, type) /\ type \in DOMAIN Types
    BY <2>1 DEF IsPart
  <2>3. \A t \in Contained(type) : t \in E /\ F[t] = f[t]
    BY <1>1, <2>1, <2>2
  <2>4. NewOf(F, type) = NewOf(f, type)
    BY <2>2, <2>3, NewOfSame
  <2>5. F[type] = f[type]
    BY <1>1, <2>1
  <2> QED
    BY <2>2, <2>3, <2>4, <2>5
<1>3. E = DOMAIN Types
  <2> DEFINE T == DOMAIN Types \ E
  <2> SUFFICES ASSUME T # {} PROVE FALSE
    OBVIOUS
  <2>1. PICK type \in T : Contained(type) \intersect T = {}
    BY InnermostType
  <2> DEFINE G == [F EXCEPT ![type] = NewOf(F, type)]
  <2>2. type \notin E /\ type \in DOMAIN Types /\ Contained(type) \subseteq E
    BY <2>1, ContainedAreTypes
  <2> HIDE DEF E
  <2>3. \A t \in E : G[t] = F[t]
    <3>1. \A t \in E : t \in DOMAIN Types /\ t # type
      BY <1>2, <2>2 DEF IsPart
    <3> QED
      BY <3>1
  <2>4. G[type] = NewOf(F, type)
    BY <2>2
  <2> HIDE DEF F, G
  <2>5. \A t \in E \union {type} : Contained(t) \subseteq E
    BY <1>2, <2>2 DEF IsPart
  <2>6. \A t \in E \union {type} : t \in DOMAIN Types
    BY <1>2, <2>2 DEF IsPart
  <2>7. \A t \in E \union {type} : NewOf(G, t) = NewOf(F, t)
    BY <2>3, <2>5, <2>6, NewOfSame
  <2>8. IsPart(E \union {type}, G)
    BY <1>2, <2>3, <2>4, <2>5, <2>6, <2>7 DEF IsPart
  <2>9. type \in E
    BY <1>1, <2>8
  <2> QED
    BY <2>2, <2>9
<1> QED
  BY <1>2, <1>3

\* createInstance is what its definition says: there is such a function.
LEMMA DefaultIs == \A type \in DOMAIN Types : Default[type] = NewOf(Default, type)
<1> DEFINE New(g) ==
               [type \in DOMAIN Types |->
                    IF IsCompound(type) /\ ~HasChoice(type)
                    THEN Node(Cpp(type), [name \in FieldNames(type) |->
                            LET f == FieldOf(type, name)
                            IN  CASE f.isOptional -> Null
                                  [] ~f.isOptional /\ f.isArray -> Node(ArrayKind, <<>>)
                                  [] OTHER -> g[f.typeInfo]])
                    ELSE DefaultLeaf(Cpp(type))]
<1>1. PICK f : IsPart(DOMAIN Types, f)
  BY PartExists
<1> DEFINE g == [type \in DOMAIN Types |-> f[type]]
<1>2. \A type \in DOMAIN Types : g[type] = NewOf(g, type)
  <2> SUFFICES ASSUME NEW type \in DOMAIN Types PROVE g[type] = NewOf(g, type)
    OBVIOUS
  <2>1. Contained(type) \subseteq DOMAIN Types /\ f[type] = NewOf(f, type)
    BY <1>1 DEF IsPart
  <2>2. \A t \in Contained(type) : f[t] = g[t]
    BY <2>1
  <2>3. NewOf(f, type) = NewOf(g, type)
    BY <2>2, NewOfSame
  <2> QED
    BY <2>1, <2>3
<1>3. g = [type \in DOMAIN Types |-> g[type]]
  OBVIOUS
<1> HIDE DEF g
<1>4. g = [type \in DOMAIN Types |-> NewOf(g, type)]
  BY <1>2, <1>3, Zenon
<1>5. \A h : New(h) = [type \in DOMAIN Types |-> NewOf(h, type)]
  BY DEF NewOf
<1>6. Default = CHOOSE h : h = New(h)
  BY Zenon DEF Default
<1> HIDE DEF New
<1>7. Default = New(Default)
  BY <1>4, <1>5, <1>6, Zenon
<1>8. Default = [type \in DOMAIN Types |-> NewOf(Default, type)]
  BY <1>5, <1>7, Zenon
<1> QED
  BY <1>8, Zenon
-----------------------------------------------------------------------------
(* PlaceAt: a walk through the types, a key at a time.                      *)

IsTour(f, type, path, n) ==
    f = [i \in 0..n |-> IF i = 0 THEN RootPlace(type) ELSE PlaceBelow(f[i - 1], path[i])]

LEMMA TourExists ==
    ASSUME NEW type, NEW path, NEW n \in Nat
    PROVE  \E f : IsTour(f, type, path, n)
<1> DEFINE S == {m \in Nat : \E f : IsTour(f, type, path, m)}
<1>1. 0 \in S
  <2>1. IsTour([i \in 0..0 |-> RootPlace(type)], type, path, 0)
    BY DEF IsTour
  <2> QED
    BY <2>1
<1>2. ASSUME NEW m \in S PROVE m + 1 \in S
  <2>1. PICK f : IsTour(f, type, path, m)
    OBVIOUS
  <2> DEFINE g == [i \in 0..(m + 1) |-> IF i <= m THEN f[i] ELSE PlaceBelow(f[m], path[m + 1])]
  <2>2. \A i \in 0..m : f[i] = IF i = 0 THEN RootPlace(type) ELSE PlaceBelow(f[i - 1], path[i])
    BY <2>1 DEF IsTour
  <2>3. \A i \in 0..(m + 1) : g[i] = IF i = 0 THEN RootPlace(type) ELSE PlaceBelow(g[i - 1], path[i])
    <3> SUFFICES ASSUME NEW i \in 0..(m + 1)
                 PROVE  g[i] = IF i = 0 THEN RootPlace(type) ELSE PlaceBelow(g[i - 1], path[i])
      OBVIOUS
    <3>1. CASE i <= m
      <4>1. g[i] = f[i] /\ (i # 0 => g[i - 1] = f[i - 1])
        BY <3>1
      <4> QED
        BY <2>2, <3>1, <4>1
    <3>2. CASE i = m + 1
      <4>1. g[i] = PlaceBelow(f[m], path[m + 1]) /\ g[m] = f[m] /\ i # 0 /\ i - 1 = m
        BY <3>2
      <4> QED
        BY <3>2, <4>1
    <3> QED
      BY <3>1, <3>2
  <2>4. IsTour(g, type, path, m + 1)
    BY <2>3, Zenon DEF IsTour
  <2> QED
    BY <2>4
<1>3. S = Nat
  <2> HIDE DEF S
  <2>1. S \subseteq Nat
    BY DEF S
  <2> QED
    BY <1>1, <1>2, <2>1, SetInduction
<1> QED
  BY <1>3

LEMMA ToursAgree ==
    ASSUME NEW type, NEW p, NEW q, NEW m \in Nat, NEW n \in Nat, m <= n,
           NEW f, NEW g, IsTour(f, type, p, m), IsTour(g, type, q, n),
           \A i \in 1..m : p[i] = q[i]
    PROVE  \A i \in 0..m : f[i] = g[i]
<1> DEFINE S == {i \in Nat : i <= m => f[i] = g[i]}
<1>1. /\ \A i \in 0..m : f[i] = IF i = 0 THEN RootPlace(type) ELSE PlaceBelow(f[i - 1], p[i])
      /\ \A i \in 0..n : g[i] = IF i = 0 THEN RootPlace(type) ELSE PlaceBelow(g[i - 1], q[i])
  BY DEF IsTour
<1>2. 0 \in S
  BY <1>1
<1>3. ASSUME NEW i \in S PROVE i + 1 \in S
  <2> SUFFICES ASSUME i + 1 <= m PROVE f[i + 1] = g[i + 1]
    OBVIOUS
  <2>1. f[i] = g[i] /\ p[i + 1] = q[i + 1]
    OBVIOUS
  <2>2. i + 1 \in 0..m /\ i + 1 \in 0..n /\ i + 1 # 0 /\ (i + 1) - 1 = i
    OBVIOUS
  <2>3. f[i + 1] = PlaceBelow(f[i], p[i + 1]) /\ g[i + 1] = PlaceBelow(g[i], q[i + 1])
    BY <1>1, <2>2
  <2> QED
    BY <2>1, <2>3
<1>4. S = Nat
  <2> HIDE DEF S
  <2>1. S \subseteq Nat
    BY DEF S
  <2> QED
    BY <1>2, <1>3, <2>1, SetInduction
<1> QED
  BY <1>4

LEMMA PlaceIsTour ==
    ASSUME NEW type, NEW path, Len(path) \in Nat
    PROVE  \E f : IsTour(f, type, path, Len(path)) /\ PlaceAt(type, path) = f[Len(path)]
<1> DEFINE tour == CHOOSE f : f = [i \in 0..Len(path) |->
                                      IF i = 0 THEN RootPlace(type) ELSE PlaceBelow(f[i - 1], path[i])]
<1>1. PlaceAt(type, path) = tour[Len(path)]
  BY Zenon DEF PlaceAt
<1>2. IsTour(tour, type, path, Len(path))
  <2>1. PICK f : IsTour(f, type, path, Len(path))
    BY TourExists
  <2>2. \E g : g = [i \in 0..Len(path) |->
                       IF i = 0 THEN RootPlace(type) ELSE PlaceBelow(g[i - 1], path[i])]
    BY <2>1, Zenon DEF IsTour
  <2> QED
    BY <2>2, Zenon DEF IsTour
<1> QED
  BY <1>1, <1>2, Zenon

LEMMA PlaceEmpty == ASSUME NEW type PROVE PlaceAt(type, <<>>) = RootPlace(type)
<1>1. PICK f : IsTour(f, type, <<>>, 0) /\ PlaceAt(type, <<>>) = f[0]
  BY PlaceIsTour
<1> QED
  BY <1>1 DEF IsTour

LEMMA PlaceAppend ==
    ASSUME NEW type, NEW path \in Paths, NEW key \in Keys
    PROVE  PlaceAt(type, Append(path, key)) = PlaceBelow(PlaceAt(type, path), key)
<1> DEFINE n == Len(path)
           longer == Append(path, key)
<1>1. n \in Nat /\ Len(longer) = n + 1 /\ longer[n + 1] = key /\ \A i \in 1..n : path[i] = longer[i]
  BY AppendPath DEF Paths
<1> HIDE DEF n, longer
<1>2. PICK f : IsTour(f, type, path, n) /\ PlaceAt(type, path) = f[n]
  BY <1>1, PlaceIsTour DEF n
<1>3. PICK g : IsTour(g, type, longer, n + 1) /\ PlaceAt(type, longer) = g[n + 1]
  BY <1>1, PlaceIsTour
<1>4. f[n] = g[n]
  <2>1. n + 1 \in Nat /\ n <= n + 1 /\ n \in 0..n
    BY <1>1
  <2>2. \A i \in 0..n : f[i] = g[i]
    BY <1>1, <1>2, <1>3, <2>1, ToursAgree
  <2> QED
    BY <2>1, <2>2
<1>5. g[n + 1] = PlaceBelow(g[n], key)
  BY <1>1, <1>3 DEF IsTour
<1> QED
  BY <1>2, <1>3, <1>4, <1>5 DEF longer
-----------------------------------------------------------------------------
(* Sound nodes and objects.                                                *)

Places == [type : DOMAIN Types, isArray : BOOLEAN, isOptional : BOOLEAN, isExtended : BOOLEAN]

IsSequence(values) == \E S : values \in Seq(S)

\* The children of an object of a type.
IsFieldsOf(type, at) ==
    /\ at = [name \in DOMAIN at |-> at[name]]
    /\ DOMAIN at \subseteq FieldNames(type)
    /\ HasChoice(type) => \A m, n \in DOMAIN at : m = n
    /\ ~HasChoice(type) => DOMAIN at = FieldNames(type)

IsNull(place, node) == place.isOptional /\ node = Null

IsArray(place, node) == place.isArray /\ \E values : IsSequence(values) /\ node = Node(ArrayKind, values)

IsObject(place, node) ==
    /\ ~place.isArray /\ IsCompound(place.type)
    /\ \E at : IsFieldsOf(place.type, at) /\ node = Node(Cpp(place.type), at)

IsLeaf(place, node) ==
    /\ ~place.isArray /\ ~IsCompound(place.type)
    /\ LeafFits(place.type, node)
    /\ "at" \notin DOMAIN node

\* NodeFits, with the shape of the node; and no extended field is absent.
NodeSound(place, node) ==
    /\ place \in Places
    /\ IsNull(place, node) \/ IsArray(place, node) \/ IsObject(place, node) \/ IsLeaf(place, node)

Spot(place, node) == [place |-> place, node |-> node]

\* A set that has, with a node, everything that is below it.
IsClosed(M) ==
    \A m \in M :
        /\ NodeSound(m.place, m.node)
        /\ \A key \in KeysOf(m.node) : Spot(PlaceBelow(m.place, key), m.node.at[key]) \in M

\* All nodes of an object are sound, in what depth ever.
Sound(place, node) == \E M : IsClosed(M) /\ Spot(place, node) \in M

\* The kinds of the nodes that are no values of a C++ type are not C++ types.
LEMMA KindsDiffer ==
    ASSUME NEW type \in DOMAIN Types
    PROVE  Cpp(type) \notin {NullKind, <<"ABSENT", 0>>, ArrayKind, <<"THROWN", 0>>}
<1>1. Cpp(type) \in CppTypes
  BY TypesAssumption
<1>2. /\ Cpp(type) = <<Cpp(type)[1], Cpp(type)[2]>>
      /\ Cpp(type)[1] \in {"INT", "UINT"} \union SimpleCpp
  BY <1>1 DEF CppTypes
<1>3. Cpp(type)[1] \notin {"NULL", "ABSENT", "ARRAY", "THROWN"}
  BY <1>2 DEF SimpleCpp
<1> QED
  BY <1>2, <1>3 DEF NullKind, ArrayKind

\* What is sound is what NodeFits asks for.
LEMMA SoundNodeFits ==
    ASSUME NEW place, NEW node, NodeSound(place, node)
    PROVE  NodeFits(place, node)
<1>0. place \in Places /\ place.type \in DOMAIN Types
  BY DEF NodeSound, Places
<1>1. CASE IsNull(place, node)
  <2>1. Null # Absent
    BY DEF Null, Absent, NullKind
  <2> QED
    BY <1>1, <2>1 DEF IsNull, NodeFits
<1>2. CASE IsArray(place, node)
  <2>1. node.kind = ArrayKind
    BY <1>2 DEF IsArray, Node
  <2>2. node # Null /\ node # Absent
    BY <2>1 DEF Null, Absent, ArrayKind, NullKind
  <2> QED
    BY <1>2, <2>1, <2>2 DEF IsArray, NodeFits
<1>3. CASE IsObject(place, node)
  <2>1. PICK at : IsFieldsOf(place.type, at) /\ node = Node(Cpp(place.type), at)
    BY <1>3 DEF IsObject
  <2>2. node.kind = Cpp(place.type) /\ node.at = at
    BY <2>1 DEF Node
  <2>3. node # Null /\ node # Absent
    BY <1>0, <2>2, KindsDiffer DEF Null, Absent
  <2> QED
    BY <1>3, <2>1, <2>2, <2>3 DEF IsObject, IsFieldsOf, NodeFits
<1>4. CASE IsLeaf(place, node)
  <2>1. node # Null /\ node # Absent
    BY <1>0, <1>4, KindsDiffer DEF IsLeaf, LeafFits, Null, Absent
  <2> QED
    BY <1>4, <2>1 DEF IsLeaf, NodeFits
<1> QED
  BY <1>1, <1>2, <1>3, <1>4 DEF NodeSound

LEMMA SoundNode ==
    ASSUME NEW place, NEW node, Sound(place, node)
    PROVE  NodeSound(place, node)
<1>1. PICK M : IsClosed(M) /\ Spot(place, node) \in M
  BY DEF Sound
<1> QED
  BY <1>1 DEF IsClosed, Spot

LEMMA SoundChild ==
    ASSUME NEW place, NEW node, Sound(place, node), NEW key \in KeysOf(node)
    PROVE  Sound(PlaceBelow(place, key), node.at[key])
<1>1. PICK M : IsClosed(M) /\ Spot(place, node) \in M
  BY DEF Sound
<1>2. Spot(place, node).place = place /\ Spot(place, node).node = node
  BY DEF Spot
<1>3. Spot(PlaceBelow(place, key), node.at[key]) \in M
  BY <1>1, <1>2 DEF IsClosed
<1> QED
  BY <1>1, <1>3 DEF Sound

LEMMA SoundParent ==
    ASSUME NEW place, NEW node, NodeSound(place, node),
           \A key \in KeysOf(node) : Sound(PlaceBelow(place, key), node.at[key])
    PROVE  Sound(place, node)
<1> DEFINE Child(key) == Spot(PlaceBelow(place, key), node.at[key])
           of == [key \in KeysOf(node) |-> CHOOSE M : IsClosed(M) /\ Child(key) \in M]
           M == {Spot(place, node)} \union UNION {of[key] : key \in KeysOf(node)}
<1>1. \A key \in KeysOf(node) : IsClosed(of[key]) /\ Child(key) \in of[key]
  BY DEF Sound
<1> HIDE DEF of, Child
<1>2. Spot(place, node).place = place /\ Spot(place, node).node = node
  BY DEF Spot
<1>3. IsClosed(M)
  <2> SUFFICES ASSUME NEW m \in M
               PROVE  /\ NodeSound(m.place, m.node)
                      /\ \A key \in KeysOf(m.node) : Spot(PlaceBelow(m.place, key), m.node.at[key]) \in M
    BY DEF IsClosed
  <2>1. CASE m = Spot(place, node)
    <3>1. \A key \in KeysOf(node) : Child(key) \in M
      BY <1>1
    <3> HIDE DEF M
    <3> QED
      BY <1>2, <2>1, <3>1 DEF Child
  <2>2. CASE m # Spot(place, node)
    <3>1. PICK key \in KeysOf(node) : m \in of[key]
      BY <2>2
    <3>2. of[key] \subseteq M
      OBVIOUS
    <3> HIDE DEF M
    <3> QED
      BY <1>1, <3>1, <3>2 DEF IsClosed
  <2> QED
    BY <2>1, <2>2
<1> QED
  BY <1>3 DEF Sound
-----------------------------------------------------------------------------
(* What becomes of a sound object.                                         *)

LEMMA SoundKeys ==
    ASSUME NEW place, NEW node, NodeSound(place, node)
    PROVE  KeysOf(node) \subseteq Keys
<1>1. CASE IsNull(place, node)
  BY <1>1 DEF IsNull, Null, KeysOf
<1>2. CASE IsArray(place, node)
  <2>1. PICK values : IsSequence(values) /\ node = Node(ArrayKind, values)
    BY <1>2 DEF IsArray
  <2>2. PICK S : values \in Seq(S)
    BY <2>1 DEF IsSequence
  <2>3. DOMAIN values \subseteq Nat
    BY <2>2
  <2> QED
    BY <2>1, <2>3 DEF Node, KeysOf, Keys
<1>3. CASE IsObject(place, node)
  <2>1. PICK at : IsFieldsOf(place.type, at) /\ node = Node(Cpp(place.type), at)
    BY <1>3 DEF IsObject
  <2>2. FieldsOf(place.type) \in Seq(FieldInfos)
    BY <1>3, TypesAssumption DEF IsObject, NodeSound, Places
  <2>3. FieldNames(place.type) \subseteq STRING
    <3>1. \A i \in DOMAIN FieldsOf(place.type) : FieldsOf(place.type)[i] \in FieldInfos
      BY <2>2
    <3> QED
      BY <3>1 DEF FieldNames, FieldInfos
  <2> QED
    BY <2>1, <2>3 DEF IsFieldsOf, Node, KeysOf, Keys
<1>4. CASE IsLeaf(place, node)
  BY <1>4 DEF IsLeaf, KeysOf
<1> QED
  BY <1>1, <1>2, <1>3, <1>4 DEF NodeSound

\* What has children is a record with a function.
LEMMA SoundPlain ==
    ASSUME NEW place, NEW node, NodeSound(place, node), "at" \in DOMAIN node
    PROVE  Plain(node) /\ node = Node(node.kind, node.at)
<1>1. CASE IsNull(place, node)
  BY <1>1 DEF IsNull, Null
<1>2. CASE IsArray(place, node)
  <2>1. PICK values : IsSequence(values) /\ node = Node(ArrayKind, values)
    BY <1>2 DEF IsArray
  <2>2. PICK S : values \in Seq(S)
    BY <2>1 DEF IsSequence
  <2>3. values = [i \in DOMAIN values |-> values[i]]
    BY <2>2
  <2> QED
    BY <2>1, <2>3 DEF Node, Plain
<1>3. CASE IsObject(place, node)
  BY <1>3 DEF IsObject, IsFieldsOf, Node, Plain
<1>4. CASE IsLeaf(place, node)
  BY <1>4 DEF IsLeaf
<1> QED
  BY <1>1, <1>2, <1>3, <1>4 DEF NodeSound

\* A node with children that has other ones at the same keys is as sound as it was.
LEMMA SameKeysSound ==
    ASSUME NEW place, NEW node, NodeSound(place, node), "at" \in DOMAIN node,
           NEW at, at = [key \in DOMAIN node.at |-> at[key]]
    PROVE  NodeSound(place, [node EXCEPT !.at = at])
<1>1. node = Node(node.kind, node.at)
  BY SoundPlain
<1>2. [node EXCEPT !.at = at] = Node(node.kind, at)
  BY <1>1 DEF Node
<1>3. CASE IsNull(place, node)
  BY <1>3 DEF IsNull, Null
<1>4. CASE IsArray(place, node)
  <2>1. PICK values : IsSequence(values) /\ node = Node(ArrayKind, values)
    BY <1>4 DEF IsArray
  <2>2. node.kind = ArrayKind /\ node.at = values
    BY <2>1 DEF Node
  <2>3. PICK S : values \in Seq(S)
    BY <2>1 DEF IsSequence
  <2>4. PICK n \in Nat : DOMAIN values = 1..n
    BY <2>3
  <2>5. at = [i \in 1..n |-> at[i]]
    BY <2>2, <2>4
  <2>6. at \in Seq({at[i] : i \in 1..n})
    BY <2>5
  <2> QED
    BY <1>2, <1>4, <2>2, <2>6 DEF IsArray, IsSequence, NodeSound
<1>5. CASE IsObject(place, node)
  <2>1. PICK old : IsFieldsOf(place.type, old) /\ node = Node(Cpp(place.type), old)
    BY <1>5 DEF IsObject
  <2>2. node.kind = Cpp(place.type) /\ node.at = old
    BY <2>1 DEF Node
  <2>3. DOMAIN at = DOMAIN old
    BY <2>2
  <2>4. IsFieldsOf(place.type, at)
    BY <2>1, <2>2, <2>3 DEF IsFieldsOf
  <2> QED
    BY <1>2, <1>5, <2>2, <2>4 DEF IsObject, NodeSound
<1>6. CASE IsLeaf(place, node)
  BY <1>6 DEF IsLeaf
<1> QED
  BY <1>3, <1>4, <1>5, <1>6 DEF NodeSound

\* A sound child for another one.
LEMMA SoundReplaced ==
    ASSUME NEW place, NEW node, Sound(place, node), "at" \in DOMAIN node, NEW key \in DOMAIN node.at,
           NEW child, Sound(PlaceBelow(place, key), child)
    PROVE  Sound(place, Replaced(node, key, child))
<1> DEFINE at == [node.at EXCEPT ![key] = child]
           new == Replaced(node, key, child)
<1>1. NodeSound(place, node) /\ Plain(node)
  BY SoundNode, SoundPlain
<1>2. DOMAIN at = DOMAIN node.at
  OBVIOUS
<1>3. at = [k \in DOMAIN node.at |-> at[k]]
  BY <1>2
<1>4. new = [node EXCEPT !.at = at]
  BY DEF Replaced
<1>5. NodeSound(place, new)
  <2> HIDE DEF at, new
  <2> QED
    BY <1>1, <1>3, <1>4, SameKeysSound
<1>6. \A k \in KeysOf(new) : Sound(PlaceBelow(place, k), new.at[k])
  <2> SUFFICES ASSUME NEW k \in KeysOf(new) PROVE Sound(PlaceBelow(place, k), new.at[k])
    OBVIOUS
  <2>1. k \in DOMAIN node.at
    BY ReplacedIs DEF KeysOf
  <2>2. CASE k = key
    BY <2>2, ReplacedIs
  <2>3. CASE k # key
    <3>1. new.at[k] = node.at[k]
      BY <2>1, <2>3, ReplacedIs
    <3>2. k \in KeysOf(node)
      BY <2>1 DEF KeysOf
    <3> HIDE DEF new
    <3> QED
      BY <3>1, <3>2, SoundChild
  <2> QED
    BY <2>2, <2>3
<1> HIDE DEF new
<1> QED
  BY <1>5, <1>6, SoundParent DEF new

\* Whatever exists in a sound object is sound where it is.
LEMMA SoundAt ==
    ASSUME NEW type, NEW whole, Sound(RootPlace(type), whole), NEW path \in Paths, Exists(whole, path)
    PROVE  Sound(PlaceAt(type, path), Get(whole, path))
<1> DEFINE S == {n \in Nat : \A p \in Paths : Len(p) = n /\ Exists(whole, p)
                                  => Sound(PlaceAt(type, p), Get(whole, p))}
<1>1. 0 \in S
  <2> SUFFICES ASSUME NEW p \in Paths, Len(p) = 0 PROVE Sound(PlaceAt(type, p), Get(whole, p))
    OBVIOUS
  <2>1. p = <<>>
    BY EmptySeq DEF Paths
  <2> QED
    BY <2>1, PlaceEmpty, GetEmpty
<1>2. ASSUME NEW n \in S PROVE n + 1 \in S
  <2> SUFFICES ASSUME NEW p \in Paths, Len(p) = n + 1, Exists(whole, p)
               PROVE  Sound(PlaceAt(type, p), Get(whole, p))
    OBVIOUS
  <2>1. p # <<>>
    BY EmptySeq
  <2>2. PICK q \in Paths, key \in Keys : Len(q) = n /\ p = Append(q, key)
    BY <2>1, PathIsAppend
  <2>3. Exists(whole, q) /\ key \in KeysOf(Get(whole, q))
    BY <2>2, ExistsAppend DEF KeysOf
  <2>4. Sound(PlaceAt(type, q), Get(whole, q))
    BY <2>2, <2>3
  <2>5. Sound(PlaceBelow(PlaceAt(type, q), key), Get(whole, q).at[key])
    BY <2>3, <2>4, SoundChild
  <2> QED
    BY <2>2, <2>5, PlaceAppend, GetAppend
<1>3. S = Nat
  <2> HIDE DEF S
  <2>1. S \subseteq Nat
    BY DEF S
  <2> QED
    BY <1>1, <1>2, <2>1, SetInduction
<1>4. Len(path) \in S
  <2>1. Len(path) \in Nat
    BY DEF Paths
  <2> HIDE DEF S
  <2> QED
    BY <1>3, <2>1
<1> QED
  BY <1>4

\* What is sound is put where it fits, and the object stays sound.
LEMMA SoundPut ==
    ASSUME NEW type, NEW whole, Sound(RootPlace(type), whole), NEW path \in Paths, Exists(whole, path),
           NEW node, Sound(PlaceAt(type, path), node)
    PROVE  Sound(RootPlace(type), Put(whole, path, node))
<1> DEFINE S == {n \in Nat : \A p \in Paths : Len(p) = n /\ Exists(whole, p) =>
                                \A b : Sound(PlaceAt(type, p), b) => Sound(RootPlace(type), Put(whole, p, b))}
<1>1. 0 \in S
  <2> SUFFICES ASSUME NEW p \in Paths, Len(p) = 0, NEW b, Sound(PlaceAt(type, p), b)
               PROVE  Sound(RootPlace(type), Put(whole, p, b))
    OBVIOUS
  <2>1. p = <<>>
    BY EmptySeq DEF Paths
  <2> QED
    BY <2>1, PlaceEmpty, PutEmpty
<1>2. ASSUME NEW n \in S PROVE n + 1 \in S
  <2> SUFFICES ASSUME NEW p \in Paths, Len(p) = n + 1, Exists(whole, p), NEW b, Sound(PlaceAt(type, p), b)
               PROVE  Sound(RootPlace(type), Put(whole, p, b))
    OBVIOUS
  <2>1. p # <<>>
    BY EmptySeq
  <2>2. PICK q \in Paths, key \in Keys : Len(q) = n /\ p = Append(q, key)
    BY <2>1, PathIsAppend
  <2>3. Exists(whole, q) /\ "at" \in DOMAIN Get(whole, q) /\ key \in DOMAIN Get(whole, q).at
    BY <2>2, ExistsAppend
  <2>4. Sound(PlaceAt(type, q), Get(whole, q))
    BY <2>3, SoundAt
  <2>5. Sound(PlaceBelow(PlaceAt(type, q), key), b)
    BY <2>2, PlaceAppend
  <2>6. Sound(PlaceAt(type, q), Replaced(Get(whole, q), key, b))
    BY <2>3, <2>4, <2>5, SoundReplaced
  <2>7. Sound(RootPlace(type), Put(whole, q, Replaced(Get(whole, q), key, b)))
    BY <2>2, <2>3, <2>6
  <2> QED
    BY <2>2, <2>7, PutAppend
<1>3. S = Nat
  <2> HIDE DEF S
  <2>1. S \subseteq Nat
    BY DEF S
  <2> QED
    BY <1>1, <1>2, <2>1, SetInduction
<1>4. Len(path) \in S
  <2>1. Len(path) \in Nat
    BY DEF Paths
  <2> HIDE DEF S
  <2> QED
    BY <1>3, <2>1
<1> QED
  BY <1>4

\* To put what is there changes nothing in a sound object.
LEMMA SoundPutSame ==
    ASSUME NEW type, NEW whole, Sound(RootPlace(type), whole), NEW path \in Paths, Exists(whole, path)
    PROVE  Put(whole, path, Get(whole, path)) = whole
<1>1. ASSUME NEW p \in Paths, Exists(whole, p), "at" \in DOMAIN Get(whole, p) PROVE Plain(Get(whole, p))
  BY <1>1, SoundAt, SoundNode, SoundPlain
<1> QED
  BY <1>1, PutSame
-----------------------------------------------------------------------------
(* What is new is sound.                                                   *)

LEMMA SoundNull ==
    ASSUME NEW place \in Places, place.isOptional
    PROVE  Sound(place, Null)
<1>1. NodeSound(place, Null)
  BY DEF NodeSound, IsNull
<1>2. KeysOf(Null) = {}
  BY DEF KeysOf, Null
<1> QED
  BY <1>1, <1>2, SoundParent

LEMMA SoundEmptyArray ==
    ASSUME NEW place \in Places, place.isArray
    PROVE  Sound(place, Node(ArrayKind, <<>>))
<1>0. IsSequence(<<>>)
  BY DEF IsSequence
<1>1. NodeSound(place, Node(ArrayKind, <<>>))
  BY <1>0 DEF NodeSound, IsArray
<1>2. KeysOf(Node(ArrayKind, <<>>)) = {}
  BY DEF KeysOf, Node
<1> QED
  BY <1>1, <1>2, SoundParent

LEMMA PlaceOfField ==
    ASSUME NEW type \in DOMAIN Types, IsCompound(type), NEW name \in FieldNames(type),
           NEW place \in Places, place.type = type, ~place.isArray
    PROVE  /\ PlaceBelow(place, name) = PlaceOf(FieldOf(type, name))
           /\ PlaceBelow(place, name) \in Places
           /\ FieldOf(type, name) \in FieldInfos
<1>1. FieldOf(type, name) \in FieldInfos
  BY FieldFound
<1> QED
  BY <1>1 DEF PlaceBelow, PlaceOf, Place, Places, FieldInfos

\* A value of a type that has no fields.
LEMMA SoundLeaf ==
    ASSUME NEW place \in Places, ~place.isArray, ~IsCompound(place.type), NEW node,
           LeafFits(place.type, node), "at" \notin DOMAIN node
    PROVE  Sound(place, node)
<1>1. NodeSound(place, node)
  BY DEF NodeSound, IsLeaf
<1>2. KeysOf(node) = {}
  BY DEF KeysOf
<1> QED
  BY <1>1, <1>2, SoundParent

LEMMA SoundDefaultLeaf ==
    ASSUME NEW place \in Places, ~place.isArray, ~(IsCompound(place.type) /\ ~HasChoice(place.type))
    PROVE  Sound(place, DefaultLeaf(Cpp(place.type)))
<1> DEFINE cpp == Cpp(place.type)
<1>1. CASE hasChoiceCpp(cpp)
  <2>1. DefaultLeaf(cpp) = Node(cpp, EmptyAt)
    BY <1>1 DEF DefaultLeaf, hasChoiceCpp, Simple
  <2>2. HasChoice(place.type) /\ IsCompound(place.type)
    BY <1>1 DEF HasChoice, IsCompound, isCompoundCpp, hasChoiceCpp, Compounds, Simple
  <2>3. IsFieldsOf(place.type, EmptyAt)
    BY <2>2 DEF IsFieldsOf, EmptyAt
  <2>4. NodeSound(place, Node(cpp, EmptyAt))
    BY <2>2, <2>3 DEF NodeSound, IsObject
  <2>5. KeysOf(Node(cpp, EmptyAt)) = {}
    BY DEF KeysOf, Node, EmptyAt
  <2> QED
    BY <2>1, <2>4, <2>5, SoundParent
<1>2. CASE ~hasChoiceCpp(cpp)
  <2>1. ~IsCompound(place.type)
    BY <1>2 DEF HasChoice
  <2> DEFINE leaf == DefaultLeaf(cpp)
  <2>2. /\ leaf.kind = cpp /\ "at" \notin DOMAIN leaf
        /\ cpp = <<"ENUM", 0>> => leaf.num = 0
    <3>1. CASE cpp = <<"STRING", 0>>
      BY <1>2, <3>1 DEF DefaultLeaf, Str
    <3>2. CASE cpp = <<"BIT_BUFFER", 0>>
      BY <1>2, <3>2 DEF DefaultLeaf, Bits
    <3>3. CASE cpp = <<"BYTES", 0>>
      BY <1>2, <3>3 DEF DefaultLeaf, Octets
    <3>4. CASE cpp \notin {<<"STRING", 0>>, <<"BIT_BUFFER", 0>>, <<"BYTES", 0>>}
      BY <1>2, <3>4 DEF DefaultLeaf, Num
    <3> QED
      BY <3>1, <3>2, <3>3, <3>4
  <2> HIDE DEF leaf
  <2>3. LeafFits(place.type, leaf)
    BY <2>2 DEF LeafFits
  <2> QED
    BY <2>1, <2>2, <2>3, SoundLeaf DEF leaf
<1> QED
  BY <1>1, <1>2

\* A new object of a type is sound, with all that it has in place.
LEMMA SoundDefault ==
    ASSUME NEW place \in Places, ~place.isArray
    PROVE  Sound(place, Default[place.type])
<1> DEFINE T == {type \in DOMAIN Types : \E p \in Places : /\ p.type = type /\ ~p.isArray
                                                        /\ ~Sound(p, Default[type])}
<1>1. T = {}
  <2> SUFFICES ASSUME T # {} PROVE FALSE
    OBVIOUS
  <2>1. PICK type \in T : Contained(type) \intersect T = {}
    BY InnermostType
  <2>2. PICK p \in Places : p.type = type /\ ~p.isArray /\ ~Sound(p, Default[type])
    OBVIOUS
  <2>3. \A t \in Contained(type) : \A q \in Places : q.type = t /\ ~q.isArray => Sound(q, Default[t])
    BY <2>1, ContainedAreTypes
  <2> HIDE DEF T
  <2>4. type \in DOMAIN Types
    BY <2>1 DEF T
  <2>5. Default[type] = NewOf(Default, type)
    BY <2>4, DefaultIs
  <2>6. IsCompound(type) /\ ~HasChoice(type)
    BY <2>2, <2>5, SoundDefaultLeaf DEF NewOf
  <2> DEFINE New(name) == CASE FieldOf(type, name).isOptional -> Null
                            [] ~FieldOf(type, name).isOptional /\ FieldOf(type, name).isArray ->
                                  Node(ArrayKind, <<>>)
                            [] OTHER -> Default[FieldOf(type, name).typeInfo]
             at == [name \in FieldNames(type) |-> New(name)]
  <2>7. Default[type] = Node(Cpp(type), at)
    BY <2>5, <2>6, Zenon DEF NewOf
  <2>8. ASSUME NEW name \in FieldNames(type) PROVE Sound(PlaceBelow(p, name), New(name))
    <3>1. PICK f \in FieldInfos : f = FieldOf(type, name)
      BY <2>4, <2>6, FieldFound
    <3>2. PICK q \in Places : q = PlaceBelow(p, name) /\ q = PlaceOf(f)
      BY <2>2, <2>4, <2>6, <3>1, PlaceOfField
    <3>3. q.type = f.typeInfo /\ q.isArray = f.isArray /\ q.isOptional = f.isOptional
      BY <3>2 DEF PlaceOf, Place
    <3>4. CASE f.isOptional
      BY <3>1, <3>2, <3>3, <3>4, SoundNull
    <3>5. CASE ~f.isOptional /\ f.isArray
      BY <3>1, <3>2, <3>3, <3>5, SoundEmptyArray
    <3>6. CASE ~f.isOptional /\ ~f.isArray
      <4>1. f.typeInfo \in Contained(type)
        BY <2>4, <2>6, <3>1, <3>6, FieldInPlace
      <4>2. Sound(q, Default[f.typeInfo])
        BY <2>3, <3>3, <3>6, <4>1
      <4> QED
        BY <3>1, <3>2, <3>6, <4>2
    <3> QED
      BY <3>4, <3>5, <3>6
  <2> HIDE DEF New
  <2>9. IsFieldsOf(type, at)
    BY <2>6 DEF IsFieldsOf
  <2>10. NodeSound(p, Node(Cpp(type), at))
    BY <2>2, <2>6, <2>9 DEF NodeSound, IsObject
  <2>11. \A name \in KeysOf(Node(Cpp(type), at)) :
            Sound(PlaceBelow(p, name), Node(Cpp(type), at).at[name])
    BY <2>8 DEF KeysOf, Node
  <2> HIDE DEF at
  <2> QED
    BY <2>2, <2>7, <2>10, <2>11, SoundParent
<1>2. place.type \in DOMAIN Types
  BY DEF Places
<1> QED
  BY <1>1, <1>2

\* What a field is created as.
LEMMA SoundDefaultOf ==
    ASSUME NEW field \in FieldInfos
    PROVE  Sound(PlaceOf(field), DefaultOf(field))
<1>1. /\ PlaceOf(field) \in Places
      /\ PlaceOf(field).type = field.typeInfo /\ PlaceOf(field).isArray = field.isArray
  BY DEF PlaceOf, Place, Places, FieldInfos
<1>2. CASE field.isArray
  BY <1>1, <1>2, SoundEmptyArray DEF DefaultOf
<1>3. CASE ~field.isArray
  BY <1>1, <1>3, SoundDefault DEF DefaultOf
<1> QED
  BY <1>2, <1>3
-----------------------------------------------------------------------------
(* Fits looks at the nodes of a sound object.                               *)

IsLevels(f, type, whole, n) ==
    f = [d \in 0..n |->
            IF d = 0
            THEN {[path |-> <<>>, place |-> RootPlace(type)]}
            ELSE UNION {{[path |-> Append(m.path, key), place |-> PlaceBelow(m.place, key)] :
                            key \in KeysOf(Get(whole, m.path))} : m \in f[d - 1]}]

NextLevel(whole, level) ==
    UNION {{[path |-> Append(m.path, key), place |-> PlaceBelow(m.place, key)] :
               key \in KeysOf(Get(whole, m.path))} : m \in level}

LEMMA LevelsExist ==
    ASSUME NEW type, NEW whole, NEW n \in Nat
    PROVE  \E f : IsLevels(f, type, whole, n)
<1> DEFINE Root == {[path |-> <<>>, place |-> RootPlace(type)]}
           Are(f, m) == f = [d \in 0..m |-> IF d = 0 THEN Root ELSE NextLevel(whole, f[d - 1])]
           S == {m \in Nat : \E f : Are(f, m)}
<1>0. \A f, m : IsLevels(f, type, whole, m) <=> Are(f, m)
  BY Zenon DEF IsLevels, NextLevel
<1> HIDE DEF Root
<1>1. 0 \in S
  <2>1. Are([d \in 0..0 |-> Root], 0)
    OBVIOUS
  <2> QED
    BY <2>1
<1>2. ASSUME NEW m \in S PROVE m + 1 \in S
  <2>1. PICK f : Are(f, m)
    OBVIOUS
  <2> DEFINE g == [d \in 0..(m + 1) |-> IF d <= m THEN f[d] ELSE NextLevel(whole, f[m])]
  <2>2. \A d \in 0..m : f[d] = IF d = 0 THEN Root ELSE NextLevel(whole, f[d - 1])
    BY <2>1
  <2>3. \A d \in 0..(m + 1) : g[d] = IF d = 0 THEN Root ELSE NextLevel(whole, g[d - 1])
    <3> SUFFICES ASSUME NEW d \in 0..(m + 1) PROVE g[d] = IF d = 0 THEN Root ELSE NextLevel(whole, g[d - 1])
      OBVIOUS
    <3>1. CASE d <= m
      <4>1. g[d] = f[d] /\ (d # 0 => g[d - 1] = f[d - 1])
        BY <3>1
      <4> QED
        BY <2>2, <3>1, <4>1
    <3>2. CASE d = m + 1
      <4>1. g[d] = NextLevel(whole, f[m]) /\ g[m] = f[m] /\ d # 0 /\ d - 1 = m
        BY <3>2
      <4> QED
        BY <3>2, <4>1
    <3> QED
      BY <3>1, <3>2
  <2>4. g = [d \in 0..(m + 1) |-> g[d]]
    OBVIOUS
  <2> HIDE DEF g
  <2>5. Are(g, m + 1)
    BY <2>3, <2>4, Zenon
  <2> QED
    BY <2>5
<1>3. S = Nat
  <2> HIDE DEF S
  <2>1. S \subseteq Nat
    BY DEF S
  <2> QED
    BY <1>1, <1>2, <2>1, SetInduction
<1>4. n \in S
  <2> HIDE DEF S
  <2> QED
    BY <1>3
<1>5. PICK f : Are(f, n)
  BY <1>4
<1> QED
  BY <1>0, <1>5, Zenon

\* A sound object fits its type, in whatever depth it is looked at.
LEMMA SoundFits ==
    ASSUME NEW type, NEW whole, Sound(RootPlace(type), whole)
    PROVE  Fits(type, whole)
<1> DEFINE levels == CHOOSE f : IsLevels(f, type, whole, MaxDepth)
           IsSound(m) == m.path \in Paths /\ Sound(m.place, Get(whole, m.path))
           S == {d \in Nat : d <= MaxDepth => \A m \in levels[d] : IsSound(m)}
<1>1. IsLevels(levels, type, whole, MaxDepth)
  BY LevelsExist, MaxDepthAssumption
<1>2. NodesOf(type, whole) = UNION {levels[d] : d \in 0..MaxDepth}
  BY Zenon DEF NodesOf, IsLevels, levels
<1> HIDE DEF levels
<1>3. /\ levels[0] = {[path |-> <<>>, place |-> RootPlace(type)]}
      /\ \A d \in 0..MaxDepth : d # 0 => levels[d] = NextLevel(whole, levels[d - 1])
  <2>1. \A d \in 0..MaxDepth :
           levels[d] = IF d = 0 THEN {[path |-> <<>>, place |-> RootPlace(type)]}
                                ELSE NextLevel(whole, levels[d - 1])
    BY <1>1, Zenon DEF IsLevels, NextLevel
  <2>2. 0 \in 0..MaxDepth
    BY MaxDepthAssumption
  <2> QED
    BY <2>1, <2>2, Zenon
<1>4. 0 \in S
  <2>1. IsSound([path |-> <<>>, place |-> RootPlace(type)])
    BY GetEmpty DEF Paths
  <2> QED
    BY <1>3, <2>1
<1>5. ASSUME NEW d \in S PROVE d + 1 \in S
  <2> SUFFICES ASSUME d + 1 <= MaxDepth, NEW m \in levels[d + 1] PROVE IsSound(m)
    OBVIOUS
  <2>1. d + 1 \in 0..MaxDepth /\ d + 1 # 0 /\ (d + 1) - 1 = d /\ d <= MaxDepth
    BY MaxDepthAssumption
  <2>2. m \in NextLevel(whole, levels[d])
    BY <1>3, <2>1
  <2>3. PICK above \in levels[d] :
           m \in {[path |-> Append(above.path, key), place |-> PlaceBelow(above.place, key)] :
                     key \in KeysOf(Get(whole, above.path))}
    BY <2>2 DEF NextLevel
  <2>4. PICK key \in KeysOf(Get(whole, above.path)) :
           m = [path |-> Append(above.path, key), place |-> PlaceBelow(above.place, key)]
    BY <2>3
  <2>5. IsSound(above)
    BY <2>1
  <2>6. key \in Keys
    BY <2>5, SoundNode, SoundKeys
  <2>7. Sound(PlaceBelow(above.place, key), Get(whole, above.path).at[key])
    BY <2>5, SoundChild
  <2>8. m.path \in Paths /\ Get(whole, m.path) = Get(whole, above.path).at[key]
    BY <2>4, <2>5, <2>6, AppendPath, GetAppend
  <2>9. m.place = PlaceBelow(above.place, key)
    BY <2>4
  <2> QED
    BY <2>7, <2>8, <2>9
<1>6. S = Nat
  <2> HIDE DEF S
  <2>1. S \subseteq Nat
    BY DEF S
  <2> QED
    BY <1>4, <1>5, <2>1, SetInduction
<1>7. ASSUME NEW m \in NodesOf(type, whole) PROVE NodeFits(m.place, Get(whole, m.path))
  <2>1. PICK d \in 0..MaxDepth : m \in levels[d]
    BY <1>2
  <2>2. d \in S /\ d <= MaxDepth
    <3> HIDE DEF S
    <3> QED
      BY <1>6, <2>1, MaxDepthAssumption
  <2>3. IsSound(m)
    BY <2>1, <2>2
  <2> QED
    BY <2>3, SoundNode, SoundNodeFits
<1> QED
  BY <1>7 DEF Fits
-----------------------------------------------------------------------------
(* What an operation makes of a sound object or array.                      *)

LEMMA ObjectIs ==
    ASSUME NEW place, NEW node, NodeSound(place, node), IsObject(place, node)
    PROVE  /\ place \in Places /\ place.type \in DOMAIN Types /\ ~place.isArray /\ IsCompound(place.type)
           /\ node = Node(Cpp(place.type), node.at)
           /\ node.kind = Cpp(place.type) /\ "at" \in DOMAIN node
           /\ IsFieldsOf(place.type, node.at)
           /\ KeysOf(node) = DOMAIN node.at
<1>1. PICK at : IsFieldsOf(place.type, at) /\ node = Node(Cpp(place.type), at)
  BY DEF IsObject
<1>2. node.kind = Cpp(place.type) /\ node.at = at /\ "at" \in DOMAIN node
  BY <1>1 DEF Node
<1> QED
  BY <1>1, <1>2 DEF IsObject, NodeSound, Places, KeysOf

\* No extended field is absent in what is sound.
LEMMA AbsentUnsound == ASSUME NEW place, NodeSound(place, Absent) PROVE FALSE
<1>1. Absent.kind = <<"ABSENT", 0>> /\ "at" \notin DOMAIN Absent /\ Absent # Null
  BY DEF Absent, Null, NullKind
<1>2. ~IsNull(place, Absent)
  BY <1>1 DEF IsNull
<1>3. ~IsArray(place, Absent)
  BY <1>1 DEF IsArray, Node
<1>4. ~IsObject(place, Absent)
  BY <1>1 DEF IsObject, Node
<1>5. ~IsLeaf(place, Absent)
  BY <1>1, KindsDiffer DEF IsLeaf, LeafFits, NodeSound, Places
<1> QED
  BY <1>2, <1>3, <1>4, <1>5 DEF NodeSound

LEMMA StructKind ==
    ASSUME NEW type, IsCompound(type)
    PROVE  Cpp(type) = <<"STRUCT", 0>> <=> ~HasChoice(type)
BY DEF IsCompound, HasChoice, isCompoundCpp, hasChoiceCpp, Compounds, Simple

\* A sound value is selected: the other fields of a structure stay, of a choice there are none.
LEMMA SoundSelect ==
    ASSUME NEW place, NEW node, Sound(place, node), IsObject(place, node),
           NEW name \in FieldNames(place.type), NEW value, Sound(PlaceBelow(place, name), value)
    PROVE  /\ Sound(place, Select(node, name, value)) /\ IsObject(place, Select(node, name, value))
           /\ Select(node, name, value).kind = node.kind
           /\ name \in DOMAIN Select(node, name, value).at
           /\ Select(node, name, value).at[name] = value
           /\ HasChoice(place.type) => DOMAIN Select(node, name, value).at = {name}
           /\ ~HasChoice(place.type) =>
                 /\ DOMAIN Select(node, name, value).at = DOMAIN node.at
                 /\ \A other \in DOMAIN node.at :
                       other # name => Select(node, name, value).at[other] = node.at[other]
<1> DEFINE type == place.type
           new == Select(node, name, value)
<1>1. /\ place \in Places /\ type \in DOMAIN Types /\ ~place.isArray /\ IsCompound(type)
      /\ node = Node(Cpp(type), node.at) /\ node.kind = Cpp(type) /\ "at" \in DOMAIN node
      /\ IsFieldsOf(type, node.at) /\ KeysOf(node) = DOMAIN node.at
  BY SoundNode, ObjectIs
<1>2. CASE ~HasChoice(type)
  <2>1. new = Replaced(node, name, value)
    BY <1>1, <1>2, StructKind DEF Select, Replaced
  <2>2. name \in DOMAIN node.at
    BY <1>1, <1>2 DEF IsFieldsOf
  <2>3. Sound(place, Replaced(node, name, value))
    BY <1>1, <2>2, SoundReplaced
  <2>4. /\ DOMAIN Replaced(node, name, value).at = DOMAIN node.at
        /\ Replaced(node, name, value).at[name] = value
        /\ \A other \in DOMAIN node.at : other # name => Replaced(node, name, value).at[other] = node.at[other]
        /\ Replaced(node, name, value).kind = node.kind
    <3>1. "kind" \in DOMAIN node
      BY <1>1 DEF Node
    <3> QED
      BY <1>1, <2>2, <3>1, ReplacedIs
  <2>5. IsObject(place, Replaced(node, name, value))
    <3>1. "at" \in DOMAIN Replaced(node, name, value)
      BY <1>1, <2>2, ReplacedIs
    <3>2. NodeSound(place, Replaced(node, name, value))
      BY <2>3, SoundNode
    <3>3. ~IsNull(place, Replaced(node, name, value))
      BY <3>1 DEF IsNull, Null
    <3> QED
      BY <1>1, <3>1, <3>2, <3>3 DEF NodeSound, IsArray, IsLeaf
  <2> QED
    BY <1>2, <2>1, <2>2, <2>3, <2>4, <2>5
<1>3. CASE HasChoice(type)
  <2> DEFINE at == [n \in {name} |-> value]
  <2>1. new = Node(Cpp(type), at)
    <3>1. node.kind # <<"STRUCT", 0>>
      BY <1>1, <1>3, StructKind
    <3>2. new = [node EXCEPT !.at = at]
      BY <3>1 DEF Select
    <3> HIDE DEF new, at
    <3> QED
      BY <1>1, <3>2 DEF Node
  <2>2. DOMAIN at = {name} /\ at[name] = value
    OBVIOUS
  <2>3. IsFieldsOf(type, at)
    BY <1>3 DEF IsFieldsOf
  <2> HIDE DEF at, new
  <2>4. new.kind = node.kind /\ new.at = at /\ KeysOf(new) = {name}
    BY <1>1, <2>1, <2>2 DEF Node, KeysOf
  <2>5. IsObject(place, new)
    BY <1>1, <2>1, <2>3 DEF IsObject
  <2>6. NodeSound(place, new)
    BY <1>1, <2>5 DEF NodeSound
  <2>7. Sound(place, new)
    BY <2>2, <2>4, <2>6, SoundParent
  <2> QED
    BY <1>3, <2>2, <2>4, <2>5, <2>7 DEF new
<1> QED
  BY <1>2, <1>3

\* No extended field is absent, so a field is created by selecting a new value.
LEMMA CreateFieldIs ==
    ASSUME NEW place, NEW node, Sound(place, node), IsObject(place, node), NEW name \in FieldNames(place.type)
    PROVE  /\ createField(place.type, node, name) = Select(node, name, DefaultOf(FieldOf(place.type, name)))
           /\ Sound(PlaceBelow(place, name), DefaultOf(FieldOf(place.type, name)))
<1>1. /\ place \in Places /\ place.type \in DOMAIN Types /\ ~place.isArray /\ IsCompound(place.type)
      /\ KeysOf(node) = DOMAIN node.at
  BY SoundNode, ObjectIs
<1>2. name \in DOMAIN node.at => node.at[name] # Absent
  <2> SUFFICES ASSUME name \in DOMAIN node.at PROVE node.at[name] # Absent
    OBVIOUS
  <2>1. NodeSound(PlaceBelow(place, name), node.at[name])
    BY <1>1, SoundChild, SoundNode
  <2> QED
    BY <2>1, AbsentUnsound
<1>3. createField(place.type, node, name) = Select(node, name, DefaultOf(FieldOf(place.type, name)))
  BY <1>2 DEF createField
<1>4. /\ PlaceBelow(place, name) = PlaceOf(FieldOf(place.type, name))
      /\ FieldOf(place.type, name) \in FieldInfos
  BY <1>1, PlaceOfField
<1> QED
  BY <1>3, <1>4, SoundDefaultOf

\* What fromAny may be given: a value of a type that has no type information of its own.
IsPlainValue(any) ==
    /\ any.kind \notin Compounds \union {<<"ENUM", 0>>}
    /\ "at" \notin DOMAIN any

\* What fromAny lets through fits the field.
LEMMA FromAnyFits ==
    ASSUME NEW type \in DOMAIN Types, NEW any, IsPlainValue(any), fromAny(type, any) # Thrown
    PROVE  /\ ~IsCompound(type) /\ LeafFits(type, fromAny(type, any))
           /\ "at" \notin DOMAIN fromAny(type, any)
<1> DEFINE cpp == Cpp(type)
           v == fromAny(type, any)
<1>1. CASE any.kind = cpp
  <2>1. cpp \in {<<"ENUM", 0>>, <<"BITMASK", 0>>} => cpp # Cpp(Types[type].getUnderlyingType)
    <3>1. cpp \in {<<"ENUM", 0>>, <<"BITMASK", 0>>} =>
             Cpp(Types[type].getUnderlyingType) \in {"INT", "UINT"} \X StdWidths
      BY TypesAssumption DEF Simple
    <3>2. <<"ENUM", 0>> \notin {"INT", "UINT"} \X StdWidths /\ <<"BITMASK", 0>> \notin {"INT", "UINT"} \X StdWidths
      OBVIOUS
    <3> QED
      BY <3>1, <3>2
  <2>2. v = any
    BY <1>1, <2>1 DEF fromAny
  <2> QED
    BY <1>1, <2>2 DEF IsPlainValue, IsCompound, isCompoundCpp, LeafFits
<1>2. CASE any.kind # cpp /\ cpp = <<"BITMASK", 0>>
  <2>1. v = Num(cpp, any.num)
    BY <1>2 DEF fromAny
  <2>2. v.kind = cpp /\ "at" \notin DOMAIN v
    BY <2>1 DEF Num
  <2> HIDE DEF v
  <2>3. LeafFits(type, v) /\ ~IsCompound(type)
    BY <1>2, <2>2 DEF LeafFits, IsCompound, isCompoundCpp, Compounds, Simple
  <2> QED
    BY <2>2, <2>3 DEF v
<1>3. CASE any.kind # cpp /\ cpp # <<"BITMASK", 0>>
  <2>1. cpp = <<"ENUM", 0>> /\ any.num \in EnumValues(type) /\ v = Num(cpp, any.num)
    BY <1>3 DEF fromAny
  <2>2. v.kind = cpp /\ v.num = any.num /\ "at" \notin DOMAIN v
    BY <2>1 DEF Num
  <2> HIDE DEF v
  <2>3. LeafFits(type, v) /\ ~IsCompound(type)
    BY <2>1, <2>2 DEF LeafFits, IsCompound, isCompoundCpp, Compounds, Simple
  <2> QED
    BY <2>2, <2>3 DEF v
<1> QED
  BY <1>1, <1>2, <1>3

\* A field is set by selecting a sound value, a null if it is an optional one.
LEMMA SetFieldIs ==
    ASSUME NEW place, NEW node, Sound(place, node), IsObject(place, node), NEW name \in FieldNames(place.type),
           NEW any, IsPlainValue(any), setField(place.type, node, name, any) # Thrown
    PROVE  \E value : /\ setField(place.type, node, name, any) = Select(node, name, value)
                      /\ Sound(PlaceBelow(place, name), value)
<1> DEFINE type == place.type
           f == FieldOf(type, name)
<1>1. /\ place \in Places /\ type \in DOMAIN Types /\ ~place.isArray /\ IsCompound(type)
  BY SoundNode, ObjectIs
<1>2. PlaceBelow(place, name) = PlaceOf(f) /\ PlaceBelow(place, name) \in Places /\ f \in FieldInfos
  BY <1>1, PlaceOfField
<1>3. /\ PlaceOf(f).type = f.typeInfo /\ PlaceOf(f).isArray = f.isArray
      /\ PlaceOf(f).isOptional = f.isOptional /\ f.typeInfo \in DOMAIN Types
  BY <1>2 DEF PlaceOf, Place, FieldInfos
<1>4. CASE any = Null /\ f.isOptional /\ ~HasChoice(type)
  <2>1. setField(type, node, name, any) = Select(node, name, Null)
    BY <1>4 DEF setField
  <2> HIDE DEF f, type
  <2>2. Sound(PlaceBelow(place, name), Null)
    BY <1>2, <1>3, <1>4, SoundNull
  <2> QED
    BY <2>1, <2>2 DEF type
<1>5. CASE ~(any = Null /\ f.isOptional /\ ~HasChoice(type))
  <2>1. /\ ~f.isArray /\ fromAny(f.typeInfo, any) # Thrown
        /\ setField(type, node, name, any) = Select(node, name, fromAny(f.typeInfo, any))
    BY <1>5 DEF setField
  <2> HIDE DEF f, type
  <2>2. /\ ~IsCompound(f.typeInfo) /\ LeafFits(f.typeInfo, fromAny(f.typeInfo, any))
        /\ "at" \notin DOMAIN fromAny(f.typeInfo, any)
    BY <1>3, <2>1, FromAnyFits
  <2>3. Sound(PlaceOf(f), fromAny(f.typeInfo, any))
    BY <1>2, <1>3, <2>1, <2>2, SoundLeaf
  <2> QED
    BY <1>2, <2>1, <2>3 DEF type
<1> QED
  BY <1>4, <1>5

LEMMA ArrayIs ==
    ASSUME NEW place, NEW node, NodeSound(place, node), IsArray(place, node)
    PROVE  /\ place \in Places /\ place.type \in DOMAIN Types /\ place.isArray
           /\ node = Node(ArrayKind, node.at)
           /\ node.kind = ArrayKind /\ "at" \in DOMAIN node
           /\ IsSequence(node.at) /\ Len(node.at) \in Nat
           /\ KeysOf(node) = 1..Len(node.at) /\ DOMAIN node.at = 1..Len(node.at)
<1>1. PICK values : IsSequence(values) /\ node = Node(ArrayKind, values)
  BY DEF IsArray
<1>2. node.kind = ArrayKind /\ node.at = values /\ "at" \in DOMAIN node
  BY <1>1 DEF Node
<1>3. PICK S : values \in Seq(S)
  BY <1>1 DEF IsSequence
<1>4. Len(values) \in Nat /\ DOMAIN values = 1..Len(values)
  BY <1>3
<1> QED
  BY <1>1, <1>2, <1>4 DEF IsArray, NodeSound, Places, KeysOf

\* The element of an array.
ElementPlace(place) == Place(place.type, FALSE, FALSE, FALSE)

LEMMA PlaceOfElement ==
    ASSUME NEW place \in Places, place.isArray, NEW i
    PROVE  PlaceBelow(place, i) = ElementPlace(place) /\ ElementPlace(place) \in Places
BY DEF PlaceBelow, ElementPlace, Place, Places

\* A sound element is added: the ones in front of it stay.
LEMMA SoundGrown ==
    ASSUME NEW place, NEW node, Sound(place, node), IsArray(place, node),
           NEW value, Sound(ElementPlace(place), value),
           NEW new, new = [node EXCEPT !.at = Append(node.at, value)]
    PROVE  /\ Sound(place, new) /\ IsArray(place, new) /\ new.kind = node.kind
           /\ DOMAIN new.at = 1..(Len(node.at) + 1)
           /\ new.at[Len(node.at) + 1] = value
           /\ \A i \in 1..Len(node.at) : new.at[i] = node.at[i]
<1>1. /\ place \in Places /\ place.isArray /\ node = Node(ArrayKind, node.at) /\ node.kind = ArrayKind
      /\ IsSequence(node.at) /\ Len(node.at) \in Nat /\ KeysOf(node) = 1..Len(node.at)
  BY SoundNode, ArrayIs
<1>2. PICK S : node.at \in Seq(S)
  BY <1>1 DEF IsSequence
<1> DEFINE T == S \union {value}
<1>3. node.at \in Seq(T) /\ value \in T
  BY <1>2
<1>4. PICK at : at = Append(node.at, value)
  OBVIOUS
<1>5. /\ at \in Seq(T) /\ DOMAIN at = 1..(Len(node.at) + 1)
      /\ at[Len(node.at) + 1] = value /\ \A i \in 1..Len(node.at) : at[i] = node.at[i]
  <2> HIDE DEF T
  <2> QED
    BY <1>3, <1>4, AppendProperties
<1>6. new = Node(ArrayKind, at)
  BY <1>1, <1>4 DEF Node
<1>7. new.at = at /\ new.kind = ArrayKind /\ KeysOf(new) = 1..(Len(node.at) + 1)
  BY <1>5, <1>6 DEF Node, KeysOf
<1>8. IsArray(place, new) /\ NodeSound(place, new)
  BY <1>1, <1>5, <1>6 DEF IsArray, IsSequence, NodeSound
<1>9. ASSUME NEW i \in KeysOf(new) PROVE Sound(PlaceBelow(place, i), new.at[i])
  <2>1. PlaceBelow(place, i) = ElementPlace(place)
    BY <1>1, PlaceOfElement
  <2>2. CASE i = Len(node.at) + 1
    BY <1>5, <1>7, <2>1, <2>2
  <2>3. CASE i # Len(node.at) + 1
    <3>1. i \in KeysOf(node)
      BY <1>1, <1>7, <2>3
    <3>2. new.at[i] = node.at[i]
      BY <1>1, <1>5, <1>7, <3>1
    <3> QED
      BY <3>1, <3>2, SoundChild
  <2> QED
    BY <2>2, <2>3
<1>10. Sound(place, new)
  BY <1>8, <1>9, SoundParent
<1> QED
  BY <1>1, <1>5, <1>7, <1>8, <1>10

\* A resize by one adds a new object.
LEMMA ResizeIs ==
    ASSUME NEW place, NEW node, Sound(place, node), IsArray(place, node)
    PROVE  /\ resize(place.type, node, Len(node.at) + 1)
                = [node EXCEPT !.at = Append(node.at, Default[place.type])]
           /\ Sound(ElementPlace(place), Default[place.type])
<1>1. /\ place \in Places /\ place.isArray /\ IsSequence(node.at) /\ Len(node.at) \in Nat
  BY SoundNode, ArrayIs
<1>2. PICK S : node.at \in Seq(S)
  BY <1>1 DEF IsSequence
<1> DEFINE n == Len(node.at)
           new == Default[place.type]
<1>3. Append(node.at, new) = [i \in 1..(n + 1) |-> IF i <= n THEN node.at[i] ELSE new]
  <2> DEFINE T == S \union {new}
  <2>1. node.at \in Seq(T) /\ new \in T
    BY <1>2
  <2>2. PICK at \in Seq(T) : at = Append(node.at, new)
    <3> HIDE DEF T, new
    <3> QED
      BY <2>1, AppendProperties
  <2>3. Len(at) = n + 1 /\ at[n + 1] = new /\ \A i \in 1..n : at[i] = node.at[i]
    <3> HIDE DEF T, new
    <3> QED
      BY <2>1, <2>2, AppendProperties
  <2>4. at = [i \in 1..(n + 1) |-> at[i]]
    BY <2>3
  <2>5. ASSUME NEW i \in 1..(n + 1) PROVE at[i] = IF i <= n THEN node.at[i] ELSE new
    <3> HIDE DEF new, T
    <3> QED
      BY <1>1, <2>3
  <2> HIDE DEF new, n
  <2> QED
    BY <2>2, <2>4, <2>5
<1>4. Sound(ElementPlace(place), Default[ElementPlace(place).type])
  <2>1. ElementPlace(place) \in Places /\ ~ElementPlace(place).isArray
    BY <1>1, PlaceOfElement DEF ElementPlace, Place
  <2> QED
    BY <2>1, SoundDefault
<1>5. ElementPlace(place).type = place.type
  BY DEF ElementPlace, Place
<1> HIDE DEF new
<1> QED
  BY <1>3, <1>4, <1>5, Zenon DEF resize, new

\* A value is appended if it fits.
LEMMA AppendIs ==
    ASSUME NEW place, NEW node, Sound(place, node), IsArray(place, node), NEW any, IsPlainValue(any),
           append(place.type, node, any) # Thrown
    PROVE  \E value : /\ append(place.type, node, any) = [node EXCEPT !.at = Append(node.at, value)]
                      /\ Sound(ElementPlace(place), value)
<1>1. place \in Places /\ place.type \in DOMAIN Types /\ place.isArray
  BY SoundNode, ArrayIs
<1>2. PICK value : value = fromAny(place.type, any)
  OBVIOUS
<1>3. value # Thrown /\ append(place.type, node, any) = [node EXCEPT !.at = Append(node.at, value)]
  BY <1>2 DEF append
<1>4. ~IsCompound(place.type) /\ LeafFits(place.type, value) /\ "at" \notin DOMAIN value
  BY <1>1, <1>2, <1>3, FromAnyFits
<1>5. ElementPlace(place) \in Places /\ ~ElementPlace(place).isArray /\ ElementPlace(place).type = place.type
  BY <1>1, PlaceOfElement DEF ElementPlace, Place
<1> QED
  BY <1>3, <1>4, <1>5, SoundLeaf

-----------------------------------------------------------------------------
(* The two stacks.                                                         *)

Open(i) == IsCompound(fieldInfoStack[i].typeInfo) \/ (i = Len(fieldInfoStack) /\ state = "IN_ARRAY")

Typed ==
    /\ state \in CreatorState
    /\ fieldInfoStack \in Seq(FieldInfos)
    /\ IsSequence(valueStack)

Inv ==
    /\ Typed
    /\ \A i \in DOMAIN fieldInfoStack : Open(i)
    /\ Aligned

\* The number of arrays in a sequence of fields.
Arrays(fields) == {i \in DOMAIN fields : fields[i].isArray}

\* A finite number of fields has a finite number of arrays.
LEMMA ArraysFinite ==
    ASSUME NEW fields \in Seq(FieldInfos)
    PROVE  IsFiniteSet(Arrays(fields)) /\ Cardinality(Arrays(fields)) \in Nat
<1>1. Arrays(fields) \subseteq 1..Len(fields)
  BY DEF Arrays
<1>2. IsFiniteSet(1..Len(fields))
  BY FS_Interval
<1>3. IsFiniteSet(Arrays(fields))
  BY <1>1, <1>2, FS_Subset
<1> QED
  BY <1>3, FS_CardinalityType

\* Pushing a field that is an array adds one array, and popping it takes that one away.
LEMMA ArraysAppendArray ==
    ASSUME NEW fields \in Seq(FieldInfos), NEW f \in FieldInfos, f.isArray
    PROVE  Cardinality(Arrays(Append(fields, f))) = Cardinality(Arrays(fields)) + 1
<1>1. Arrays(Append(fields, f)) = Arrays(fields) \union {Len(fields) + 1}
  BY DEF Arrays
<1>2. Len(fields) + 1 \notin Arrays(fields)
  BY DEF Arrays
<1>3. IsFiniteSet(Arrays(fields))
  BY ArraysFinite
<1> QED
  BY <1>1, <1>2, <1>3, FS_AddElement

LEMMA ArraysAppendOther ==
    ASSUME NEW fields \in Seq(FieldInfos), NEW f \in FieldInfos, ~f.isArray
    PROVE  Arrays(Append(fields, f)) = Arrays(fields)
BY DEF Arrays

LEMMA ArraysPopArray ==
    ASSUME NEW fields \in Seq(FieldInfos), fields # <<>>, fields[Len(fields)].isArray
    PROVE  Cardinality(Arrays(Pop(fields))) = Cardinality(Arrays(fields)) - 1
<1>1. Arrays(Pop(fields)) = Arrays(fields) \ {Len(fields)}
  BY DEF Arrays, Pop
<1>2. Len(fields) \in Arrays(fields)
  BY DEF Arrays
<1>3. IsFiniteSet(Arrays(fields)) /\ Cardinality(Arrays(fields)) \in Nat
  BY ArraysFinite
<1> QED
  BY <1>1, <1>2, <1>3, FS_RemoveElement

LEMMA ArraysPopOther ==
    ASSUME NEW fields \in Seq(FieldInfos), fields # <<>>, ~fields[Len(fields)].isArray
    PROVE  Arrays(Pop(fields)) = Arrays(fields)
BY DEF Arrays, Pop

\* What is popped is a stack again, one shorter.
LEMMA PopFields ==
    ASSUME NEW fields \in Seq(FieldInfos), fields # <<>>
    PROVE  /\ Pop(fields) \in Seq(FieldInfos)
           /\ Len(Pop(fields)) = Len(fields) - 1
           /\ \A i \in 1..(Len(fields) - 1) : Pop(fields)[i] = fields[i]
<1>1. Len(fields) \in Nat /\ Len(fields) # 0
  BY EmptySeq
<1>2. Pop(fields) = [i \in 1..(Len(fields) - 1) |-> fields[i]]
  BY <1>1 DEF Pop
<1>3. \A i \in 1..(Len(fields) - 1) : fields[i] \in FieldInfos
  BY <1>1, ElementOfSeq
<1> QED
  BY <1>1, <1>2, <1>3

LEMMA PopValues ==
    ASSUME NEW values, IsSequence(values), values # <<>>
    PROVE  IsSequence(Pop(values)) /\ Len(Pop(values)) = Len(values) - 1
<1>0. PICK S : values \in Seq(S)
  BY DEF IsSequence
<1>1. Len(values) \in Nat /\ Len(values) # 0
  BY <1>0, EmptySeq
<1>2. Pop(values) = [i \in 1..(Len(values) - 1) |-> values[i]]
  BY <1>1 DEF Pop
<1>3. \A i \in 1..(Len(values) - 1) : values[i] \in S
  BY <1>0, <1>1, ElementOfSeq
<1>4. Pop(values) \in Seq(S) /\ Len(Pop(values)) = Len(values) - 1
  BY <1>1, <1>2, <1>3
<1> QED
  BY <1>4 DEF IsSequence

-----------------------------------------------------------------------------
\* OpenArrays is the set the lemmas speak of.
LEMMA OpenArraysIs == OpenArrays = Arrays(fieldInfoStack)
BY DEF OpenArrays, Arrays

\* In a compound a found name gives a field, and nothing throws on the way.
LEMMA TopFieldFound ==
    ASSUME Inv, state = "IN_COMPOUND", NEW name, Finds(name)
    PROVE  /\ getTypeInfo \in DOMAIN Types
           /\ findFieldInfo(name) \in FieldInfos
<1>1. IsCompound(getTypeInfo)
  BY DEF Inv, Aligned
<1>2. getTypeInfo \in DOMAIN Types
  <2>1. CASE fieldInfoStack = <<>>
    BY <2>1, RootAssumption DEF getTypeInfo
  <2>2. CASE fieldInfoStack # <<>>
    <3>1. fieldInfoStack[Len(fieldInfoStack)] \in FieldInfos
      BY <2>2 DEF Inv, Typed
    <3> QED
      BY <2>2, <3>1 DEF getTypeInfo, TopField, FieldInfos
  <2> QED
    BY <2>1, <2>2
<1> QED
  BY <1>1, <1>2, FieldFound DEF Finds, findFieldInfo

\* A path is pushed, whatever its keys are.
LEMMA PushTyped ==
    ASSUME Inv, NEW value
    PROVE  /\ IsSequence(Append(valueStack, value))
           /\ Len(Append(valueStack, value)) = Len(valueStack) + 1
<1>1. PICK S : valueStack \in Seq(S)
  BY DEF Inv, Typed, IsSequence
<1> DEFINE T == S \union {value}
<1>2. valueStack \in Seq(T)
  BY <1>1
<1>3. /\ Append(valueStack, value) \in Seq(T)
      /\ Len(Append(valueStack, value)) = Len(valueStack) + 1
  BY <1>2, AppendProperties
<1> QED
  BY <1>3 DEF IsSequence

\* What Inv says of the lengths, in one place.
LEMMA Lengths ==
    ASSUME Inv
    PROVE  /\ Len(fieldInfoStack) \in Nat /\ Len(valueStack) \in Nat
           /\ Cardinality(Arrays(fieldInfoStack)) \in Nat
           /\ fieldInfoStack # <<>> => Len(fieldInfoStack) # 0 /\ TopField \in FieldInfos
           /\ state # "BEFORE_ROOT" => valueStack # <<>>
<1>0. PICK S : valueStack \in Seq(S)
  BY DEF Inv, Typed, IsSequence
<1>1. fieldInfoStack \in Seq(FieldInfos) /\ valueStack \in Seq(S) /\ state \in CreatorState
  BY <1>0 DEF Inv, Typed
<1>2. Len(fieldInfoStack) \in Nat /\ Len(valueStack) \in Nat
  BY <1>1
<1>3. Cardinality(Arrays(fieldInfoStack)) \in Nat
  BY <1>1, ArraysFinite
<1>4. fieldInfoStack # <<>> => Len(fieldInfoStack) # 0 /\ TopField \in FieldInfos
  BY <1>1, <1>2, EmptySeq, ElementOfSeq DEF TopField
<1>5. state # "BEFORE_ROOT" => Len(valueStack) # 0
  <2>1. CASE state = "IN_COMPOUND"
    <3>1. Len(valueStack) = 1 + Len(fieldInfoStack) + Cardinality(Arrays(fieldInfoStack))
      BY <2>1, OpenArraysIs DEF Inv, Aligned
    <3> QED
      BY <1>2, <1>3, <3>1
  <2>2. CASE state = "IN_ARRAY"
    <3>1. /\ fieldInfoStack # <<>>
          /\ Len(valueStack) = Len(fieldInfoStack) + Cardinality(Arrays(fieldInfoStack))
      BY <2>2, OpenArraysIs DEF Inv, Aligned
    <3> QED
      BY <1>2, <1>3, <1>4, <3>1
  <2> QED
    BY <1>1, <2>1, <2>2 DEF CreatorState
<1>6. state # "BEFORE_ROOT" => valueStack # <<>>
  BY <1>5
<1> QED
  BY <1>2, <1>3, <1>4, <1>6

\* A field is pushed with the value it was opened as.
LEMMA PushField ==
    ASSUME Inv, state = "IN_COMPOUND", NEW f \in FieldInfos, NEW value,
           fieldInfoStack' = Append(fieldInfoStack, f),
           valueStack' = Append(valueStack, value),
           \/ f.isArray /\ state' = "IN_ARRAY"
           \/ ~f.isArray /\ IsCompound(f.typeInfo) /\ state' = "IN_COMPOUND"
    PROVE  Inv'
<1>1. IsSequence(valueStack') /\ Len(valueStack') = Len(valueStack) + 1
  BY Lengths, PushTyped
<1>2. /\ fieldInfoStack' \in Seq(FieldInfos)
      /\ Len(fieldInfoStack') = Len(fieldInfoStack) + 1
      /\ fieldInfoStack'[Len(fieldInfoStack) + 1] = f
      /\ \A i \in DOMAIN fieldInfoStack : fieldInfoStack'[i] = fieldInfoStack[i]
      /\ DOMAIN fieldInfoStack' = DOMAIN fieldInfoStack \union {Len(fieldInfoStack) + 1}
      /\ fieldInfoStack' # <<>>
  BY Lengths DEF Inv, Typed
<1>3. Typed'
  BY <1>1, <1>2 DEF Typed, CreatorState
<1>4. (\A i \in DOMAIN fieldInfoStack : Open(i))'
  <2>1. \A i \in DOMAIN fieldInfoStack : IsCompound(fieldInfoStack[i].typeInfo)
    BY DEF Inv, Open
  <2> QED
    BY <1>2, <2>1 DEF Open
<1>5. Len(valueStack) = 1 + Len(fieldInfoStack) + Cardinality(Arrays(fieldInfoStack))
  BY OpenArraysIs DEF Inv, Aligned
<1>6. TopField' = f
  BY <1>2, Lengths DEF TopField
<1>7. Aligned'
  <2>1. CASE f.isArray /\ state' = "IN_ARRAY"
    <3>1. Cardinality(Arrays(fieldInfoStack')) = Cardinality(Arrays(fieldInfoStack)) + 1
      BY <2>1, ArraysAppendArray DEF Inv, Typed
    <3>2. Len(valueStack') = Len(fieldInfoStack') + Cardinality(Arrays(fieldInfoStack'))
      BY <1>1, <1>2, <1>5, <3>1, Lengths
    <3> QED
      BY <1>2, <1>6, <2>1, <3>2 DEF Aligned, OpenArrays, Arrays
  <2>2. CASE ~f.isArray /\ IsCompound(f.typeInfo) /\ state' = "IN_COMPOUND"
    <3>1. Arrays(fieldInfoStack') = Arrays(fieldInfoStack)
      BY <2>2, ArraysAppendOther DEF Inv, Typed
    <3>2. Len(valueStack') = 1 + Len(fieldInfoStack') + Cardinality(Arrays(fieldInfoStack'))
      BY <1>1, <1>2, <1>5, <3>1, Lengths
    <3>3. IsCompound(getTypeInfo')
      BY <1>2, <1>6, <2>2 DEF getTypeInfo
    <3> QED
      BY <2>2, <3>2, <3>3 DEF Aligned, OpenArrays, Arrays
  <2> QED
    BY <2>1, <2>2
<1> QED
  BY <1>3, <1>4, <1>7 DEF Inv

\* What is left when the field on top is popped.
LEMMA PopField ==
    ASSUME Inv, fieldInfoStack # <<>>, fieldInfoStack' = Pop(fieldInfoStack),
           valueStack # <<>>, valueStack' = Pop(valueStack), state' = "IN_COMPOUND",
           \/ state = "IN_ARRAY"
           \/ state = "IN_COMPOUND" /\ ~TopField.isArray
    PROVE  Inv'
<1>1. IsSequence(valueStack') /\ Len(valueStack') = Len(valueStack) - 1
  BY PopValues DEF Inv, Typed
<1>2. /\ fieldInfoStack' \in Seq(FieldInfos)
      /\ Len(fieldInfoStack') = Len(fieldInfoStack) - 1
      /\ \A i \in 1..(Len(fieldInfoStack) - 1) : fieldInfoStack'[i] = fieldInfoStack[i]
  BY PopFields DEF Inv, Typed
<1>3. Typed'
  BY <1>1, <1>2 DEF Typed, CreatorState
<1>4. DOMAIN fieldInfoStack' = 1..(Len(fieldInfoStack) - 1)
  BY <1>2
<1>5. \A i \in 1..(Len(fieldInfoStack) - 1) : IsCompound(fieldInfoStack[i].typeInfo)
  <2>1. \A i \in 1..(Len(fieldInfoStack) - 1) : i \in DOMAIN fieldInfoStack /\ i # Len(fieldInfoStack)
    BY Lengths DEF Inv, Typed
  <2> QED
    BY <2>1 DEF Inv, Open
<1>6. (\A i \in DOMAIN fieldInfoStack : Open(i))'
  BY <1>2, <1>4, <1>5 DEF Open
<1>7. IsCompound(getTypeInfo')
  <2>1. CASE fieldInfoStack' = <<>>
    BY <2>1, RootAssumption DEF getTypeInfo
  <2>2. CASE fieldInfoStack' # <<>>
    <3>1. Len(fieldInfoStack') \in 1..(Len(fieldInfoStack) - 1)
      BY <1>2, <2>2, Lengths, EmptySeq
    <3> QED
      BY <1>2, <1>5, <2>2, <3>1 DEF getTypeInfo, TopField
  <2> QED
    BY <2>1, <2>2
<1>8. Len(valueStack') = 1 + Len(fieldInfoStack') + Cardinality(Arrays(fieldInfoStack'))
  <2>1. CASE state = "IN_ARRAY"
    <3>1. /\ TopField.isArray
          /\ Len(valueStack) = Len(fieldInfoStack) + Cardinality(Arrays(fieldInfoStack))
      BY <2>1, OpenArraysIs DEF Inv, Aligned
    <3>2. Cardinality(Arrays(fieldInfoStack')) = Cardinality(Arrays(fieldInfoStack)) - 1
      BY <3>1, ArraysPopArray DEF Inv, Typed, TopField
    <3> QED
      BY <1>1, <1>2, <3>1, <3>2, Lengths
  <2>2. CASE state = "IN_COMPOUND" /\ ~TopField.isArray
    <3>1. Len(valueStack) = 1 + Len(fieldInfoStack) + Cardinality(Arrays(fieldInfoStack))
      BY <2>2, OpenArraysIs DEF Inv, Aligned
    <3>2. Arrays(fieldInfoStack') = Arrays(fieldInfoStack)
      BY <2>2, ArraysPopOther DEF Inv, Typed, TopField
    <3> QED
      BY <1>1, <1>2, <3>1, <3>2, Lengths
  <2> QED
    BY <2>1, <2>2
<1>9. Aligned'
  BY <1>7, <1>8 DEF Aligned, OpenArrays, Arrays
<1> QED
  BY <1>3, <1>6, <1>9 DEF Inv

LEMMA InitInv == Init => Inv
<1> SUFFICES ASSUME Init PROVE Inv
  OBVIOUS
<1>0. IsSequence(<<>>)
  BY DEF IsSequence
<1>1. Typed
  BY <1>0 DEF Init, Typed, CreatorState
<1>2. Aligned
  BY DEF Init, Aligned
<1> QED
  BY <1>1, <1>2 DEF Init, Inv

\* A call that throws, or changes the object only, leaves the stacks alone.
LEMMA StacksKept ==
    ASSUME Inv, UNCHANGED <<state, fieldInfoStack, valueStack>>
    PROVE  Inv'
<1>1. Typed'
  BY DEF Inv, Typed
<1>2. (\A i \in DOMAIN fieldInfoStack : Open(i))'
  BY DEF Inv, Open
<1>3. Aligned'
  BY DEF Inv, Aligned, OpenArrays, TopField, getTypeInfo
<1> QED
  BY <1>1, <1>2, <1>3 DEF Inv

LEMMA ThrowsInv == Inv /\ Throws => Inv'
BY StacksKept DEF Throws

LEMMA BeginRootInv == Inv /\ beginRoot => Inv'
<1> SUFFICES ASSUME Inv, beginRoot PROVE Inv'
  OBVIOUS
<1>1. CASE state # "BEFORE_ROOT"
  BY <1>1, ThrowsInv DEF beginRoot
<1>2. CASE state = "BEFORE_ROOT"
  <2>1. /\ state' = "IN_COMPOUND" /\ fieldInfoStack' = <<>>
        /\ valueStack' = <<<<>>>>
    BY <1>2 DEF beginRoot, Inv, Aligned
  <2>2. Typed'
    <3>1. <<<<>>>> \in Seq({<<>>})
      OBVIOUS
    <3>2. IsSequence(valueStack')
      BY <2>1, <3>1 DEF IsSequence
    <3> QED
      BY <2>1, <3>2 DEF Typed, CreatorState
  <2>3. Arrays(<<>>) = {}
    BY DEF Arrays
  <2>4. Cardinality(OpenArrays') = 0
    BY <2>1, <2>3, FS_EmptySet DEF OpenArrays, Arrays
  <2>5. Aligned'
    BY <2>1, <2>4, RootAssumption DEF Aligned, getTypeInfo
  <2> QED
    BY <2>1, <2>2, <2>5 DEF Inv, Open
<1> QED
  BY <1>1, <1>2

LEMMA EndRootInv == Inv /\ endRoot => Inv'
<1> SUFFICES ASSUME Inv, endRoot PROVE Inv'
  OBVIOUS
<1>1. CASE ~(state = "IN_COMPOUND" /\ Len(valueStack) = 1)
  BY <1>1, ThrowsInv DEF endRoot
<1>2. CASE state = "IN_COMPOUND" /\ Len(valueStack) = 1
  <2>1. Len(valueStack) = 1 + Len(fieldInfoStack) + Cardinality(Arrays(fieldInfoStack))
    BY <1>2, OpenArraysIs DEF Inv, Aligned
  <2>2. fieldInfoStack = <<>>
    BY <1>2, <2>1, Lengths
  <2>3. valueStack' = <<>> /\ fieldInfoStack' = <<>> /\ state' = "BEFORE_ROOT"
    <3>1. valueStack' = Pop(valueStack) /\ fieldInfoStack' = fieldInfoStack /\ state' = "BEFORE_ROOT"
      BY <1>2 DEF endRoot
    <3>2. Len(Pop(valueStack)) = 0 /\ IsSequence(Pop(valueStack))
      <4>1. valueStack # <<>> /\ IsSequence(valueStack)
        BY <1>2, Lengths DEF Inv, Typed
      <4>2. IsSequence(Pop(valueStack)) /\ Len(Pop(valueStack)) = Len(valueStack) - 1
        BY <4>1, PopValues
      <4>3. Len(valueStack) = 1
        BY <1>2
      <4> QED
        BY <4>2, <4>3
    <3>3. Pop(valueStack) = <<>>
      BY <3>2, EmptySeq DEF IsSequence
    <3> QED
      BY <2>2, <3>1, <3>3
  <2>4. IsSequence(<<>>)
    BY DEF IsSequence
  <2> QED
    BY <2>3, <2>4 DEF Inv, Typed, CreatorState, Open, Aligned
<1> QED
  BY <1>1, <1>2

LEMMA BeginArrayInv == ASSUME NEW name \in Names PROVE Inv /\ beginArray(name) => Inv'
<1> SUFFICES ASSUME Inv, beginArray(name) PROVE Inv'
  OBVIOUS
<1>1. CASE ~CanBeginArray(name)
  BY <1>1, ThrowsInv DEF beginArray
<1>2. CASE CanBeginArray(name)
  <2>1. state = "IN_COMPOUND" /\ Finds(name) /\ findFieldInfo(name).isArray
    BY <1>2 DEF CanBeginArray
  <2>2. findFieldInfo(name) \in FieldInfos
    BY <2>1, TopFieldFound
  <2> QED
    BY <1>2, <2>1, <2>2, PushField DEF beginArray
<1> QED
  BY <1>1, <1>2

LEMMA BeginCompoundInv == ASSUME NEW name \in Names PROVE Inv /\ beginCompound(name) => Inv'
<1> SUFFICES ASSUME Inv, beginCompound(name) PROVE Inv'
  OBVIOUS
<1>1. CASE ~CanBeginCompound(name)
  BY <1>1, ThrowsInv DEF beginCompound
<1>2. CASE CanBeginCompound(name)
  <2>1. /\ state = "IN_COMPOUND" /\ Finds(name) /\ ~findFieldInfo(name).isArray
        /\ IsCompound(findFieldInfo(name).typeInfo)
    BY <1>2 DEF CanBeginCompound
  <2>2. findFieldInfo(name) \in FieldInfos
    BY <2>1, TopFieldFound
  <2> QED
    BY <1>2, <2>1, <2>2, PushField DEF beginCompound
<1> QED
  BY <1>1, <1>2

LEMMA EndArrayInv == Inv /\ endArray => Inv'
<1> SUFFICES ASSUME Inv, endArray PROVE Inv'
  OBVIOUS
<1>1. CASE state # "IN_ARRAY"
  BY <1>1, ThrowsInv DEF endArray
<1>2. CASE state = "IN_ARRAY"
  <2>1. fieldInfoStack # <<>>
    BY <1>2 DEF Inv, Aligned
  <2>2. valueStack # <<>>
    BY <1>2, Lengths
  <2> QED
    BY <1>2, <2>1, <2>2, PopField DEF endArray
<1> QED
  BY <1>1, <1>2

LEMMA EndCompoundInv == Inv /\ endCompound => Inv'
<1> SUFFICES ASSUME Inv, endCompound PROVE Inv'
  OBVIOUS
<1>1. CASE ~CanEndCompound
  BY <1>1, ThrowsInv DEF endCompound
<1>2. CASE CanEndCompound
  <2>1. state = "IN_COMPOUND" /\ fieldInfoStack # <<>> /\ ~TopField.isArray
    BY <1>2 DEF CanEndCompound
  <2>2. valueStack # <<>>
    BY <2>1, Lengths
  <2> QED
    BY <1>2, <2>1, <2>2, PopField DEF endCompound
<1> QED
  BY <1>1, <1>2

LEMMA SetValueInv == ASSUME NEW name, NEW value PROVE Inv /\ setValue(name, value) => Inv'
BY StacksKept, ThrowsInv DEF setValue

LEMMA SetNullValueInv == ASSUME NEW name PROVE Inv /\ setNullValue(name) => Inv'
BY StacksKept, ThrowsInv DEF setNullValue

LEMMA AddValueElementInv == ASSUME NEW value PROVE Inv /\ addValueElement(value) => Inv'
BY StacksKept, ThrowsInv DEF addValueElement

\* A compound element is pushed on the values only; its type is the one of the open array.
LEMMA BeginCompoundElementInv == Inv /\ beginCompoundElement => Inv'
<1> SUFFICES ASSUME Inv, beginCompoundElement PROVE Inv'
  OBVIOUS
<1>1. CASE ~CanBeginCompoundElement
  BY <1>1, ThrowsInv DEF beginCompoundElement
<1>2. CASE CanBeginCompoundElement
  <2>1. state = "IN_ARRAY" /\ IsCompound(TopField.typeInfo) /\ fieldInfoStack # <<>>
    BY <1>2 DEF CanBeginCompoundElement, Inv, Aligned
  <2>2. /\ fieldInfoStack' = fieldInfoStack /\ state' = "IN_COMPOUND"
        /\ valueStack' = Append(valueStack, Append(TopValue, NewSize))
    BY <1>2 DEF beginCompoundElement
  <2>3. IsSequence(valueStack') /\ Len(valueStack') = Len(valueStack) + 1
    BY <2>2, PushTyped
  <2>4. Typed'
    BY <2>2, <2>3 DEF Inv, Typed, CreatorState
  <2>5. (\A i \in DOMAIN fieldInfoStack : Open(i))'
    <3> SUFFICES ASSUME NEW i \in DOMAIN fieldInfoStack PROVE IsCompound(fieldInfoStack[i].typeInfo)
      BY <2>2 DEF Open
    <3>1. CASE i = Len(fieldInfoStack)
      BY <2>1, <3>1 DEF TopField
    <3>2. CASE i # Len(fieldInfoStack)
      BY <3>2 DEF Inv, Open
    <3> QED
      BY <3>1, <3>2
  <2>6. Len(valueStack) = Len(fieldInfoStack) + Cardinality(Arrays(fieldInfoStack))
    BY <2>1, OpenArraysIs DEF Inv, Aligned
  <2>7. Len(valueStack') = 1 + Len(fieldInfoStack') + Cardinality(Arrays(fieldInfoStack'))
    BY <2>2, <2>3, <2>6, Lengths
  <2>8. IsCompound(getTypeInfo')
    BY <2>1, <2>2 DEF getTypeInfo, TopField
  <2>9. Aligned'
    BY <2>2, <2>7, <2>8 DEF Aligned, OpenArrays, Arrays
  <2> QED
    BY <2>4, <2>5, <2>9 DEF Inv
<1> QED
  BY <1>1, <1>2

LEMMA EndCompoundElementInv == Inv /\ endCompoundElement => Inv'
<1> SUFFICES ASSUME Inv, endCompoundElement PROVE Inv'
  OBVIOUS
<1>1. CASE ~CanEndCompoundElement
  BY <1>1, ThrowsInv DEF endCompoundElement
<1>2. CASE CanEndCompoundElement
  <2>1. state = "IN_COMPOUND" /\ fieldInfoStack # <<>> /\ TopField.isArray
    BY <1>2 DEF CanEndCompoundElement
  <2>2. /\ fieldInfoStack' = fieldInfoStack /\ state' = "IN_ARRAY"
        /\ valueStack' = Pop(valueStack)
    BY <1>2 DEF endCompoundElement
  <2>3. IsSequence(valueStack') /\ Len(valueStack') = Len(valueStack) - 1
    BY <2>1, <2>2, PopValues, Lengths DEF Inv, Typed
  <2>4. Typed'
    BY <2>2, <2>3 DEF Inv, Typed, CreatorState
  <2>5. (\A i \in DOMAIN fieldInfoStack : Open(i))'
    BY <2>1, <2>2 DEF Inv, Open
  <2>6. Len(valueStack) = 1 + Len(fieldInfoStack) + Cardinality(Arrays(fieldInfoStack))
    BY <2>1, OpenArraysIs DEF Inv, Aligned
  <2>7. Len(valueStack') = Len(fieldInfoStack') + Cardinality(Arrays(fieldInfoStack'))
    BY <2>2, <2>3, <2>6, Lengths
  <2>8. TopField' = TopField
    BY <2>2 DEF TopField
  <2>9. Aligned'
    BY <2>1, <2>2, <2>7, <2>8 DEF Aligned, OpenArrays, Arrays
  <2> QED
    BY <2>4, <2>5, <2>9 DEF Inv
<1> QED
  BY <1>1, <1>2
-----------------------------------------------------------------------------
LEMMA CallInv == Inv /\ CallInMemory => Inv'
<1> SUFFICES ASSUME Inv, CallInMemory PROVE Inv'
  OBVIOUS
<1>1. CASE beginRoot
  BY <1>1, BeginRootInv
<1>2. CASE endRoot
  BY <1>2, EndRootInv
<1>3. CASE \E name \in Names : beginArray(name)
  BY <1>3, BeginArrayInv
<1>4. CASE endArray
  BY <1>4, EndArrayInv
<1>5. CASE \E name \in Names : beginCompound(name)
  BY <1>5, BeginCompoundInv
<1>6. CASE endCompound
  BY <1>6, EndCompoundInv
<1>7. CASE \E name \in Names, value \in Values : setValue(name, value)
  BY <1>7, SetValueInv
<1>8. CASE \E name \in Names : setNullValue(name)
  BY <1>8, SetNullValueInv
<1>9. CASE beginCompoundElement
  BY <1>9, BeginCompoundElementInv
<1>10. CASE endCompoundElement
  BY <1>10, EndCompoundElementInv
<1>11. CASE \E value \in Values : addValueElement(value)
  BY <1>11, AddValueElementInv
<1> QED
  BY <1>1, <1>2, <1>3, <1>4, <1>5, <1>6, <1>7, <1>8, <1>9, <1>10, <1>11 DEF CallInMemory

\* A call in memory does not tear the stacks.
LEMMA CallKeepsWhole == CallInMemory => torn' = torn
<1> SUFFICES ASSUME CallInMemory PROVE torn' = torn
  OBVIOUS
<1>1. CASE beginRoot
  BY <1>1 DEF beginRoot, Throws
<1>2. CASE endRoot
  BY <1>2 DEF endRoot, Throws
<1>3. CASE \E name \in Names : beginArray(name)
  BY <1>3 DEF beginArray, Throws
<1>4. CASE endArray
  BY <1>4 DEF endArray, Throws
<1>5. CASE \E name \in Names : beginCompound(name)
  BY <1>5 DEF beginCompound, Throws
<1>6. CASE endCompound
  BY <1>6 DEF endCompound, Throws
<1>7. CASE \E name \in Names, value \in Values : setValue(name, value)
  BY <1>7 DEF setValue, Throws
<1>8. CASE \E name \in Names : setNullValue(name)
  BY <1>8 DEF setNullValue, Throws
<1>9. CASE beginCompoundElement
  BY <1>9 DEF beginCompoundElement, Throws
<1>10. CASE endCompoundElement
  BY <1>10 DEF endCompoundElement, Throws
<1>11. CASE \E value \in Values : addValueElement(value)
  BY <1>11 DEF addValueElement, Throws
<1> QED
  BY <1>1, <1>2, <1>3, <1>4, <1>5, <1>6, <1>7, <1>8, <1>9, <1>10, <1>11 DEF CallInMemory

\* A field that is pushed alone is on top of stacks that were aligned.
LEMMA TearsAligned ==
    ASSUME Inv, state = "IN_COMPOUND", NEW field, NEW after, Tears(field, after)
    PROVE  torn' /\ AlignedBelow'
<1>1. /\ fieldInfoStack' = Append(fieldInfoStack, field) /\ UNCHANGED <<state, valueStack>>
      /\ torn' = TRUE
  BY DEF Tears
<1>2. fieldInfoStack \in Seq(FieldInfos) /\ Len(fieldInfoStack) \in Nat
  BY Lengths DEF Inv, Typed
<1>3. /\ Len(fieldInfoStack') = Len(fieldInfoStack) + 1 /\ fieldInfoStack' # <<>>
      /\ DOMAIN fieldInfoStack = 1..Len(fieldInfoStack)
      /\ DOMAIN fieldInfoStack' = 1..(Len(fieldInfoStack) + 1)
      /\ \A i \in DOMAIN fieldInfoStack : fieldInfoStack'[i] = fieldInfoStack[i]
  BY <1>1, <1>2
<1>4. OpenArrays' \ {Len(fieldInfoStack')} = OpenArrays
  BY <1>2, <1>3 DEF OpenArrays
<1>5. Len(valueStack) = Len(fieldInfoStack') + Cardinality(OpenArrays)
  BY <1>2, <1>3 DEF Inv, Aligned
<1> QED
  BY <1>1, <1>3, <1>4, <1>5 DEF AlignedBelow

\* A call that runs out of memory leaves the stacks aligned, or torn.
LEMMA OutOfMemoryInv ==
    ASSUME Inv, ~torn, CallOutOfMemory PROVE (torn' /\ AlignedBelow') \/ (~torn' /\ Inv')
<1>1. CASE Throws
  BY <1>1, ThrowsInv DEF Throws
<1>2. CASE \E name \in Names : beginArrayTears(name)
  BY <1>2, TearsAligned DEF beginArrayTears, CanBeginArray
<1>3. CASE \E name \in Names : beginCompoundTears(name)
  BY <1>3, TearsAligned DEF beginCompoundTears, CanBeginCompound
<1>4. CASE beginCompoundElementStops
  BY <1>4, StacksKept DEF beginCompoundElementStops
<1> QED
  BY <1>1, <1>2, <1>3, <1>4 DEF CallOutOfMemory

\* The stacks of the creator are aligned after every sequence of calls, refused ones and ones that
\* ran out of memory among them: no call takes the back of an empty stack, and every name is looked
\* up in a compound type. When memory was exhausted between two pushes, the stacks are aligned below
\* the field that was pushed.
THEOREM StacksStayAligned == Spec => []StacksAligned
<1> DEFINE Kept == (torn /\ AlignedBelow) \/ (~torn /\ Inv)
<1>1. Init => Kept
  BY InitInv DEF Init
<1>2. Kept /\ [Next]_vars => Kept'
  <2> SUFFICES ASSUME Kept, [Next]_vars PROVE Kept'
    OBVIOUS
  <2>1. CASE UNCHANGED vars
    <3>1. UNCHANGED <<state, fieldInfoStack, valueStack, torn>>
      BY <2>1 DEF vars
    <3>2. AlignedBelow => AlignedBelow'
      BY <3>1 DEF AlignedBelow, OpenArrays
    <3> QED
      BY <3>1, <3>2, StacksKept
  <2>2. CASE Next
    <3>1. Inv /\ ~torn /\ (CallInMemory \/ CallOutOfMemory)
      BY <2>2 DEF Next
    <3> QED
      BY <3>1, CallInv, CallKeepsWhole, OutOfMemoryInv
  <2> QED
    BY <2>1, <2>2
<1>3. Kept => StacksAligned
  BY DEF Inv, StacksAligned
<1> HIDE DEF Kept
<1> QED
  BY <1>1, <1>2, <1>3, PTL DEF Spec
-----------------------------------------------------------------------------
(* The pointers on valueStack: each one leads a key further than the one     *)
(* below it.                                                               *)

IsNested(values) ==
    /\ values \in Seq(Paths) /\ values # <<>>
    /\ Len(values[Len(values)]) = Len(values) - 1
    /\ \A i \in 1..Len(values) : values[i] = SubSeq(values[Len(values)], 1, i - 1)

LEMMA NestedRoot == IsNested(<<<<>>>>)
<1>1. <<>> \in Paths
  BY DEF Paths
<1>2. <<<<>>>> \in Seq(Paths) /\ Len(<<<<>>>>) = 1 /\ <<<<>>>>[1] = <<>>
  BY <1>1
<1>3. SubSeq(<<>>, 1, 0) = <<>>
  OBVIOUS
<1>4. PICK values \in Seq(Paths) : values = <<<<>>>> /\ Len(values) = 1 /\ values[1] = <<>>
  BY <1>2
<1>5. values # <<>> /\ Len(values[Len(values)]) = Len(values) - 1
  BY <1>4
<1>6. ASSUME NEW i \in 1..Len(values) PROVE values[i] = SubSeq(values[Len(values)], 1, i - 1)
  <2>1. i = 1 /\ i - 1 = 0 /\ values[i] = <<>> /\ values[Len(values)] = <<>>
    BY <1>4
  <2> QED
    BY <1>3, <2>1
<1>7. IsNested(values)
  BY <1>5, <1>6 DEF IsNested
<1> QED
  BY <1>4, <1>7

LEMMA NestedPush ==
    ASSUME NEW values, IsNested(values), NEW key \in Keys
    PROVE  /\ values[Len(values)] \in Paths
           /\ IsNested(Append(values, Append(values[Len(values)], key)))
<1> DEFINE n == Len(values)
           top == values[n]
<1>1. n \in Nat /\ n # 0 /\ values \in Seq(Paths) /\ top \in Paths /\ Len(top) = n - 1
  BY EmptySeq, ElementOfSeq DEF IsNested
<1>2. PICK longer \in Paths : longer = Append(top, key)
  BY <1>1, AppendPath
<1>3. Len(longer) = n /\ \A i \in 1..(n - 1) : longer[i] = top[i]
  BY <1>1, <1>2, AppendPath
<1>4. PICK new \in Seq(Paths) : new = Append(values, longer)
  BY <1>1, AppendProperties
<1>5. Len(new) = n + 1 /\ new[n + 1] = longer /\ \A i \in 1..n : new[i] = values[i]
  BY <1>1, <1>4, AppendProperties
<1>6. ASSUME NEW i \in 1..(n + 1) PROVE new[i] = SubSeq(longer, 1, i - 1)
  <2>1. CASE i = n + 1
    <3>1. SubSeq(longer, 1, n) = longer
      BY <1>3 DEF Paths
    <3> QED
      BY <1>1, <1>5, <2>1, <3>1
  <2>2. CASE i # n + 1
    <3>1. new[i] = SubSeq(top, 1, i - 1)
      BY <1>1, <1>5, <2>2 DEF IsNested
    <3>2. SubSeq(top, 1, i - 1) = [j \in 1..(i - 1) |-> top[j]]
      BY <1>1, <2>2 DEF Paths
    <3>3. SubSeq(longer, 1, i - 1) = [j \in 1..(i - 1) |-> longer[j]]
      BY <1>1, <1>3, <2>2 DEF Paths
    <3>4. \A j \in 1..(i - 1) : longer[j] = top[j]
      BY <1>1, <1>3, <2>2
    <3> QED
      BY <3>1, <3>2, <3>3, <3>4
  <2> QED
    BY <2>1, <2>2
<1>7. new # <<>>
  BY <1>1, <1>5
<1>8. IsNested(new)
  BY <1>1, <1>3, <1>5, <1>6, <1>7 DEF IsNested
<1> QED
  BY <1>1, <1>2, <1>4, <1>8

\* What is left when the pointer on top is popped.
LEMMA NestedPop ==
    ASSUME NEW values, IsNested(values), Len(values) # 1
    PROVE  /\ IsNested(Pop(values)) /\ Len(Pop(values)) = Len(values) - 1
           /\ \A i \in 1..(Len(values) - 1) : Pop(values)[i] = values[i]
           /\ values[Len(values)] \in Paths /\ values[Len(values)] # <<>>
           /\ Pop(values)[Len(values) - 1] = Above(values[Len(values)])
<1>n. PICK n, top : n = Len(values) /\ top = values[n]
  OBVIOUS
<1>0. n \in Nat /\ n # 0 /\ values \in Seq(Paths)
  BY <1>n, EmptySeq DEF IsNested
<1>1. n \in Nat /\ n # 0 /\ n # 1 /\ values \in Seq(Paths) /\ top \in Paths /\ Len(top) = n - 1
  BY <1>n, <1>0, ElementOfSeq DEF IsNested
<1>2. PICK new : new = Pop(values)
  OBVIOUS
<1>3. new = [i \in 1..(n - 1) |-> values[i]]
  BY <1>n, <1>1, <1>2 DEF Pop
<1>4. \A i \in 1..(n - 1) : values[i] \in Paths
  BY <1>n, <1>1, ElementOfSeq
<1>5. new \in Seq(Paths) /\ Len(new) = n - 1 /\ new # <<>> /\ \A i \in 1..(n - 1) : new[i] = values[i]
  <2>1. n - 1 \in Nat
    BY <1>1
  <2>2. new \in Seq(Paths)
    BY <1>3, <1>4, <2>1
  <2>3. Len(new) = n - 1
    BY <1>3, <2>1, <2>2
  <2> QED
    BY <1>1, <1>3, <2>2, <2>3
<1>6. \A i \in 1..n : values[i] = SubSeq(top, 1, i - 1)
  BY <1>n DEF IsNested
<1>7. new[n - 1] = SubSeq(top, 1, (n - 1) - 1)
  <2>1. n - 1 \in 1..(n - 1) /\ n - 1 \in 1..n
    BY <1>1
  <2> QED
    BY <1>5, <1>6, <2>1
<1>8. new[n - 1] = Above(top)
  BY <1>1, <1>7 DEF Above
<1>9. PICK below : below = new[n - 1]
  OBVIOUS
<1>10. below = [j \in 1..(n - 2) |-> top[j]] /\ Len(below) = n - 2
  BY <1>1, <1>7, <1>9 DEF Paths
<1>11. below \in Paths
  BY <1>1, <1>4, <1>5, <1>9
<1>12. ASSUME NEW i \in 1..(n - 1) PROVE new[i] = SubSeq(below, 1, i - 1)
  <2>0. i \in 1..n
    BY <1>1
  <2>1. new[i] = SubSeq(top, 1, i - 1)
    BY <1>5, <1>6, <2>0
  <2>2. SubSeq(top, 1, i - 1) = [j \in 1..(i - 1) |-> top[j]]
    BY <1>1 DEF Paths
  <2>3. SubSeq(below, 1, i - 1) = [j \in 1..(i - 1) |-> below[j]]
    BY <1>1, <1>10, <1>11 DEF Paths
  <2>4. \A j \in 1..(i - 1) : below[j] = top[j]
    BY <1>1, <1>10
  <2> QED
    BY <2>1, <2>2, <2>3, <2>4
<1>13. IsNested(new)
  <2>1. Len(new) = n - 1 /\ new[Len(new)] = below /\ Len(below) = Len(new) - 1
    BY <1>1, <1>5, <1>9, <1>10
  <2>2. \A i \in 1..Len(new) : new[i] = SubSeq(below, 1, i - 1)
    BY <1>12, <2>1
  <2> QED
    BY <1>5, <2>1, <2>2 DEF IsNested
<1>14. top # <<>>
  BY <1>1, EmptySeq
<1> QED
  BY <1>n, <1>1, <1>2, <1>5, <1>8, <1>13, <1>14
-----------------------------------------------------------------------------
(* The two stacks: the field i was opened as the pointer pos[i], and above    *)
(* an array there may be an element, which has no field.                    *)

IsPositions(pos, fields, values) ==
    /\ pos \in [1..Len(fields) -> Nat]
    /\ fields # <<>> => pos[1] = 2
    /\ \A i \in 1..Len(fields) :
          /\ pos[i] \in 1..Len(values)
          /\ PlaceAt(RootType, values[pos[i]]) = PlaceOf(fields[i])
          /\ i # Len(fields) => pos[i + 1] = pos[i] + (IF fields[i].isArray THEN 2 ELSE 1)
    /\ \A i, j \in 1..Len(fields) : i < j => pos[i] < pos[j]

Element(fields, st) == IF st = "IN_COMPOUND" /\ fields[Len(fields)].isArray THEN 1 ELSE 0

IsHeight(pos, fields, st, height) ==
    height = IF fields = <<>> THEN 1 ELSE pos[Len(fields)] + Element(fields, st)

Located(fields, values, st) ==
    \E pos : IsPositions(pos, fields, values) /\ IsHeight(pos, fields, st, Len(values))

LEMMA LocatedRoot == ASSUME NEW values, Len(values) = 1 PROVE Located(<<>>, values, "IN_COMPOUND")
<1> DEFINE pos == [i \in 1..0 |-> 0]
<1>1. Len(<<>>) = 0 /\ 1..0 = {}
  OBVIOUS
<1>2. IsPositions(pos, <<>>, values)
  BY <1>1 DEF IsPositions
<1>3. IsHeight(pos, <<>>, "IN_COMPOUND", Len(values))
  BY DEF IsHeight
<1> QED
  BY <1>2, <1>3 DEF Located

\* A field is opened in an object.
LEMMA LocatedPush ==
    ASSUME NEW fields \in Seq(FieldInfos), NEW values \in Seq(Paths), Located(fields, values, "IN_COMPOUND"),
           NEW f \in FieldInfos, NEW path \in Paths, PlaceAt(RootType, path) = PlaceOf(f),
           NEW st, st = IF f.isArray THEN "IN_ARRAY" ELSE "IN_COMPOUND"
    PROVE  Located(Append(fields, f), Append(values, path), st)
<1>1. PICK pos : IsPositions(pos, fields, values) /\ IsHeight(pos, fields, "IN_COMPOUND", Len(values))
  BY DEF Located
<1>2. PICK n, h : n = Len(fields) /\ h = Len(values)
  OBVIOUS
<1>3. n \in Nat /\ h \in Nat
  BY <1>2
<1>4. PICK F \in Seq(FieldInfos) : F = Append(fields, f)
  BY AppendProperties
<1>5. PICK V \in Seq(Paths) : V = Append(values, path)
  BY AppendProperties
<1>6. Len(F) = n + 1 /\ F[n + 1] = f /\ F # <<>> /\ \A i \in 1..n : F[i] = fields[i]
  BY <1>2, <1>4, AppendProperties
<1>7. Len(V) = h + 1 /\ V[h + 1] = path /\ \A i \in 1..h : V[i] = values[i]
  BY <1>2, <1>5, AppendProperties
<1>8. PICK new : new = [i \in 1..(n + 1) |-> IF i = n + 1 THEN h + 1 ELSE pos[i]]
  OBVIOUS
<1>9. pos \in [1..n -> Nat] /\ \A i \in 1..n : pos[i] \in 1..h
  BY <1>1, <1>2 DEF IsPositions
<1>10. new[n + 1] = h + 1 /\ \A i \in 1..n : new[i] = pos[i]
  BY <1>3, <1>8
<1>11. new \in [1..(n + 1) -> Nat]
  BY <1>3, <1>8, <1>9
<1>12. new[1] = 2
  <2>1. CASE n = 0
    <3>1. fields = <<>> /\ h = 1
      BY <1>1, <1>2, <2>1, EmptySeq DEF IsHeight
    <3> QED
      BY <1>10, <2>1, <3>1
  <2>2. CASE n # 0
    <3>1. 1 \in 1..n /\ fields # <<>>
      BY <1>2, <1>3, <2>2, EmptySeq
    <3> QED
      BY <1>1, <1>10, <3>1 DEF IsPositions
  <2> QED
    BY <2>1, <2>2
<1>13. ASSUME NEW i \in 1..(n + 1)
       PROVE  /\ new[i] \in 1..(h + 1)
              /\ PlaceAt(RootType, V[new[i]]) = PlaceOf(F[i])
              /\ i # n + 1 => new[i + 1] = new[i] + (IF F[i].isArray THEN 2 ELSE 1)
  <2>1. CASE i = n + 1
    BY <1>3, <1>6, <1>7, <1>10, <2>1
  <2>2. CASE i # n + 1
    <3>1. i \in 1..n /\ new[i] = pos[i] /\ F[i] = fields[i]
      BY <1>3, <1>6, <1>10, <2>2
    <3>2. pos[i] \in 1..h /\ PlaceAt(RootType, values[pos[i]]) = PlaceOf(fields[i])
      BY <1>1, <1>2, <3>1 DEF IsPositions
    <3>3. V[new[i]] = values[pos[i]]
      BY <1>7, <3>1, <3>2
    <3>4. new[i + 1] = new[i] + (IF F[i].isArray THEN 2 ELSE 1)
      <4>1. CASE i = n
        <5>1. n # 0 /\ fields # <<>>
          BY <3>1, <4>1, <1>2, <1>3, EmptySeq
        <5>2. h = pos[n] + (IF fields[n].isArray THEN 1 ELSE 0)
          BY <1>1, <1>2, <5>1 DEF IsHeight, Element
        <5>3. pos[n] \in Nat
          BY <1>9, <3>1, <4>1
        <5> QED
          BY <1>10, <3>1, <4>1, <5>2, <5>3
      <4>2. CASE i # n
        <5>1. pos[i + 1] = pos[i] + (IF fields[i].isArray THEN 2 ELSE 1)
          BY <1>1, <1>2, <3>1, <4>2 DEF IsPositions
        <5>2. i + 1 \in 1..n
          BY <1>3, <3>1, <4>2
        <5> QED
          BY <1>10, <3>1, <5>1, <5>2
      <4> QED
        BY <4>1, <4>2
    <3>5. new[i] \in 1..(h + 1)
      BY <1>3, <3>1, <3>2
    <3> QED
      BY <3>1, <3>2, <3>3, <3>4, <3>5
  <2> QED
    BY <2>1, <2>2
<1>14. ASSUME NEW i \in 1..(n + 1), NEW j \in 1..(n + 1), i < j PROVE new[i] < new[j]
  <2>1. i \in 1..n /\ new[i] = pos[i] /\ pos[i] \in 1..h
    BY <1>3, <1>9, <1>10, <1>14
  <2>2. CASE j = n + 1
    BY <1>3, <1>10, <2>1, <2>2
  <2>3. CASE j # n + 1
    <3>1. j \in 1..n
      BY <1>3, <2>3
    <3>2. pos[i] < pos[j]
      BY <1>1, <1>2, <1>14, <2>1, <3>1 DEF IsPositions
    <3> QED
      BY <1>10, <2>1, <3>1, <3>2
  <2> QED
    BY <2>2, <2>3
<1>15. IsPositions(new, F, V)
  BY <1>6, <1>7, <1>11, <1>12, <1>13, <1>14 DEF IsPositions
<1>16. IsHeight(new, F, st, Len(V))
  <2>1. Element(F, st) = 0
    BY <1>6 DEF Element
  <2> QED
    BY <1>3, <1>6, <1>7, <1>10, <2>1 DEF IsHeight
<1> QED
  BY <1>4, <1>5, <1>15, <1>16 DEF Located

\* The field on top is closed, with the pointer it was opened as.
LEMMA LocatedPop ==
    ASSUME NEW fields \in Seq(FieldInfos), fields # <<>>, NEW values \in Seq(Paths), NEW st,
           Located(fields, values, st), st = "IN_ARRAY" \/ ~fields[Len(fields)].isArray,
           NEW below \in Seq(Paths), Len(below) = Len(values) - 1,
           \A i \in 1..(Len(values) - 1) : below[i] = values[i]
    PROVE  Located(Pop(fields), below, "IN_COMPOUND")
<1>1. PICK pos : IsPositions(pos, fields, values) /\ IsHeight(pos, fields, st, Len(values))
  BY DEF Located
<1>2. PICK n, h : n = Len(fields) /\ h = Len(values)
  OBVIOUS
<1>3. n \in Nat /\ h \in Nat /\ n # 0
  BY <1>2, EmptySeq
<1>4. PICK F \in Seq(FieldInfos) : F = Pop(fields)
  BY PopFields
<1>5. Len(F) = n - 1 /\ \A i \in 1..(n - 1) : F[i] = fields[i]
  BY <1>2, <1>4, PopFields
<1>6. pos \in [1..n -> Nat] /\ \A i \in 1..n : pos[i] \in 1..h
  BY <1>1, <1>2 DEF IsPositions
<1>7. h = pos[n]
  <2>1. Element(fields, st) = 0
    BY DEF Element
  <2>2. n \in 1..n /\ pos[n] \in Nat
    BY <1>3, <1>6
  <2> QED
    BY <1>1, <1>2, <2>1, <2>2 DEF IsHeight
<1>8. PICK new : new = [i \in 1..(n - 1) |-> pos[i]]
  OBVIOUS
<1>9. new \in [1..(n - 1) -> Nat] /\ \A i \in 1..(n - 1) : i \in 1..n /\ new[i] = pos[i]
  BY <1>3, <1>6, <1>8
<1>10. ASSUME NEW i \in 1..(n - 1)
       PROVE  /\ new[i] \in 1..(h - 1)
              /\ PlaceAt(RootType, below[new[i]]) = PlaceOf(F[i])
              /\ i # n - 1 => new[i + 1] = new[i] + (IF F[i].isArray THEN 2 ELSE 1)
  <2>1. i \in 1..n /\ n \in 1..n /\ i < n /\ new[i] = pos[i] /\ F[i] = fields[i]
    BY <1>3, <1>5, <1>9
  <2>2. pos[i] < pos[n]
    BY <1>1, <1>2, <2>1 DEF IsPositions
  <2>3. new[i] \in 1..(h - 1)
    BY <1>3, <1>6, <1>7, <2>1, <2>2
  <2>4. PlaceAt(RootType, values[pos[i]]) = PlaceOf(fields[i])
    BY <1>1, <1>2, <2>1 DEF IsPositions
  <2>5. below[new[i]] = values[pos[i]]
    BY <1>2, <2>1, <2>3
  <2>6. ASSUME i # n - 1 PROVE new[i + 1] = new[i] + (IF F[i].isArray THEN 2 ELSE 1)
    <3>1. pos[i + 1] = pos[i] + (IF fields[i].isArray THEN 2 ELSE 1)
      BY <1>1, <1>2, <2>1 DEF IsPositions
    <3>2. i + 1 \in 1..(n - 1)
      BY <1>3, <2>6
    <3> QED
      BY <1>9, <2>1, <3>1, <3>2
  <2> QED
    BY <2>1, <2>3, <2>4, <2>5, <2>6
<1>11. ASSUME NEW i \in 1..(n - 1), NEW j \in 1..(n - 1), i < j PROVE new[i] < new[j]
  BY <1>1, <1>2, <1>9, <1>11 DEF IsPositions
<1>12. F # <<>> => new[1] = 2
  <2> SUFFICES ASSUME F # <<>> PROVE new[1] = 2
    OBVIOUS
  <2>1. 1 \in 1..(n - 1)
    BY <1>3, <1>5, EmptySeq
  <2> QED
    BY <1>1, <1>9, <2>1 DEF IsPositions
<1>13. IsPositions(new, F, below)
  BY <1>2, <1>5, <1>9, <1>10, <1>11, <1>12 DEF IsPositions
<1>14. IsHeight(new, F, "IN_COMPOUND", h - 1)
  <2>1. CASE F = <<>>
    <3>1. n = 1
      BY <1>3, <1>5, <2>1
    <3>2. pos[1] = 2
      BY <1>1 DEF IsPositions
    <3> QED
      BY <1>7, <2>1, <3>1, <3>2 DEF IsHeight
  <2>2. CASE F # <<>>
    <3>1. n - 1 \in 1..(n - 1) /\ n - 1 \in 1..n /\ n - 1 # n /\ (n - 1) + 1 = n
      BY <1>3, <1>5, <2>2, EmptySeq
    <3>2. pos[n] = pos[n - 1] + (IF fields[n - 1].isArray THEN 2 ELSE 1)
      BY <1>1, <1>2, <3>1 DEF IsPositions
    <3>3. new[n - 1] = pos[n - 1] /\ pos[n - 1] \in Nat /\ F[n - 1] = fields[n - 1]
      BY <1>5, <1>6, <1>9, <3>1
    <3>4. Element(F, "IN_COMPOUND") = IF fields[n - 1].isArray THEN 1 ELSE 0
      BY <1>5, <3>3 DEF Element
    <3>5. h - 1 = new[n - 1] + Element(F, "IN_COMPOUND")
      BY <1>7, <3>2, <3>3, <3>4
    <3> QED
      BY <1>5, <2>2, <3>5 DEF IsHeight
  <2> QED
    BY <2>1, <2>2
<1> QED
  BY <1>2, <1>4, <1>13, <1>14 DEF Located

\* An element of the array on top is opened, and closed.
LEMMA LocatedPushElement ==
    ASSUME NEW fields \in Seq(FieldInfos), fields # <<>>, fields[Len(fields)].isArray,
           NEW values \in Seq(Paths), Located(fields, values, "IN_ARRAY"), NEW path \in Paths
    PROVE  Located(fields, Append(values, path), "IN_COMPOUND")
<1>1. PICK pos : IsPositions(pos, fields, values) /\ IsHeight(pos, fields, "IN_ARRAY", Len(values))
  BY DEF Located
<1>2. PICK V \in Seq(Paths) : V = Append(values, path)
  BY AppendProperties
<1>3. Len(V) = Len(values) + 1 /\ \A i \in 1..Len(values) : V[i] = values[i]
  BY <1>2, AppendProperties
<1>4. ASSUME NEW i \in 1..Len(fields)
      PROVE  pos[i] \in 1..Len(V) /\ PlaceAt(RootType, V[pos[i]]) = PlaceOf(fields[i])
  <2>1. pos[i] \in 1..Len(values) /\ PlaceAt(RootType, values[pos[i]]) = PlaceOf(fields[i])
    BY <1>1 DEF IsPositions
  <2>2. pos[i] \in 1..Len(V) /\ V[pos[i]] = values[pos[i]]
    BY <1>3, <2>1
  <2> QED
    BY <2>1, <2>2
<1>5. IsPositions(pos, fields, V)
  BY <1>1, <1>4 DEF IsPositions
<1>6. IsHeight(pos, fields, "IN_COMPOUND", Len(V))
  <2>1. Element(fields, "IN_ARRAY") = 0 /\ Element(fields, "IN_COMPOUND") = 1
    BY DEF Element
  <2>2. Len(fields) \in 1..Len(fields)
    BY EmptySeq
  <2>3. pos[Len(fields)] \in Nat
    BY <1>1, <2>2 DEF IsPositions
  <2> QED
    BY <1>1, <1>3, <2>1, <2>3 DEF IsHeight
<1> QED
  BY <1>2, <1>5, <1>6 DEF Located

LEMMA LocatedPopElement ==
    ASSUME NEW fields \in Seq(FieldInfos), fields # <<>>, fields[Len(fields)].isArray,
           NEW values \in Seq(Paths), Located(fields, values, "IN_COMPOUND"),
           NEW below \in Seq(Paths), Len(below) = Len(values) - 1,
           \A i \in 1..(Len(values) - 1) : below[i] = values[i]
    PROVE  Located(fields, below, "IN_ARRAY")
<1>1. PICK pos : IsPositions(pos, fields, values) /\ IsHeight(pos, fields, "IN_COMPOUND", Len(values))
  BY DEF Located
<1>2. PICK n : n = Len(fields) /\ n \in 1..n
  BY EmptySeq
<1>3. /\ pos \in [1..n -> Nat] /\ pos[n] \in Nat
      /\ \A i, j \in 1..n : i < j => pos[i] < pos[j]
  BY <1>1, <1>2 DEF IsPositions
<1>4. Element(fields, "IN_ARRAY") = 0 /\ Element(fields, "IN_COMPOUND") = 1
  BY DEF Element
<1>5. Len(values) = pos[n] + 1
  BY <1>1, <1>2, <1>3, <1>4 DEF IsHeight
<1>6. ASSUME NEW i \in 1..n
      PROVE  pos[i] \in 1..Len(below) /\ PlaceAt(RootType, below[pos[i]]) = PlaceOf(fields[i])
  <2>1. pos[i] \in 1..Len(values) /\ PlaceAt(RootType, values[pos[i]]) = PlaceOf(fields[i])
    BY <1>1, <1>2 DEF IsPositions
  <2>2. i = n \/ pos[i] < pos[n]
    BY <1>2, <1>3
  <2>3. pos[i] \in 1..(Len(values) - 1)
    BY <1>3, <1>5, <2>1, <2>2
  <2> QED
    BY <2>1, <2>3
<1>7. IsPositions(pos, fields, below)
  BY <1>1, <1>2, <1>6 DEF IsPositions
<1>8. IsHeight(pos, fields, "IN_ARRAY", Len(below))
  BY <1>2, <1>3, <1>4, <1>5 DEF IsHeight
<1> QED
  BY <1>7, <1>8 DEF Located

\* Where the pointer on top leads: to the root, to what the field on top was opened as, or to an
\* element of it.
LEMMA LocatedTop ==
    ASSUME NEW fields \in Seq(FieldInfos), NEW values, IsNested(values), NEW st, Located(fields, values, st),
           NEW top, top = values[Len(values)]
    PROVE  /\ fields = <<>> => Len(values) = 1 /\ PlaceAt(RootType, top) = RootPlace(RootType)
           /\ fields # <<>> =>
                 /\ Len(values) # 1
                 /\ PlaceAt(RootType, top) = IF Element(fields, st) = 0
                                             THEN PlaceOf(fields[Len(fields)])
                                             ELSE ElementPlace(PlaceOf(fields[Len(fields)]))
<1>1. PICK pos : IsPositions(pos, fields, values) /\ IsHeight(pos, fields, st, Len(values))
  BY DEF Located
<1>2. PICK n, h : n = Len(fields) /\ h = Len(values)
  OBVIOUS
<1>3. n \in Nat /\ h \in Nat /\ h # 0 /\ values \in Seq(Paths) /\ top \in Paths /\ Len(top) = h - 1
  <2>1. values \in Seq(Paths) /\ values # <<>> /\ Len(top) = h - 1
    BY <1>2 DEF IsNested
  <2> QED
    BY <1>2, <2>1, EmptySeq, ElementOfSeq
<1>4. ASSUME fields = <<>> PROVE Len(values) = 1 /\ PlaceAt(RootType, top) = RootPlace(RootType)
  <2>1. h = 1
    BY <1>1, <1>2, <1>4 DEF IsHeight
  <2>2. top = <<>>
    BY <1>3, <2>1, EmptySeq DEF Paths
  <2> QED
    BY <1>2, <2>1, <2>2, PlaceEmpty
<1>5. ASSUME fields # <<>>
      PROVE  /\ Len(values) # 1
             /\ PlaceAt(RootType, top) = IF Element(fields, st) = 0
                                         THEN PlaceOf(fields[Len(fields)])
                                         ELSE ElementPlace(PlaceOf(fields[Len(fields)]))
  <2>1. n \in 1..n /\ 1 \in 1..n
    BY <1>2, <1>3, <1>5, EmptySeq
  <2>2. /\ pos[1] = 2 /\ pos[1] \in 1..h /\ pos[n] \in 1..h
        /\ PlaceAt(RootType, values[pos[n]]) = PlaceOf(fields[n])
    BY <1>1, <1>2, <1>5, <2>1 DEF IsPositions
  <2>3. h # 1
    BY <1>3, <2>2
  <2>4. h = pos[n] + Element(fields, st)
    BY <1>1, <1>2, <1>5 DEF IsHeight
  <2>5. CASE Element(fields, st) = 0
    <3>1. h = pos[n]
      BY <1>3, <2>2, <2>4, <2>5
    <3> QED
      BY <1>2, <2>2, <2>3, <2>5, <3>1
  <2>6. CASE Element(fields, st) # 0
    <3>1. Element(fields, st) = 1 /\ fields[n].isArray
      BY <1>2, <2>6 DEF Element
    <3>2. pos[n] = h - 1
      BY <1>3, <2>2, <2>4, <3>1
    <3>3. /\ Pop(values)[h - 1] = Above(top) /\ Pop(values)[h - 1] = values[h - 1]
          /\ top # <<>>
      <4>1. h - 1 \in 1..(h - 1)
        BY <1>3, <2>3
      <4> QED
        BY <1>2, <1>3, <2>3, <4>1, NestedPop
    <3>4. PICK below \in Paths, key \in Keys : below = Above(top) /\ top = Append(below, key)
      BY <1>3, <3>3, PathIsAppend
    <3>5. PlaceAt(RootType, top) = PlaceBelow(PlaceOf(fields[n]), key)
      <4>1. PlaceAt(RootType, Append(below, key)) = PlaceBelow(PlaceAt(RootType, below), key)
        BY PlaceAppend
      <4>2. below = values[pos[n]]
        BY <3>2, <3>3, <3>4
      <4> QED
        BY <2>2, <3>4, <4>1, <4>2
    <3>6. fields[n] \in FieldInfos
      BY <1>2, <2>1, ElementOfSeq
    <3>7. PlaceOf(fields[n]) \in Places /\ PlaceOf(fields[n]).isArray
      BY <3>1, <3>6 DEF PlaceOf, Place, Places, FieldInfos
    <3> QED
      BY <1>2, <2>3, <2>6, <3>5, <3>7, PlaceOfElement
  <2> QED
    BY <2>5, <2>6
<1> QED
  BY <1>4, <1>5
-----------------------------------------------------------------------------
(* The object: sound, and what is open exists in it.                        *)

Opened ==
    /\ IsNested(valueStack)
    /\ Located(fieldInfoStack, valueStack, state)
    /\ Sound(RootPlace(RootType), tree)
    /\ Exists(tree, TopValue)
    /\ "at" \in DOMAIN TopNode

IInv ==
    /\ Inv
    /\ state # "BEFORE_ROOT" => Opened
    /\ state = "BEFORE_ROOT" => tree = Null
    /\ outcome.result = "returned" => Sound(RootPlace(RootType), outcome.object)

TopPlace == PlaceAt(RootType, TopValue)

\* The object or array on top, and what its place says of it.
LEMMA TopIs ==
    ASSUME IInv, state # "BEFORE_ROOT"
    PROVE  /\ TopValue \in Paths
           /\ TopPlace \in Places /\ TopPlace.type = getTypeInfo
           /\ TopPlace.isArray = (state = "IN_ARRAY")
           /\ Sound(TopPlace, TopNode)
           /\ state = "IN_COMPOUND" => IsObject(TopPlace, TopNode) /\ IsCompound(getTypeInfo)
           /\ state = "IN_ARRAY" => IsArray(TopPlace, TopNode) /\ fieldInfoStack # <<>> /\ TopField.isArray
           /\ fieldInfoStack # <<>> => Len(valueStack) # 1
<1>1. Opened /\ Inv
  BY DEF IInv
<1>2. fieldInfoStack \in Seq(FieldInfos) /\ state \in CreatorState
  BY <1>1 DEF Inv, Typed
<1>3. TopValue \in Paths
  <2>1. valueStack \in Seq(Paths) /\ valueStack # <<>>
    BY <1>1 DEF Opened, IsNested
  <2> QED
    BY <2>1, EmptySeq, ElementOfSeq DEF TopValue
<1>4. /\ fieldInfoStack = <<>> => Len(valueStack) = 1 /\ TopPlace = RootPlace(RootType)
      /\ fieldInfoStack # <<>> =>
            /\ Len(valueStack) # 1
            /\ TopPlace = IF Element(fieldInfoStack, state) = 0 THEN PlaceOf(TopField)
                                                                ELSE ElementPlace(PlaceOf(TopField))
  BY <1>1, <1>2, LocatedTop DEF Opened, TopPlace, TopValue, TopField
<1>5. state = "IN_ARRAY" => fieldInfoStack # <<>> /\ TopField.isArray
  BY <1>1 DEF Inv, Aligned
<1>6. state # "IN_ARRAY" => state = "IN_COMPOUND" /\ IsCompound(getTypeInfo)
  BY <1>1, <1>2 DEF CreatorState, Inv, Aligned
<1>7. TopPlace \in Places /\ TopPlace.type = getTypeInfo /\ TopPlace.isArray = (state = "IN_ARRAY")
  <2>1. CASE fieldInfoStack = <<>>
    <3>1. TopPlace = RootPlace(RootType) /\ state # "IN_ARRAY" /\ getTypeInfo = RootType
      BY <1>4, <1>5, <2>1 DEF getTypeInfo
    <3>2. RootPlace(RootType) \in Places /\ RootPlace(RootType).type = RootType /\ ~RootPlace(RootType).isArray
      BY RootAssumption DEF RootPlace, Place, Places
    <3>3. (state = "IN_ARRAY") = FALSE /\ RootPlace(RootType).isArray = FALSE
      BY <3>1 DEF RootPlace, Place
    <3> QED
      BY <3>1, <3>2, <3>3, Zenon
  <2>2. CASE fieldInfoStack # <<>>
    <3>1. TopField \in FieldInfos
      BY <1>1, <2>2, Lengths
    <3>2. /\ PlaceOf(TopField) \in Places /\ PlaceOf(TopField).type = getTypeInfo
          /\ PlaceOf(TopField).isArray = TopField.isArray /\ TopField.isArray \in BOOLEAN
      BY <2>2, <3>1 DEF PlaceOf, Place, Places, FieldInfos, getTypeInfo
    <3>3. CASE state = "IN_COMPOUND" /\ TopField.isArray
      <4>1. Element(fieldInfoStack, state) = 1
        BY <3>3 DEF Element, TopField
      <4>2. TopPlace = ElementPlace(PlaceOf(TopField))
        BY <1>4, <2>2, <4>1
      <4> QED
        BY <3>2, <3>3, <4>2 DEF ElementPlace, Place, Places
    <3>4. CASE ~(state = "IN_COMPOUND" /\ TopField.isArray)
      <4>1. Element(fieldInfoStack, state) = 0
        BY <3>4 DEF Element, TopField
      <4> QED
        BY <1>4, <1>5, <1>6, <2>2, <3>2, <3>4, <4>1
    <3> QED
      BY <3>3, <3>4
  <2> QED
    BY <2>1, <2>2
<1>8. Sound(TopPlace, TopNode)
  BY <1>1, <1>3, SoundAt DEF Opened, TopPlace, TopNode
<1>9. "at" \in DOMAIN TopNode
  BY <1>1 DEF Opened
<1>10. ~IsNull(TopPlace, TopNode) /\ ~IsLeaf(TopPlace, TopNode)
  BY <1>9 DEF IsNull, IsLeaf, Null
<1>11. IsArray(TopPlace, TopNode) \/ IsObject(TopPlace, TopNode)
  BY <1>8, <1>10, SoundNode DEF NodeSound
<1>12. IF state = "IN_ARRAY" THEN IsArray(TopPlace, TopNode) ELSE IsObject(TopPlace, TopNode)
  BY <1>7, <1>11 DEF IsArray, IsObject
<1> QED
  BY <1>3, <1>4, <1>5, <1>6, <1>7, <1>8, <1>12
-----------------------------------------------------------------------------
(* The steps of the creator as steps of a builder.                          *)

\* What a step makes of the node on top: another child at a key, and the other ones as they were.
ChildChanged(old, new, key) ==
    /\ "at" \in DOMAIN new /\ new.kind = old.kind
    /\ key \in DOMAIN new.at /\ key \in Keys
    /\ IF old.kind \in ChoiceKinds
       THEN DOMAIN new.at = {key}
       ELSE /\ DOMAIN new.at \ {key} = DOMAIN old.at \ {key}
            /\ \A other \in DOMAIN old.at \ {key} : new.at[other] = old.at[other]

LEMMA SelectChanges ==
    ASSUME IInv, state = "IN_COMPOUND", NEW name \in FieldNames(getTypeInfo),
           NEW value, Sound(PlaceBelow(TopPlace, name), value),
           NEW new, new = Select(TopNode, name, value)
    PROVE  Sound(TopPlace, new) /\ ChildChanged(TopNode, new, name) /\ new.at[name] = value
<1>1. Sound(TopPlace, TopNode) /\ IsObject(TopPlace, TopNode) /\ TopPlace.type = getTypeInfo
  BY TopIs
<1>2. /\ TopPlace.type \in DOMAIN Types /\ IsCompound(getTypeInfo) /\ TopNode.kind = Cpp(getTypeInfo)
      /\ KeysOf(TopNode) = DOMAIN TopNode.at
  BY <1>1, SoundNode, ObjectIs
<1>3. /\ Sound(TopPlace, new) /\ IsObject(TopPlace, new) /\ new.kind = TopNode.kind
      /\ name \in DOMAIN new.at /\ new.at[name] = value
      /\ HasChoice(getTypeInfo) => DOMAIN new.at = {name}
      /\ ~HasChoice(getTypeInfo) =>
            /\ DOMAIN new.at = DOMAIN TopNode.at
            /\ \A other \in DOMAIN TopNode.at : other # name => new.at[other] = TopNode.at[other]
  BY <1>1, SoundSelect
<1>4. "at" \in DOMAIN new /\ KeysOf(new) = DOMAIN new.at /\ KeysOf(new) \subseteq Keys
  BY <1>3, SoundNode, ObjectIs, SoundKeys
<1>5. TopNode.kind \in ChoiceKinds <=> HasChoice(getTypeInfo)
  BY <1>2 DEF ChoiceKinds, HasChoice, hasChoiceCpp, Simple
<1> QED
  BY <1>3, <1>4, <1>5 DEF ChildChanged

LEMMA GrowthChanges ==
    ASSUME IInv, state = "IN_ARRAY", NEW value, Sound(ElementPlace(TopPlace), value),
           NEW new, new = [TopNode EXCEPT !.at = Append(TopNode.at, value)]
    PROVE  /\ Sound(TopPlace, new) /\ ChildChanged(TopNode, new, Len(TopNode.at) + 1)
           /\ new.at[Len(TopNode.at) + 1] = value
<1>1. Sound(TopPlace, TopNode) /\ IsArray(TopPlace, TopNode)
  BY TopIs
<1>2. PICK n : n = Len(TopNode.at)
  OBVIOUS
<1>3. TopNode.kind = ArrayKind /\ n \in Nat /\ DOMAIN TopNode.at = 1..n
  BY <1>1, <1>2, SoundNode, ArrayIs
<1>4. /\ Sound(TopPlace, new) /\ IsArray(TopPlace, new) /\ new.kind = TopNode.kind
      /\ DOMAIN new.at = 1..(n + 1) /\ new.at[n + 1] = value
      /\ \A i \in 1..n : new.at[i] = TopNode.at[i]
  BY <1>1, <1>2, SoundGrown
<1>5. "at" \in DOMAIN new
  BY <1>4, SoundNode, ArrayIs
<1>6. n + 1 \in Keys /\ n + 1 \in DOMAIN new.at /\ DOMAIN new.at \ {n + 1} = DOMAIN TopNode.at \ {n + 1}
  BY <1>3, <1>4 DEF Keys
<1>7. TopNode.kind \notin ChoiceKinds
  BY <1>3 DEF ChoiceKinds, ArrayKind
<1>8. ChildChanged(TopNode, new, n + 1)
  BY <1>3, <1>4, <1>5, <1>6, <1>7 DEF ChildChanged
<1> QED
  BY <1>2, <1>4, <1>8

\* A sound node takes the place of the one on top.
LEMMA PutOnTop ==
    ASSUME IInv, state # "BEFORE_ROOT", NEW new, Sound(TopPlace, new)
    PROVE  /\ Sound(RootPlace(RootType), Put(tree, TopValue, new))
           /\ Exists(Put(tree, TopValue, new), TopValue)
           /\ Get(Put(tree, TopValue, new), TopValue) = new
<1>1. TopValue \in Paths /\ Exists(tree, TopValue) /\ Sound(RootPlace(RootType), tree)
  BY TopIs DEF IInv, Opened
<1> QED
  BY <1>1, SoundPut, PutFound DEF TopPlace

\* The builder has trees and paths of its own, which are the same ones.
LEMMA SameTrees ==
    /\ Builder!ChoiceKinds = ChoiceKinds /\ Builder!Null = Null
    /\ \A node : Builder!KeysOf(node) = KeysOf(node)
    /\ \A root, path : Builder!Get(root, path) = Get(root, path)
    /\ \A root, path, node : Builder!Put(root, path, node) = Put(root, path, node)
    /\ \A root, path : Builder!Exists(root, path) <=> Exists(root, path)
<1>1. Builder!ChoiceKinds = ChoiceKinds /\ Builder!Null = Null
  BY DEF ChoiceKinds, Builder!ChoiceKinds, Null, NullKind, Builder!Null, Builder!NullKind
<1>2. \A node : Builder!KeysOf(node) = KeysOf(node)
  BY DEF KeysOf, Builder!KeysOf
<1>3. \A root, path : Builder!Get(root, path) = Get(root, path)
  BY Zenon DEF Get, Builder!Get
<1>4. \A root, path, node : Builder!Put(root, path, node) = Put(root, path, node)
  BY Zenon DEF Put, Get, Builder!Put, Builder!Get
<1>5. \A root, path : Builder!Exists(root, path) <=> Exists(root, path)
  BY <1>3, Zenon DEF Exists, Builder!Exists
<1> QED
  BY <1>1, <1>2, <1>3, <1>4, <1>5

\* What ChildChanged says of the nodes is what the builder asks for.
LEMMA OnlyThere ==
    ASSUME NEW before, NEW after, NEW cursor \in Paths, NEW key, "at" \in DOMAIN Get(before, cursor),
           ChildChanged(Get(before, cursor), Get(after, cursor), key),
           after = Put(before, cursor, Get(after, cursor))
    PROVE  /\ Builder!OnlyAt(Append(cursor, key), before, after)
           /\ key \in KeysOf(Get(after, cursor))
<1>1. PICK old, new : old = Get(before, cursor) /\ new = Get(after, cursor)
  OBVIOUS
<1>2. PICK path : path = Append(cursor, key)
  OBVIOUS
<1>3. key \in Keys
  BY DEF ChildChanged
<1>4. Builder!Parent(path) = cursor /\ path[Len(path)] = key
  <2>1. Above(path) = cursor /\ Len(path) = Len(cursor) + 1 /\ path[Len(cursor) + 1] = key
    BY <1>2, <1>3, AboveOfAppend, AppendPath
  <2> QED
    BY <2>1 DEF Above, Builder!Parent
<1>5. KeysOf(old) = DOMAIN old.at /\ KeysOf(new) = DOMAIN new.at /\ ChildChanged(old, new, key)
  BY <1>1 DEF ChildChanged, KeysOf
<1>6. Builder!OnlyAt(path, before, after)
  BY <1>1, <1>4, <1>5, SameTrees DEF Builder!OnlyAt, ChildChanged
<1> QED
  BY <1>1, <1>2, <1>5, <1>6 DEF ChildChanged

\* A step of the builder, or none.
BuilderSteps == Builder!Next \/ UNCHANGED Builder!vars

\* The object is changed below the pointer on top, which stays.
LEMMA ChangesBelow ==
    ASSUME IInv, state # "BEFORE_ROOT", UNCHANGED <<state, valueStack>>,
           NEW new, NEW key, Sound(TopPlace, new), ChildChanged(TopNode, new, key),
           tree' = Put(tree, TopValue, new)
    PROVE  /\ BuilderSteps
           /\ Sound(RootPlace(RootType), tree') /\ Exists(tree', TopValue)
           /\ TopValue' = TopValue /\ TopNode' = new
<1>1. Sound(RootPlace(RootType), tree') /\ Exists(tree', TopValue) /\ Get(tree', TopValue) = new
  BY PutOnTop
<1>2. TopValue' = TopValue /\ TopNode' = new
  BY <1>1 DEF TopValue, TopNode
<1>3. Opened
  BY DEF IInv
<1>7. TopValue \in Paths /\ valueStack # <<>>
  BY <1>3, TopIs DEF Opened, IsNested
<1>8. /\ Builder!OnlyAt(Append(TopValue, key), tree, tree')
      /\ key \in KeysOf(Get(tree', TopValue))
  <2>1. "at" \in DOMAIN Get(tree, TopValue) /\ ChildChanged(Get(tree, TopValue), Get(tree', TopValue), key)
    BY <1>1, <1>3 DEF Opened, TopNode
  <2>2. tree' = Put(tree, TopValue, Get(tree', TopValue))
    BY <1>1
  <2> QED
    BY <1>7, <2>1, <2>2, OnlyThere
<1>9. Builder!Change(tree, tree')
  BY <1>2, <1>7, <1>8, SameTrees DEF Builder!Change
<1> QED
  BY <1>1, <1>2, <1>9 DEF BuilderSteps, Builder!Next, Builder!Step

\* ... and all else stays.
LEMMA Changes ==
    ASSUME IInv, Inv', state # "BEFORE_ROOT", UNCHANGED <<state, fieldInfoStack, valueStack>>,
           outcome' \in {Ok, ThrownOut},
           NEW new, NEW key, Sound(TopPlace, new), ChildChanged(TopNode, new, key),
           tree' = Put(tree, TopValue, new)
    PROVE  IInv' /\ BuilderSteps
<1>1. /\ BuilderSteps
      /\ Sound(RootPlace(RootType), tree') /\ Exists(tree', TopValue)
      /\ TopValue' = TopValue /\ TopNode' = new
  BY ChangesBelow
<1>2. Opened'
  BY <1>1 DEF IInv, Opened, ChildChanged
<1>3. outcome'.result # "returned"
  BY DEF Ok, ThrownOut
<1>4. IInv'
  BY <1>2, <1>3 DEF IInv
<1> QED
  BY <1>1, <1>4

\* A child of the object or array on top is opened, new or as it was.
LEMMA Enters ==
    ASSUME IInv, Inv', state # "BEFORE_ROOT", state' # "BEFORE_ROOT", outcome' = Ok,
           NEW new, NEW key, Sound(TopPlace, new), ChildChanged(TopNode, new, key),
           tree' = Put(tree, TopValue, new), "at" \in DOMAIN new.at[key],
           valueStack' = Append(valueStack, Append(TopValue, key)),
           Located(fieldInfoStack', valueStack', state')
    PROVE  IInv' /\ BuilderSteps
<1>0. PICK path : path = Append(TopValue, key)
  OBVIOUS
<1>1. Sound(RootPlace(RootType), tree') /\ Exists(tree', TopValue) /\ Get(tree', TopValue) = new
  BY PutOnTop
<1>2. Opened /\ key \in Keys /\ TopValue \in Paths
  BY TopIs DEF IInv, ChildChanged
<1>3. /\ path \in Paths /\ Len(path) = Len(TopValue) + 1 /\ Above(path) = TopValue
  BY <1>0, <1>2, AppendPath, AboveOfAppend
<1>4. IsNested(valueStack') /\ valueStack' # <<>>
  <2>1. IsNested(Append(valueStack, Append(TopValue, key)))
    BY <1>2, NestedPush DEF Opened, TopValue
  <2> QED
    BY <2>1 DEF IsNested
<1>5. TopValue' = path
  <2>1. valueStack \in Seq(Paths)
    BY <1>2 DEF Opened, IsNested
  <2>2. valueStack' = Append(valueStack, path)
    BY <1>0
  <2>3. valueStack'[Len(valueStack')] = path
    BY <1>3, <2>1, <2>2, AppendProperties
  <2> QED
    BY <2>3 DEF TopValue
<1>6. Exists(tree', path) /\ Get(tree', path) = new.at[key]
  <2>1. "at" \in DOMAIN Get(tree', TopValue) /\ key \in DOMAIN Get(tree', TopValue).at
    BY <1>1 DEF ChildChanged
  <2> QED
    BY <1>0, <1>1, <1>2, <2>1, ExistsAppend, GetAppend
<1>7. Opened'
  BY <1>1, <1>4, <1>5, <1>6 DEF Opened, TopNode
<1>8. outcome'.result # "returned"
  BY DEF Ok
<1>9. IInv'
  BY <1>7, <1>8 DEF IInv
<1>10. Builder!OnlyAt(path, tree, tree')
  <2>1. "at" \in DOMAIN Get(tree, TopValue) /\ ChildChanged(Get(tree, TopValue), Get(tree', TopValue), key)
    BY <1>1, <1>2 DEF Opened, TopNode
  <2>2. tree' = Put(tree, TopValue, Get(tree', TopValue))
    BY <1>1
  <2> QED
    BY <1>0, <1>2, <2>1, <2>2, OnlyThere
<1>11. valueStack # <<>>
  BY <1>2 DEF Opened, IsNested
<1>12. Builder!Parent(path) = TopValue
  BY <1>3 DEF Above, Builder!Parent
<1>13. Builder!Down(tree, tree')
  BY <1>3, <1>4, <1>5, <1>6, <1>10, <1>11, <1>12, SameTrees DEF Builder!Down
<1> QED
  BY <1>9, <1>13 DEF BuilderSteps, Builder!Next, Builder!Step

\* What is on top is closed.
LEMMA Leaves ==
    ASSUME IInv, Inv', state # "BEFORE_ROOT", state' # "BEFORE_ROOT", outcome' = Ok,
           Len(valueStack) # 1, valueStack' = Pop(valueStack), tree' = tree,
           Located(fieldInfoStack', valueStack', state')
    PROVE  IInv' /\ BuilderSteps
<1>1. Opened /\ TopValue \in Paths
  BY TopIs DEF IInv
<1>2. /\ IsNested(valueStack') /\ Len(valueStack') = Len(valueStack) - 1
      /\ TopValue # <<>> /\ valueStack'[Len(valueStack) - 1] = Above(TopValue)
  BY <1>1, NestedPop DEF Opened, TopValue
<1>3. TopValue' = Above(TopValue)
  BY <1>2 DEF TopValue
<1>4. PICK above \in Paths, key \in Keys : above = Above(TopValue) /\ TopValue = Append(above, key)
  BY <1>1, <1>2, PathIsAppend
<1>5. Exists(tree, above) /\ "at" \in DOMAIN Get(tree, above)
  BY <1>1, <1>4, ExistsAppend DEF Opened
<1>6. Opened'
  BY <1>1, <1>2, <1>3, <1>4, <1>5 DEF Opened, TopNode
<1>7. outcome'.result # "returned"
  BY DEF Ok
<1>8. IInv'
  BY <1>6, <1>7 DEF IInv
<1>9. valueStack # <<>> /\ valueStack' # <<>>
  BY <1>1, <1>2 DEF Opened, IsNested
<1>10. Builder!Up(tree, tree')
  BY <1>2, <1>3, <1>9 DEF Builder!Up, Above, Builder!Parent
<1> QED
  BY <1>8, <1>10 DEF BuilderSteps, Builder!Next, Builder!Step

\* A call that is refused changes nothing.
LEMMA Refused == ASSUME IInv, Throws PROVE IInv' /\ BuilderSteps
<1>1. Inv'
  BY ThrowsInv DEF IInv
<1>2. UNCHANGED <<state, fieldInfoStack, valueStack, tree>> /\ outcome'.result # "returned"
  BY DEF Throws, ThrownOut
<1>3. TopValue' = TopValue /\ TopNode' = TopNode /\ Opened' = Opened
  BY <1>2 DEF TopValue, TopNode, Opened
<1>4. IInv'
  BY <1>1, <1>2, <1>3 DEF IInv
<1>5. UNCHANGED Builder!vars
  BY <1>2, <1>3 DEF Builder!vars
<1> QED
  BY <1>4, <1>5 DEF BuilderSteps
-----------------------------------------------------------------------------
(* The operations.                                                         *)

\* An object that is no optional field has fields, also when it is new.
LEMMA ObjectHasKeys ==
    ASSUME NEW place, NEW node, Sound(place, node), ~place.isArray, ~place.isOptional, IsCompound(place.type)
    PROVE  "at" \in DOMAIN node /\ node # Null
<1>1. NodeSound(place, node) /\ IsObject(place, node)
  BY SoundNode DEF NodeSound, IsNull, IsArray, IsLeaf
<1> QED
  BY <1>1, ObjectIs DEF Null

\* A field of the object on top: where it is, and that it can be opened.
LEMMA FieldOnTop ==
    ASSUME IInv, state = "IN_COMPOUND", NEW name \in Names, Finds(name), NEW f, f = findFieldInfo(name)
    PROVE  /\ name \in FieldNames(getTypeInfo) /\ f = FieldOf(getTypeInfo, name) /\ f \in FieldInfos
           /\ PlaceBelow(TopPlace, name) = PlaceOf(f)
           /\ Located(Append(fieldInfoStack, f), Append(valueStack, Append(TopValue, name)),
                      IF f.isArray THEN "IN_ARRAY" ELSE "IN_COMPOUND")
<1>1. name \in FieldNames(getTypeInfo) /\ f = FieldOf(getTypeInfo, name)
  BY DEF Finds, findFieldInfo
<1>2. getTypeInfo \in DOMAIN Types /\ f \in FieldInfos
  BY TopFieldFound DEF IInv
<1>3. TopValue \in Paths /\ TopPlace \in Places /\ TopPlace.type = getTypeInfo /\ ~TopPlace.isArray
  BY TopIs
<1>4. IsCompound(getTypeInfo)
  BY TopIs
<1>5. PlaceBelow(TopPlace, name) = PlaceOf(f)
  BY <1>1, <1>2, <1>3, <1>4, PlaceOfField
<1>6. name \in Keys
  BY NamesAssumption DEF Keys
<1>7. PICK path \in Paths : path = Append(TopValue, name)
  BY <1>3, <1>6, AppendPath
<1>8. PlaceAt(RootType, path) = PlaceOf(f)
  BY <1>3, <1>5, <1>6, <1>7, PlaceAppend DEF TopPlace
<1>9. /\ fieldInfoStack \in Seq(FieldInfos) /\ valueStack \in Seq(Paths)
      /\ Located(fieldInfoStack, valueStack, "IN_COMPOUND")
  BY DEF IInv, Opened, Inv, Typed, IsNested
<1>10. PICK st : st = IF f.isArray THEN "IN_ARRAY" ELSE "IN_COMPOUND"
  OBVIOUS
<1>11. Located(Append(fieldInfoStack, f), Append(valueStack, path), st)
  BY <1>2, <1>8, <1>9, <1>10, LocatedPush
<1> QED
  BY <1>1, <1>2, <1>5, <1>7, <1>10, <1>11

LEMMA BeginRootBuilds == ASSUME IInv, beginRoot PROVE IInv' /\ BuilderSteps
<1>0. Inv'
  BY BeginRootInv DEF IInv
<1>1. CASE state # "BEFORE_ROOT"
  BY <1>1, Refused DEF beginRoot
<1>2. CASE state = "BEFORE_ROOT"
  <2>1. /\ state' = "IN_COMPOUND" /\ fieldInfoStack' = <<>> /\ valueStack' = <<<<>>>>
        /\ valueStack = <<>> /\ tree' = Default[RootType] /\ outcome' = Ok
    BY <1>2 DEF beginRoot, createInstance, IInv, Inv, Aligned
  <2>2. TopValue' = <<>>
    BY <2>1 DEF TopValue
  <2>3. PICK place \in Places : place = RootPlace(RootType)
    BY RootAssumption DEF RootPlace, Place, Places
  <2>4. place.type = RootType /\ ~place.isArray /\ ~place.isOptional
    BY <2>3 DEF RootPlace, Place
  <2>5. Sound(RootPlace(RootType), tree')
    BY <2>1, <2>3, <2>4, SoundDefault
  <2>6. "at" \in DOMAIN tree' /\ tree' # Null
    BY <2>3, <2>4, <2>5, ObjectHasKeys, RootAssumption
  <2>7. IsNested(valueStack') /\ Located(fieldInfoStack', valueStack', state')
    <3>1. Len(<<<<>>>>) = 1
      OBVIOUS
    <3> QED
      BY <2>1, <3>1, NestedRoot, LocatedRoot
  <2>8. Opened'
    BY <2>2, <2>5, <2>6, <2>7, ExistsEmpty, GetEmpty DEF Opened, TopNode
  <2>9. IInv'
    BY <1>0, <2>1, <2>8 DEF IInv, Ok
  <2>10. Builder!Open(tree')
    BY <1>2, <2>1, <2>2, <2>6, SameTrees DEF Builder!Open
  <2> QED
    BY <2>9, <2>10 DEF BuilderSteps, Builder!Next, Builder!Step
<1> QED
  BY <1>1, <1>2

LEMMA EndRootBuilds == ASSUME IInv, endRoot PROVE IInv' /\ BuilderSteps
<1>0. Inv'
  BY EndRootInv DEF IInv
<1>1. CASE ~(state = "IN_COMPOUND" /\ Len(valueStack) = 1)
  BY <1>1, Refused DEF endRoot
<1>2. CASE state = "IN_COMPOUND" /\ Len(valueStack) = 1
  <2>1. state' = "BEFORE_ROOT" /\ tree' = Null /\ outcome' = Returned(tree)
    BY <1>2 DEF endRoot
  <2>2. valueStack' = <<>>
    BY <1>0, <2>1 DEF Inv, Aligned
  <2>3. valueStack # <<>> /\ TopValue = <<>>
    <3>1. TopValue \in Paths /\ Len(TopValue) = 0 /\ valueStack # <<>>
      BY <1>2, TopIs DEF IInv, Opened, IsNested, TopValue
    <3> QED
      BY <3>1, EmptySeq DEF Paths
  <2>4. outcome'.object = tree
    BY <2>1 DEF Returned
  <2>5. IInv'
    BY <1>0, <1>2, <2>1, <2>4 DEF IInv, Opened
  <2>6. Builder!Close(tree')
    BY <1>2, <2>1, <2>2, <2>3, SameTrees DEF Builder!Close
  <2> QED
    BY <2>5, <2>6 DEF BuilderSteps, Builder!Next, Builder!Step
<1> QED
  BY <1>1, <1>2

LEMMA BeginArrayBuilds == ASSUME IInv, NEW name \in Names, beginArray(name) PROVE IInv' /\ BuilderSteps
<1>0. Inv'
  BY BeginArrayInv DEF IInv
<1>1. CASE ~CanBeginArray(name)
  BY <1>1, Refused DEF beginArray
<1>2. CASE CanBeginArray(name)
  <2>1. PICK f : f = findFieldInfo(name)
    OBVIOUS
  <2>2. state = "IN_COMPOUND" /\ Finds(name) /\ f.isArray
    BY <1>2, <2>1 DEF CanBeginArray
  <2>3. PICK new : new = createField(getTypeInfo, TopNode, name)
    OBVIOUS
  <2>4. /\ state' = "IN_ARRAY" /\ fieldInfoStack' = Append(fieldInfoStack, f) /\ outcome' = Ok
        /\ valueStack' = Append(valueStack, Append(TopValue, name)) /\ tree' = Put(tree, TopValue, new)
    BY <1>2, <2>1, <2>3 DEF beginArray, FieldCreated
  <2>5. /\ name \in FieldNames(getTypeInfo) /\ f = FieldOf(getTypeInfo, name)
        /\ Located(fieldInfoStack', valueStack', state')
    BY <2>1, <2>2, <2>4, FieldOnTop
  <2>6. new = Select(TopNode, name, DefaultOf(f)) /\ Sound(PlaceBelow(TopPlace, name), DefaultOf(f))
    <3>1. Sound(TopPlace, TopNode) /\ IsObject(TopPlace, TopNode) /\ TopPlace.type = getTypeInfo
      BY <2>2, TopIs
    <3> QED
      BY <2>3, <2>5, <3>1, CreateFieldIs
  <2>7. Sound(TopPlace, new) /\ ChildChanged(TopNode, new, name) /\ new.at[name] = DefaultOf(f)
    BY <2>2, <2>5, <2>6, SelectChanges
  <2>8. "at" \in DOMAIN new.at[name]
    BY <2>2, <2>7 DEF DefaultOf, Node
  <2> QED
    BY <1>0, <2>2, <2>4, <2>5, <2>7, <2>8, Enters
<1> QED
  BY <1>1, <1>2

LEMMA NewObjectHasKeys ==
    ASSUME NEW type \in DOMAIN Types, IsCompound(type)
    PROVE  "at" \in DOMAIN Default[type]
<1>1. PICK place \in Places : place = RootPlace(type)
  BY DEF RootPlace, Place, Places
<1>2. place.type = type /\ ~place.isArray /\ ~place.isOptional
  BY <1>1 DEF RootPlace, Place
<1>3. Sound(place, Default[type])
  BY <1>1, <1>2, SoundDefault
<1> QED
  BY <1>2, <1>3, ObjectHasKeys

\* An object in place is entered as it is.
LEMMA EnteredAsItIs ==
    ASSUME IInv, state = "IN_COMPOUND", NEW name \in Names, Finds(name), NEW f, f = findFieldInfo(name),
           ~f.isArray, ~f.isOptional, IsCompound(f.typeInfo), ~HasChoice(getTypeInfo)
    PROVE  /\ ChildChanged(TopNode, TopNode, name)
           /\ "at" \in DOMAIN TopNode.at[name]
           /\ tree = Put(tree, TopValue, TopNode)
<1>1. name \in FieldNames(getTypeInfo) /\ f \in FieldInfos /\ PlaceBelow(TopPlace, name) = PlaceOf(f)
  BY FieldOnTop
<1>2. /\ TopValue \in Paths /\ Sound(TopPlace, TopNode) /\ IsObject(TopPlace, TopNode)
      /\ TopPlace.type = getTypeInfo
  BY TopIs
<1>3. /\ "at" \in DOMAIN TopNode /\ KeysOf(TopNode) = DOMAIN TopNode.at
      /\ TopNode.kind = Cpp(getTypeInfo) /\ IsFieldsOf(getTypeInfo, TopNode.at)
  BY <1>2, SoundNode, ObjectIs
<1>4. name \in DOMAIN TopNode.at
  BY <1>1, <1>3 DEF IsFieldsOf
<1>5. TopNode.kind \notin ChoiceKinds
  BY <1>3 DEF ChoiceKinds, HasChoice, hasChoiceCpp, Simple
<1>6. name \in Keys
  BY NamesAssumption DEF Keys
<1>7. ChildChanged(TopNode, TopNode, name)
  BY <1>3, <1>4, <1>5, <1>6 DEF ChildChanged
<1>8. Sound(PlaceOf(f), TopNode.at[name])
  <2>1. Sound(PlaceBelow(TopPlace, name), TopNode.at[name])
    BY <1>2, <1>3, <1>4, SoundChild
  <2> QED
    BY <1>1, <2>1
<1>9. ~PlaceOf(f).isArray /\ ~PlaceOf(f).isOptional /\ PlaceOf(f).type = f.typeInfo
  BY DEF PlaceOf, Place
<1>10. "at" \in DOMAIN TopNode.at[name]
  BY <1>8, <1>9, ObjectHasKeys
<1>11. Put(tree, TopValue, TopNode) = tree
  BY <1>2, SoundPutSame DEF IInv, Opened, TopNode
<1> QED
  BY <1>7, <1>10, <1>11

LEMMA BeginCompoundBuilds == ASSUME IInv, NEW name \in Names, beginCompound(name) PROVE IInv' /\ BuilderSteps
<1>0. Inv'
  BY BeginCompoundInv DEF IInv
<1>1. CASE ~CanBeginCompound(name)
  BY <1>1, Refused DEF beginCompound
<1>2. CASE CanBeginCompound(name)
  <2>1. PICK f : f = findFieldInfo(name)
    OBVIOUS
  <2>2. state = "IN_COMPOUND" /\ Finds(name) /\ ~f.isArray /\ IsCompound(f.typeInfo)
    BY <1>2, <2>1 DEF CanBeginCompound
  <2>3. PICK created : created = createField(getTypeInfo, TopNode, name)
    OBVIOUS
  <2>4. /\ state' = "IN_COMPOUND" /\ fieldInfoStack' = Append(fieldInfoStack, f) /\ outcome' = Ok
        /\ valueStack' = Append(valueStack, Append(TopValue, name))
        /\ tree' = IF CreatesCompound(name) THEN Put(tree, TopValue, created) ELSE tree
    BY <1>2, <2>1, <2>3 DEF beginCompound, FieldCreated
  <2>5. /\ name \in FieldNames(getTypeInfo) /\ f = FieldOf(getTypeInfo, name) /\ f \in FieldInfos
        /\ Located(fieldInfoStack', valueStack', state')
    BY <2>1, <2>2, <2>4, FieldOnTop
  <2>6. Sound(TopPlace, TopNode) /\ IsObject(TopPlace, TopNode) /\ TopPlace.type = getTypeInfo
    BY <2>2, TopIs
  <2>7. CASE CreatesCompound(name)
    <3>1. created = Select(TopNode, name, DefaultOf(f)) /\ Sound(PlaceBelow(TopPlace, name), DefaultOf(f))
      BY <2>3, <2>5, <2>6, CreateFieldIs
    <3>2. /\ Sound(TopPlace, created) /\ ChildChanged(TopNode, created, name)
          /\ created.at[name] = DefaultOf(f)
      BY <2>2, <2>5, <3>1, SelectChanges
    <3>3. f.typeInfo \in DOMAIN Types
      BY <2>5 DEF FieldInfos
    <3>4. "at" \in DOMAIN created.at[name]
      BY <2>2, <3>2, <3>3, NewObjectHasKeys DEF DefaultOf
    <3> QED
      BY <1>0, <2>2, <2>4, <2>5, <2>7, <3>2, <3>4, Enters
  <2>8. CASE ~CreatesCompound(name)
    <3>1. ~f.isOptional /\ ~HasChoice(getTypeInfo)
      BY <2>1, <2>8 DEF CreatesCompound
    <3>2. /\ ChildChanged(TopNode, TopNode, name) /\ "at" \in DOMAIN TopNode.at[name]
          /\ tree = Put(tree, TopValue, TopNode)
      BY <2>1, <2>2, <3>1, EnteredAsItIs
    <3>3. tree' = Put(tree, TopValue, TopNode)
      BY <2>4, <2>8, <3>2
    <3> QED
      BY <1>0, <2>2, <2>4, <2>5, <2>6, <3>2, <3>3, Enters
  <2> QED
    BY <2>7, <2>8
<1> QED
  BY <1>1, <1>2

\* What is left on the stacks when the array or the compound on top is ended.
LEMMA FieldClosed ==
    ASSUME IInv, fieldInfoStack # <<>>, state = "IN_ARRAY" \/ (state = "IN_COMPOUND" /\ ~TopField.isArray)
    PROVE  Len(valueStack) # 1 /\ Located(Pop(fieldInfoStack), Pop(valueStack), "IN_COMPOUND")
<1>1. fieldInfoStack \in Seq(FieldInfos) /\ Opened
  BY DEF IInv, Inv, Typed
<1>2. Len(valueStack) # 1
  BY TopIs
<1>3. PICK below : below = Pop(valueStack)
  OBVIOUS
<1>4. /\ below \in Seq(Paths) /\ Len(below) = Len(valueStack) - 1
      /\ \A i \in 1..(Len(valueStack) - 1) : below[i] = valueStack[i]
  <2>1. IsNested(below) /\ Len(below) = Len(valueStack) - 1
        /\ \A i \in 1..(Len(valueStack) - 1) : below[i] = valueStack[i]
    BY <1>1, <1>2, <1>3, NestedPop DEF Opened
  <2> QED
    BY <2>1 DEF IsNested
<1>5. valueStack \in Seq(Paths) /\ Located(fieldInfoStack, valueStack, state)
  BY <1>1 DEF Opened, IsNested
<1>6. Located(Pop(fieldInfoStack), below, "IN_COMPOUND")
  BY <1>1, <1>4, <1>5, LocatedPop DEF TopField
<1> QED
  BY <1>2, <1>3, <1>6

LEMMA EndArrayBuilds == ASSUME IInv, endArray PROVE IInv' /\ BuilderSteps
<1>0. Inv'
  BY EndArrayInv DEF IInv
<1>1. CASE state # "IN_ARRAY"
  BY <1>1, Refused DEF endArray
<1>2. CASE state = "IN_ARRAY"
  <2>1. /\ state' = "IN_COMPOUND" /\ fieldInfoStack' = Pop(fieldInfoStack) /\ valueStack' = Pop(valueStack)
        /\ outcome' = Ok /\ tree' = tree
    BY <1>2 DEF endArray
  <2>2. fieldInfoStack # <<>>
    BY <1>2, TopIs
  <2>3. Len(valueStack) # 1 /\ Located(fieldInfoStack', valueStack', state')
    BY <1>2, <2>1, <2>2, FieldClosed
  <2> QED
    BY <1>0, <1>2, <2>1, <2>3, Leaves
<1> QED
  BY <1>1, <1>2

LEMMA EndCompoundBuilds == ASSUME IInv, endCompound PROVE IInv' /\ BuilderSteps
<1>0. Inv'
  BY EndCompoundInv DEF IInv
<1>1. CASE ~CanEndCompound
  BY <1>1, Refused DEF endCompound
<1>2. CASE CanEndCompound
  <2>1. /\ state = "IN_COMPOUND" /\ fieldInfoStack # <<>> /\ ~TopField.isArray
        /\ state' = "IN_COMPOUND" /\ fieldInfoStack' = Pop(fieldInfoStack) /\ valueStack' = Pop(valueStack)
        /\ outcome' = Ok /\ tree' = tree
    BY <1>2 DEF endCompound, CanEndCompound
  <2>2. Len(valueStack) # 1 /\ Located(fieldInfoStack', valueStack', state')
    BY <2>1, FieldClosed
  <2> QED
    BY <1>0, <2>1, <2>2, Leaves
<1> QED
  BY <1>1, <1>2

LEMMA EndCompoundElementBuilds == ASSUME IInv, endCompoundElement PROVE IInv' /\ BuilderSteps
<1>0. Inv'
  BY EndCompoundElementInv DEF IInv
<1>1. CASE ~CanEndCompoundElement
  BY <1>1, Refused DEF endCompoundElement
<1>2. CASE CanEndCompoundElement
  <2>1. /\ state = "IN_COMPOUND" /\ fieldInfoStack # <<>> /\ TopField.isArray
        /\ state' = "IN_ARRAY" /\ fieldInfoStack' = fieldInfoStack /\ valueStack' = Pop(valueStack)
        /\ outcome' = Ok /\ tree' = tree
    BY <1>2 DEF endCompoundElement, CanEndCompoundElement
  <2>2. fieldInfoStack \in Seq(FieldInfos) /\ Opened /\ Len(valueStack) # 1
    BY <2>1, TopIs DEF IInv, Inv, Typed
  <2>3. /\ valueStack' \in Seq(Paths) /\ Len(valueStack') = Len(valueStack) - 1
        /\ \A i \in 1..(Len(valueStack) - 1) : valueStack'[i] = valueStack[i]
    BY <2>1, <2>2, NestedPop DEF Opened, IsNested
  <2>4. valueStack \in Seq(Paths) /\ Located(fieldInfoStack, valueStack, "IN_COMPOUND")
    BY <2>1, <2>2 DEF Opened, IsNested
  <2>5. Located(fieldInfoStack, valueStack', "IN_ARRAY")
    BY <2>1, <2>2, <2>3, <2>4, LocatedPopElement DEF TopField
  <2> QED
    BY <1>0, <2>1, <2>2, <2>5, Leaves
<1> QED
  BY <1>1, <1>2

LEMMA BeginCompoundElementBuilds == ASSUME IInv, beginCompoundElement PROVE IInv' /\ BuilderSteps
<1>0. Inv'
  BY BeginCompoundElementInv DEF IInv
<1>1. CASE ~CanBeginCompoundElement
  BY <1>1, Refused DEF beginCompoundElement
<1>2. CASE CanBeginCompoundElement
  <2>1. PICK size : size = Len(TopNode.at) + 1
    OBVIOUS
  <2>2. PICK new : new = resize(TopField.typeInfo, TopNode, size)
    OBVIOUS
  <2>3. /\ state = "IN_ARRAY" /\ IsCompound(TopField.typeInfo)
        /\ state' = "IN_COMPOUND" /\ fieldInfoStack' = fieldInfoStack /\ outcome' = Ok
        /\ valueStack' = Append(valueStack, Append(TopValue, size)) /\ tree' = Put(tree, TopValue, new)
    BY <1>2, <2>1, <2>2 DEF beginCompoundElement, CanBeginCompoundElement, NewSize, Grown
  <2>4. /\ TopValue \in Paths /\ TopPlace \in Places /\ Sound(TopPlace, TopNode) /\ IsArray(TopPlace, TopNode)
        /\ fieldInfoStack # <<>> /\ TopField.isArray /\ TopPlace.type = TopField.typeInfo
    BY <2>3, TopIs DEF getTypeInfo
  <2>5. PICK value : value = Default[TopPlace.type]
    OBVIOUS
  <2>6. new = [TopNode EXCEPT !.at = Append(TopNode.at, value)] /\ Sound(ElementPlace(TopPlace), value)
    BY <2>1, <2>2, <2>4, <2>5, ResizeIs
  <2>7. Sound(TopPlace, new) /\ ChildChanged(TopNode, new, size) /\ new.at[size] = value
    BY <2>1, <2>3, <2>6, GrowthChanges
  <2>8. "at" \in DOMAIN new.at[size]
    BY <2>3, <2>4, <2>5, <2>7, NewObjectHasKeys DEF Places
  <2>9. Located(fieldInfoStack', valueStack', state')
    <3>1. /\ fieldInfoStack \in Seq(FieldInfos) /\ valueStack \in Seq(Paths)
          /\ Located(fieldInfoStack, valueStack, "IN_ARRAY")
      BY <2>3 DEF IInv, Inv, Typed, Opened, IsNested
    <3>2. PICK path \in Paths : path = Append(TopValue, size)
      BY <2>4, <2>7, AppendPath DEF ChildChanged
    <3>3. Located(fieldInfoStack, Append(valueStack, path), "IN_COMPOUND")
      BY <2>4, <3>1, LocatedPushElement DEF TopField
    <3> QED
      BY <2>3, <3>2, <3>3
  <2> QED
    BY <1>0, <2>3, <2>7, <2>8, <2>9, Enters
<1> QED
  BY <1>1, <1>2

\* A number is a value, and what a caller passes is one.
LEMMA NumIsPlain ==
    ASSUME NEW cpp, cpp[1] \in {"INT", "UINT"} \/ cpp \in {<<"FLOAT", 0>>, <<"DOUBLE", 0>>}, NEW n
    PROVE  IsPlainValue(Num(cpp, n))
<1>1. cpp # <<"STRUCT", 0>> /\ cpp # <<"CHOICE", 0>> /\ cpp # <<"UNION", 0>> /\ cpp # <<"ENUM", 0>>
  OBVIOUS
<1>2. cpp \notin Compounds \union {<<"ENUM", 0>>}
  BY <1>1 DEF Compounds, Simple
<1>3. Num(cpp, n).kind = cpp /\ "at" \notin DOMAIN Num(cpp, n)
  BY DEF Num
<1> QED
  BY <1>2, <1>3 DEF IsPlainValue

LEMMA PassedIsPlain == ASSUME NEW value \in Values PROVE IsPlainValue(value) /\ value.kind # <<"ENUM", 0>>
<1>1. value.kind \notin Compounds /\ value.kind \notin Simple({"ENUM"}) /\ "at" \notin DOMAIN value
  BY ValuesAssumption
<1>2. <<"ENUM", 0>> \in Simple({"ENUM"})
  BY DEF Simple
<1> QED
  BY <1>1, <1>2 DEF IsPlainValue

LEMMA IntegralIsPlain ==
    ASSUME NEW target, target[1] \in {"INT", "UINT"}, NEW value, makeAnyIntegralValue(target, value) # Thrown
    PROVE  IsPlainValue(makeAnyIntegralValue(target, value))
BY NumIsPlain DEF makeAnyIntegralValue

\* The underlying type of an enumeration or a bitmask is an integer.
LEMMA UnderlyingIsInt ==
    ASSUME NEW type \in DOMAIN Types, Cpp(type) \in {<<"ENUM", 0>>, <<"BITMASK", 0>>}
    PROVE  Cpp(Types[type].getUnderlyingType)[1] \in {"INT", "UINT"}
<1>1. Cpp(type) \in Simple({"ENUM", "BITMASK"})
  BY DEF Simple
<1>2. Cpp(Types[type].getUnderlyingType) \in {"INT", "UINT"} \X StdWidths
  BY <1>1, TypesAssumption
<1> QED
  BY <1>2

LEMMA OfUnderlyingIsPlain ==
    ASSUME NEW type \in DOMAIN Types, Cpp(type) \in {<<"ENUM", 0>>, <<"BITMASK", 0>>}, NEW value,
           makeAnyIntegralValue(Cpp(Types[type].getUnderlyingType), value) # Thrown
    PROVE  IsPlainValue(makeAnyIntegralValue(Cpp(Types[type].getUnderlyingType), value))
<1>1. PICK target : target = Cpp(Types[type].getUnderlyingType)
  OBVIOUS
<1>2. target[1] \in {"INT", "UINT"}
  BY <1>1, UnderlyingIsInt
<1> QED
  BY <1>1, <1>2, IntegralIsPlain

LEMMA UnderlyingIsPlain ==
    ASSUME NEW type \in DOMAIN Types, Cpp(type) \in {<<"ENUM", 0>>, <<"BITMASK", 0>>}, NEW n,
           makeUnderlying(type, n) # Thrown
    PROVE  IsPlainValue(makeUnderlying(type, n))
BY OfUnderlyingIsPlain DEF makeUnderlying

\* Whatever it is made for, a value that is made has a built-in type or is a bitmask.
LEMMA ValueMade ==
    ASSUME NEW type \in DOMAIN Types, NEW value \in Values, makeAnyValue(type, value) # Thrown
    PROVE  IsPlainValue(makeAnyValue(type, value))
<1>1. IsPlainValue(value) /\ value.kind # <<"ENUM", 0>>
  BY PassedIsPlain
<1>2. PICK cpp : cpp = Cpp(type)
  OBVIOUS
<1>3. PICK any : any = makeAnyValue(type, value)
  OBVIOUS
<1>4. CASE cpp = <<"BOOL", 0>>
  <2>1. any = makeAnyBoolValue(value)
    BY <1>2, <1>3, <1>4 DEF makeAnyValue, IsInt
  <2> QED
    BY <1>1, <1>3, <2>1 DEF makeAnyBoolValue
<1>5. CASE IsInt(cpp)
  <2>1. any = makeAnyIntegralValue(cpp, value)
    BY <1>2, <1>3, <1>5 DEF makeAnyValue, IsInt
  <2> QED
    BY <1>3, <1>5, <2>1, IntegralIsPlain DEF IsInt
<1>6. CASE cpp \in {<<"FLOAT", 0>>, <<"DOUBLE", 0>>}
  <2>1. any = makeAnyFloatingValue(cpp, value)
    BY <1>2, <1>3, <1>6 DEF makeAnyValue, IsInt
  <2> QED
    BY <1>3, <1>6, <2>1, NumIsPlain DEF makeAnyFloatingValue
<1>7. CASE cpp = <<"STRING", 0>>
  <2>1. any = makeAnyStringValue(value)
    BY <1>2, <1>3, <1>7 DEF makeAnyValue, IsInt
  <2> QED
    BY <1>1, <1>3, <2>1 DEF makeAnyStringValue
<1>8. CASE cpp = <<"ENUM", 0>>
  <2>1. any = makeAnyEnumValue(type, value)
    BY <1>2, <1>3, <1>8 DEF makeAnyValue, IsInt
  <2>2. CASE value.kind = <<"STRING", 0>>
    <3>1. any = parseEnumStringValue(type, value.str)
      BY <1>1, <1>3, <2>1, <2>2 DEF makeAnyEnumValue
    <3>2. PICK n : any = makeUnderlying(type, n)
      BY <1>3, <3>1 DEF parseEnumStringValue
    <3> QED
      BY <1>2, <1>3, <1>8, <3>2, UnderlyingIsPlain
  <2>3. CASE value.kind # <<"STRING", 0>>
    <3>1. any = makeAnyIntegralValue(Cpp(Types[type].getUnderlyingType), value)
      BY <1>1, <2>1, <2>3 DEF makeAnyEnumValue
    <3> QED
      BY <1>2, <1>3, <1>8, <3>1, OfUnderlyingIsPlain
  <2> QED
    BY <2>2, <2>3
<1>9. CASE cpp = <<"BITMASK", 0>>
  <2>1. any = makeAnyBitmaskValue(type, value)
    BY <1>2, <1>3, <1>9 DEF makeAnyValue, IsInt
  <2>2. CASE value.kind = <<"STRING", 0>>
    <3>1. PICK n : any = makeUnderlying(type, n)
      <4>1. CASE value.str # <<>> /\ IsWord(value.str[1])
        <5>1. \/ any = parseBitmaskStringValue(type, value.str)
              \/ any = parseBitmaskNumericStringValue(type, value.str)
          BY <1>3, <2>1, <2>2, <4>1 DEF makeAnyBitmaskValue
        <5> QED
          BY <1>3, <5>1 DEF parseBitmaskStringValue, parseBitmaskNumericStringValue
      <4>2. CASE ~(value.str # <<>> /\ IsWord(value.str[1]))
        <5>1. any = parseBitmaskNumericStringValue(type, value.str)
          BY <1>3, <2>1, <2>2, <4>2 DEF makeAnyBitmaskValue
        <5> QED
          BY <5>1 DEF parseBitmaskNumericStringValue
      <4> QED
        BY <4>1, <4>2
    <3> QED
      BY <1>2, <1>3, <1>9, <3>1, UnderlyingIsPlain
  <2>3. CASE value.kind = <<"BITMASK", 0>>
    <3>1. any = value
      BY <2>1, <2>3 DEF makeAnyBitmaskValue
    <3> QED
      BY <1>1, <1>3, <3>1
  <2>4. CASE value.kind # <<"STRING", 0>> /\ value.kind # <<"BITMASK", 0>>
    <3>1. any = makeAnyIntegralValue(Cpp(Types[type].getUnderlyingType), value)
      BY <2>1, <2>4 DEF makeAnyBitmaskValue
    <3> QED
      BY <1>2, <1>3, <1>9, <3>1, OfUnderlyingIsPlain
  <2> QED
    BY <2>2, <2>3, <2>4
<1>10. CASE ~(\/ cpp \in {<<"BOOL", 0>>, <<"FLOAT", 0>>, <<"DOUBLE", 0>>, <<"STRING", 0>>}
              \/ cpp \in {<<"ENUM", 0>>, <<"BITMASK", 0>>} \/ IsInt(cpp))
  <2>1. any = value
    BY <1>2, <1>3, <1>10 DEF makeAnyValue
  <2> QED
    BY <1>1, <1>3, <2>1
<1> QED
  BY <1>4, <1>5, <1>6, <1>7, <1>8, <1>9, <1>10

\* A value that a field was set to, or that it was created with.
LEMMA SelectedBuilds ==
    ASSUME IInv, Inv', state = "IN_COMPOUND", UNCHANGED <<state, fieldInfoStack, valueStack>>, outcome' = Ok,
           NEW name \in FieldNames(getTypeInfo), NEW new, tree' = Put(tree, TopValue, new),
           \E value : new = Select(TopNode, name, value) /\ Sound(PlaceBelow(TopPlace, name), value)
    PROVE  IInv' /\ BuilderSteps
<1>1. PICK value : new = Select(TopNode, name, value) /\ Sound(PlaceBelow(TopPlace, name), value)
  OBVIOUS
<1>2. Sound(TopPlace, new) /\ ChildChanged(TopNode, new, name)
  BY <1>1, SelectChanges
<1> QED
  BY <1>2, Changes

LEMMA SetValueBuilds ==
    ASSUME IInv, NEW name \in Names, NEW value \in Values, setValue(name, value)
    PROVE  IInv' /\ BuilderSteps
<1>0. Inv'
  BY SetValueInv DEF IInv
<1> DEFINE Accepted == /\ state = "IN_COMPOUND" /\ Finds(name) /\ ~findFieldInfo(name).isArray
                       /\ Set(name, value) # Thrown
<1>1. CASE ~Accepted
  BY <1>1, Refused DEF setValue
<1>2. CASE Accepted
  <2>1. PICK f, any : f = findFieldInfo(name) /\ any = makeAnyValue(f.typeInfo, value)
    OBVIOUS
  <2>2. PICK new : new = Set(name, value)
    OBVIOUS
  <2>3. /\ any # Thrown /\ new = setField(getTypeInfo, TopNode, name, any) /\ new # Thrown
    BY <1>2, <2>1, <2>2 DEF Set
  <2>4. /\ UNCHANGED <<state, fieldInfoStack, valueStack>> /\ outcome' = Ok /\ state = "IN_COMPOUND"
        /\ tree' = Put(tree, TopValue, new)
    BY <1>2, <2>2 DEF setValue
  <2>5. name \in FieldNames(getTypeInfo) /\ f.typeInfo \in DOMAIN Types
    BY <1>2, <2>1, FieldOnTop DEF FieldInfos
  <2>6. IsPlainValue(any)
    BY <2>1, <2>3, <2>5, ValueMade
  <2>7. Sound(TopPlace, TopNode) /\ IsObject(TopPlace, TopNode) /\ TopPlace.type = getTypeInfo
    BY <2>4, TopIs
  <2>8. \E v : new = Select(TopNode, name, v) /\ Sound(PlaceBelow(TopPlace, name), v)
    BY <2>3, <2>5, <2>6, <2>7, SetFieldIs
  <2> QED
    BY <1>0, <2>4, <2>5, <2>8, SelectedBuilds
<1> QED
  BY <1>1, <1>2

LEMMA NullIsPlain == IsPlainValue(Null)
<1>1. NullKind \notin Compounds \union {<<"ENUM", 0>>}
  BY DEF NullKind, Compounds, Simple
<1> QED
  BY <1>1 DEF IsPlainValue, Null

LEMMA SetNullValueBuilds ==
    ASSUME IInv, NEW name \in Names, setNullValue(name)
    PROVE  IInv' /\ BuilderSteps
<1>0. Inv'
  BY SetNullValueInv DEF IInv
<1> DEFINE Accepted == state = "IN_COMPOUND" /\ Finds(name) /\ SetNull(name) # Thrown
<1>1. CASE ~Accepted
  BY <1>1, Refused DEF setNullValue
<1>2. CASE Accepted
  <2>1. PICK f : f = findFieldInfo(name)
    OBVIOUS
  <2>2. PICK new : new = SetNull(name)
    OBVIOUS
  <2>3. /\ UNCHANGED <<state, fieldInfoStack, valueStack>> /\ outcome' = Ok /\ state = "IN_COMPOUND"
        /\ tree' = Put(tree, TopValue, new) /\ new # Thrown
    BY <1>2, <2>2 DEF setNullValue
  <2>4. name \in FieldNames(getTypeInfo) /\ f = FieldOf(getTypeInfo, name)
    BY <1>2, <2>1, FieldOnTop
  <2>5. Sound(TopPlace, TopNode) /\ IsObject(TopPlace, TopNode) /\ TopPlace.type = getTypeInfo
    BY <2>3, TopIs
  <2>6. \E v : new = Select(TopNode, name, v) /\ Sound(PlaceBelow(TopPlace, name), v)
    <3>1. CASE f.isOptional
      <4>1. new = setField(getTypeInfo, TopNode, name, Null)
        BY <2>1, <2>2, <3>1 DEF SetNull
      <4> QED
        BY <2>3, <2>4, <2>5, <4>1, NullIsPlain, SetFieldIs
    <3>2. CASE ~f.isOptional
      <4>1. new = createField(getTypeInfo, TopNode, name)
        BY <2>1, <2>2, <3>2 DEF SetNull
      <4>2. PICK v : v = DefaultOf(f)
        OBVIOUS
      <4>3. new = Select(TopNode, name, v) /\ Sound(PlaceBelow(TopPlace, name), v)
        BY <2>4, <2>5, <4>1, <4>2, CreateFieldIs
      <4> QED
        BY <4>3
    <3> QED
      BY <3>1, <3>2
  <2> QED
    BY <1>0, <2>3, <2>4, <2>6, SelectedBuilds
<1> QED
  BY <1>1, <1>2

LEMMA AddValueElementBuilds ==
    ASSUME IInv, NEW value \in Values, addValueElement(value)
    PROVE  IInv' /\ BuilderSteps
<1>0. Inv'
  BY AddValueElementInv DEF IInv
<1>1. CASE ~(state = "IN_ARRAY" /\ AppendTo(value) # Thrown)
  BY <1>1, Refused DEF addValueElement
<1>2. CASE state = "IN_ARRAY" /\ AppendTo(value) # Thrown
  <2>1. PICK any : any = makeAnyValue(TopField.typeInfo, value)
    OBVIOUS
  <2>2. PICK new : new = AppendTo(value)
    OBVIOUS
  <2>3. any # Thrown /\ new = append(TopField.typeInfo, TopNode, any) /\ new # Thrown
    BY <1>2, <2>1, <2>2 DEF AppendTo
  <2>4. /\ UNCHANGED <<state, fieldInfoStack, valueStack>> /\ outcome' = Ok /\ state = "IN_ARRAY"
        /\ tree' = Put(tree, TopValue, new)
    BY <1>2, <2>2 DEF addValueElement
  <2>5. /\ Sound(TopPlace, TopNode) /\ IsArray(TopPlace, TopNode) /\ fieldInfoStack # <<>>
        /\ TopPlace.type = TopField.typeInfo /\ TopField.typeInfo \in DOMAIN Types
    BY <2>4, TopIs DEF getTypeInfo, Places
  <2>6. IsPlainValue(any)
    BY <2>1, <2>3, <2>5, ValueMade
  <2>7. PICK v : new = [TopNode EXCEPT !.at = Append(TopNode.at, v)] /\ Sound(ElementPlace(TopPlace), v)
    BY <2>3, <2>5, <2>6, AppendIs
  <2>8. PICK key : key = Len(TopNode.at) + 1
    OBVIOUS
  <2>9. Sound(TopPlace, new) /\ ChildChanged(TopNode, new, key)
    BY <2>4, <2>7, <2>8, GrowthChanges
  <2> QED
    BY <1>0, <2>4, <2>9, Changes
<1> QED
  BY <1>1, <1>2
-----------------------------------------------------------------------------
LEMMA InitBuilds == Init => IInv /\ Builder!Init
<1> SUFFICES ASSUME Init PROVE IInv /\ Builder!Init
  OBVIOUS
<1>1. IInv
  BY InitInv DEF Init, IInv, Ok
<1>2. Builder!Init
  BY SameTrees DEF Init, Builder!Init
<1> QED
  BY <1>1, <1>2

\* Every pointer on valueStack is a prefix of the one on top.
LEMMA OpenedTop == IInv => TopIsOfTheType
<1> SUFFICES ASSUME IInv, state # "BEFORE_ROOT"
             PROVE  /\ \A i \in DOMAIN valueStack :
                          Len(valueStack[i]) = i - 1 /\ IsPrefix(valueStack[i], TopValue)
                    /\ Exists(tree, TopValue)
                    /\ PlaceAt(RootType, TopValue).type = getTypeInfo
                    /\ PlaceAt(RootType, TopValue).isArray = (state = "IN_ARRAY")
  BY DEF TopIsOfTheType
<1>1. Opened /\ TopValue \in Paths
  BY TopIs DEF IInv
<1>2. ASSUME NEW i \in DOMAIN valueStack
      PROVE  Len(valueStack[i]) = i - 1 /\ IsPrefix(valueStack[i], TopValue)
  <2>1. valueStack \in Seq(Paths) /\ Len(TopValue) = Len(valueStack) - 1
    BY <1>1 DEF Opened, IsNested, TopValue
  <2>2. i \in 1..Len(valueStack) /\ i - 1 \in 0..Len(TopValue)
    BY <2>1
  <2>3. valueStack[i] = SubSeq(TopValue, 1, i - 1)
    BY <1>1, <2>2 DEF Opened, IsNested, TopValue
  <2>4. PICK path : path = valueStack[i]
    OBVIOUS
  <2>5. path = [j \in 1..(i - 1) |-> TopValue[j]] /\ Len(path) = i - 1
    BY <1>1, <2>2, <2>3, <2>4 DEF Paths
  <2>6. SubSeq(path, 1, Len(path)) = path
    <3>1. path \in Paths
      BY <2>1, <2>2, <2>4, ElementOfSeq
    <3> QED
      BY <3>1 DEF Paths
  <2>7. Len(path) <= Len(TopValue)
    BY <2>2, <2>5
  <2>8. IsPrefix(path, TopValue)
    BY <2>3, <2>4, <2>5, <2>6, <2>7 DEF IsPrefix
  <2> QED
    BY <2>4, <2>5, <2>8
<1>3. Exists(tree, TopValue)
  BY <1>1 DEF Opened
<1>4. TopPlace.type = getTypeInfo /\ TopPlace.isArray = (state = "IN_ARRAY")
  BY TopIs
<1> QED
  BY <1>2, <1>3, <1>4 DEF TopPlace

LEMMA SoundObjectFits == IInv => ObjectFits
<1> SUFFICES ASSUME IInv PROVE ObjectFits
  OBVIOUS
<1>1. tree # Null => Fits(RootType, tree)
  BY SoundFits DEF IInv, Opened
<1>2. outcome.result = "returned" => Fits(RootType, outcome.object)
  BY SoundFits DEF IInv
<1> QED
  BY <1>1, <1>2 DEF ObjectFits

-----------------------------------------------------------------------------
\* What is in front of something that exists exists.
LEMMA ExistsInFront ==
    ASSUME NEW object, NEW path \in Paths, Exists(object, path), NEW n \in 0..Len(path)
    PROVE  Exists(object, SubSeq(path, 1, n))
<1>1. PICK front : front = SubSeq(path, 1, n)
  OBVIOUS
<1>2. Len(path) \in Nat /\ n \in Nat /\ n <= Len(path)
  BY DEF Paths
<1>3. front = [i \in 1..n |-> path[i]] /\ Len(front) = n /\ front \in Paths
  <2>1. \A i \in 1..n : path[i] \in Keys
    BY <1>2, ElementOfSeq DEF Paths
  <2>2. front = [i \in 1..n |-> path[i]]
    BY <1>1, <1>2 DEF Paths
  <2> QED
    BY <1>2, <2>1, <2>2 DEF Paths
<1>4. ASSUME NEW i \in 1..n
      PROVE  SubSeq(front, 1, i - 1) = SubSeq(path, 1, i - 1) /\ front[i] = path[i] /\ i \in 1..Len(path)
  <2>1. SubSeq(front, 1, i - 1) = [j \in 1..(i - 1) |-> front[j]]
    BY <1>2, <1>3 DEF Paths
  <2>2. SubSeq(path, 1, i - 1) = [j \in 1..(i - 1) |-> path[j]]
    BY <1>2 DEF Paths
  <2>3. \A j \in 1..(i - 1) : front[j] = path[j]
    BY <1>2, <1>3
  <2> QED
    BY <1>2, <1>3, <2>1, <2>2, <2>3
<1>5. Exists(object, front)
  <2> SUFFICES ASSUME NEW i \in 1..n
               PROVE  /\ "at" \in DOMAIN Get(object, SubSeq(front, 1, i - 1))
                      /\ front[i] \in DOMAIN Get(object, SubSeq(front, 1, i - 1)).at
    BY <1>3, Zenon DEF Exists
  <2>1. /\ "at" \in DOMAIN Get(object, SubSeq(path, 1, i - 1))
        /\ path[i] \in DOMAIN Get(object, SubSeq(path, 1, i - 1)).at
    BY <1>4, Zenon DEF Exists
  <2> QED
    BY <1>4, <2>1
<1> QED
  BY <1>1, <1>5

LEMMA OpenedTypes == IInv => TypeOK
<1> SUFFICES ASSUME IInv PROVE TypeOK
  OBVIOUS
<1>1. state \in CreatorState /\ fieldInfoStack \in Seq(FieldInfos) /\ Inv
  BY DEF IInv, Inv, Typed
<1>2. ASSUME NEW i \in DOMAIN fieldInfoStack PROVE fieldInfoStack[i].typeInfo \in DOMAIN Types
  <2>1. fieldInfoStack[i] \in FieldInfos
    BY <1>1
  <2> QED
    BY <2>1 DEF FieldInfos
<1>3. PICK arrays : arrays = Cardinality(Arrays(fieldInfoStack))
  OBVIOUS
<1>4. arrays \in Nat /\ arrays <= Len(fieldInfoStack) /\ Len(fieldInfoStack) \in Nat
  <2>1. Arrays(fieldInfoStack) \subseteq 1..Len(fieldInfoStack)
    BY <1>1 DEF Arrays
  <2>2. IsFiniteSet(1..Len(fieldInfoStack)) /\ Cardinality(1..Len(fieldInfoStack)) = Len(fieldInfoStack)
    <3>1. Len(fieldInfoStack) \in Nat
      BY <1>1
    <3> DEFINE n == Len(fieldInfoStack)
    <3>2. 1 \in Int /\ n \in Int /\ n - 1 + 1 = n /\ (1 > n => n = 0)
      BY <3>1
    <3> HIDE DEF n
    <3>3. IsFiniteSet(1..n) /\ Cardinality(1..n) = (IF 1 > n THEN 0 ELSE n - 1 + 1)
      BY <3>2, FS_Interval
    <3>4. Cardinality(1..n) = n
      BY <3>2, <3>3
    <3> QED
      BY <3>3, <3>4 DEF n
  <2>3. arrays <= Cardinality(1..Len(fieldInfoStack))
    BY <1>3, <2>1, <2>2, FS_Subset
  <2> QED
    BY <1>1, <1>3, <2>2, <2>3, ArraysFinite
<1>5. Len(valueStack) <= 2 * Len(fieldInfoStack) + 1
  <2>1. CASE state = "BEFORE_ROOT"
    <3>1. Len(valueStack) = 0
      BY <1>1, <2>1 DEF Inv, Aligned
    <3> QED
      BY <1>4, <3>1
  <2>2. CASE state # "BEFORE_ROOT"
    <3>1. \/ Len(valueStack) = 1 + Len(fieldInfoStack) + arrays
          \/ Len(valueStack) = Len(fieldInfoStack) + arrays
      BY <1>1, <1>3, <2>2, OpenArraysIs DEF Inv, Aligned, CreatorState
    <3> QED
      BY <1>4, <3>1
  <2> QED
    BY <2>1, <2>2
<1>6. ASSUME NEW i \in DOMAIN valueStack PROVE Exists(tree, valueStack[i])
  <2>1. state # "BEFORE_ROOT"
    BY <1>1 DEF Inv, Aligned
  <2>2. Opened /\ TopValue \in Paths
    BY <2>1, TopIs DEF IInv
  <2>3. i \in 1..Len(valueStack) /\ i - 1 \in 0..Len(TopValue)
    BY <2>2 DEF Opened, IsNested, TopValue
  <2>4. valueStack[i] = SubSeq(TopValue, 1, i - 1)
    BY <2>2, <2>3 DEF Opened, IsNested, TopValue
  <2> QED
    BY <2>2, <2>3, <2>4, ExistsInFront DEF Opened
<1> QED
  BY <1>1, <1>2, <1>5, <1>6 DEF TypeOK

-----------------------------------------------------------------------------
(* Memory that is exhausted between two pushes: the stacks are torn, and the *)
(* object is one of the schema still.                                       *)

Spoiled ==
    /\ TypeOK
    /\ Sound(RootPlace(RootType), tree)
    /\ outcome.result # "returned"
    /\ TopIsOfTheType

KeptSound == (torn /\ Spoiled) \/ (~torn /\ IInv)

LEMMA TearsTypes ==
    ASSUME IInv, state = "IN_COMPOUND", NEW f \in FieldInfos, NEW after, Tears(f, after),
           Exists(tree', TopValue)
    PROVE  TypeOK'
<1>1. TypeOK /\ Opened /\ TopValue \in Paths /\ fieldInfoStack \in Seq(FieldInfos)
  BY OpenedTypes, TopIs DEF IInv, Inv, Typed
<1>2. fieldInfoStack' = Append(fieldInfoStack, f) /\ UNCHANGED <<state, valueStack>>
  BY DEF Tears
<1>3. /\ Len(fieldInfoStack') = Len(fieldInfoStack) + 1
      /\ Len(fieldInfoStack) \in Nat /\ fieldInfoStack' \in Seq(FieldInfos)
  BY <1>1, <1>2, AppendProperties
<1>4. Len(valueStack') \in Nat /\ Len(valueStack') <= 2 * Len(fieldInfoStack') + 1
  <2>1. Len(valueStack) \in Nat /\ Len(valueStack) <= 2 * Len(fieldInfoStack) + 1
    BY <1>1 DEF TypeOK, Opened, IsNested
  <2> QED
    BY <1>2, <1>3, <2>1
<1>5. ASSUME NEW i \in DOMAIN fieldInfoStack' PROVE fieldInfoStack'[i].typeInfo \in DOMAIN Types
  <2>1. fieldInfoStack'[i] \in FieldInfos
    BY <1>3
  <2> QED
    BY <2>1 DEF FieldInfos
<1>6. ASSUME NEW i \in DOMAIN valueStack PROVE Exists(tree', valueStack[i])
  <2>1. i \in 1..Len(valueStack) /\ i - 1 \in 0..Len(TopValue) /\ valueStack[i] = SubSeq(TopValue, 1, i - 1)
    BY <1>1 DEF Opened, IsNested, TopValue
  <2> QED
    BY <1>1, <2>1, ExistsInFront
<1>7. state' \in CreatorState
  BY <1>2 DEF CreatorState
<1> QED
  BY <1>2, <1>4, <1>5, <1>6, <1>7 DEF TypeOK

\* What is open is as it was, but for its types.
LEMMA TearsTop ==
    ASSUME IInv, NEW f, NEW after, Tears(f, after), Exists(tree', TopValue)
    PROVE  TopIsOfTheType'
<1>1. UNCHANGED <<state, valueStack>> /\ torn'
  BY DEF Tears
<1>2. TopValue' = TopValue
  BY <1>1 DEF TopValue
<1>3. TopIsOfTheType
  BY OpenedTop
<1> QED
  BY <1>1, <1>2, <1>3 DEF TopIsOfTheType

\* The field is pushed, and the object on top is as it was.
LEMMA TearsBefore ==
    ASSUME IInv, state = "IN_COMPOUND", NEW f \in FieldInfos, NEW after, Tears(f, after), tree' = tree
    PROVE  Spoiled' /\ BuilderSteps
<1>1. Opened /\ Exists(tree', TopValue)
  BY DEF IInv, Opened
<1>2. TypeOK' /\ TopIsOfTheType'
  BY <1>1, TearsTypes, TearsTop
<1>3. UNCHANGED <<state, valueStack>> /\ outcome'.result # "returned"
  BY DEF Tears, ThrownOut
<1>4. TopValue' = TopValue
  BY <1>3 DEF TopValue
<1>5. Spoiled'
  BY <1>1, <1>2, <1>3 DEF Spoiled, Opened
<1>6. UNCHANGED Builder!vars
  BY <1>3, <1>4 DEF Builder!vars
<1> QED
  BY <1>5, <1>6 DEF BuilderSteps

\* The field is pushed, and what it is opened as has been created.
LEMMA TearsBehind ==
    ASSUME IInv, state = "IN_COMPOUND", NEW f \in FieldInfos, NEW after, Tears(f, after),
           NEW new, NEW key, Sound(TopPlace, new), ChildChanged(TopNode, new, key),
           tree' = Put(tree, TopValue, new)
    PROVE  Spoiled' /\ BuilderSteps
<1>1. UNCHANGED <<state, valueStack>> /\ outcome'.result # "returned"
  BY DEF Tears, ThrownOut
<1>2. BuilderSteps /\ Sound(RootPlace(RootType), tree') /\ Exists(tree', TopValue)
  BY <1>1, ChangesBelow
<1>3. TypeOK' /\ TopIsOfTheType'
  BY <1>2, TearsTypes, TearsTop
<1> QED
  BY <1>1, <1>2, <1>3 DEF Spoiled

\* What FieldCreated is of a field that is found.
LEMMA FieldIsCreated ==
    ASSUME IInv, state = "IN_COMPOUND", NEW name, Finds(name)
    PROVE  /\ findFieldInfo(name) \in FieldInfos
           /\ \E new : /\ FieldCreated(name) = Put(tree, TopValue, new)
                       /\ Sound(TopPlace, new) /\ ChildChanged(TopNode, new, name)
<1>1. PICK f : f = findFieldInfo(name)
  OBVIOUS
<1>2. PICK new : new = createField(getTypeInfo, TopNode, name)
  OBVIOUS
<1>3. /\ Sound(TopPlace, TopNode) /\ IsObject(TopPlace, TopNode) /\ TopPlace.type = getTypeInfo
  BY TopIs
<1>4. f \in FieldInfos /\ name \in FieldNames(getTypeInfo) /\ f = FieldOf(getTypeInfo, name)
  <2>1. Inv
    BY DEF IInv
  <2> QED
    BY <1>1, <2>1, TopFieldFound DEF Finds, findFieldInfo
<1>5. new = Select(TopNode, name, DefaultOf(f)) /\ Sound(PlaceBelow(TopPlace, name), DefaultOf(f))
  BY <1>2, <1>3, <1>4, CreateFieldIs
<1>6. Sound(TopPlace, new) /\ ChildChanged(TopNode, new, name)
  BY <1>4, <1>5, SelectChanges
<1>7. FieldCreated(name) = Put(tree, TopValue, new)
  BY <1>2 DEF FieldCreated
<1> QED
  BY <1>1, <1>4, <1>6, <1>7

LEMMA BeginArrayTearsBuilds ==
    ASSUME IInv, NEW name, beginArrayTears(name) PROVE Spoiled' /\ BuilderSteps
<1>1. /\ state = "IN_COMPOUND" /\ Finds(name)
      /\ Tears(findFieldInfo(name), FieldCreated(name))
  BY DEF beginArrayTears, CanBeginArray
<1>2. PICK new : /\ FieldCreated(name) = Put(tree, TopValue, new)
                 /\ Sound(TopPlace, new) /\ ChildChanged(TopNode, new, name)
  BY <1>1, FieldIsCreated
<1>3. findFieldInfo(name) \in FieldInfos
  BY <1>1, FieldIsCreated
<1>4. CASE tree' = tree
  BY <1>1, <1>3, <1>4, TearsBefore
<1>5. CASE tree' = Put(tree, TopValue, new)
  BY <1>1, <1>2, <1>3, <1>5, TearsBehind
<1> QED
  BY <1>1, <1>2, <1>4, <1>5 DEF Tears

LEMMA BeginCompoundTearsBuilds ==
    ASSUME IInv, NEW name, beginCompoundTears(name) PROVE Spoiled' /\ BuilderSteps
<1>1. PICK after : after = IF CreatesCompound(name) THEN FieldCreated(name) ELSE tree
  OBVIOUS
<1>2. state = "IN_COMPOUND" /\ Finds(name) /\ Tears(findFieldInfo(name), after)
  BY <1>1 DEF beginCompoundTears, CanBeginCompound
<1>3. PICK new : /\ FieldCreated(name) = Put(tree, TopValue, new)
                 /\ Sound(TopPlace, new) /\ ChildChanged(TopNode, new, name)
  BY <1>2, FieldIsCreated
<1>4. findFieldInfo(name) \in FieldInfos
  BY <1>2, FieldIsCreated
<1>5. CASE tree' = tree
  BY <1>2, <1>4, <1>5, TearsBefore
<1>6. CASE tree' = Put(tree, TopValue, new)
  BY <1>2, <1>3, <1>4, <1>6, TearsBehind
<1> QED
  BY <1>1, <1>2, <1>3, <1>5, <1>6 DEF Tears

\* An element that is in its array and was not opened.
LEMMA ElementStopsBuilds == ASSUME IInv, beginCompoundElementStops PROVE IInv' /\ BuilderSteps
<1>1. PICK size : size = Len(TopNode.at) + 1
  OBVIOUS
<1>2. PICK new : new = resize(TopField.typeInfo, TopNode, size)
  OBVIOUS
<1>3. /\ state = "IN_ARRAY" /\ IsCompound(TopField.typeInfo) /\ outcome' = ThrownOut
      /\ UNCHANGED <<state, fieldInfoStack, valueStack>> /\ tree' = Put(tree, TopValue, new)
  BY <1>1, <1>2 DEF beginCompoundElementStops, CanBeginCompoundElement, Grown, NewSize
<1>4. Inv'
  BY <1>3, StacksKept DEF IInv
<1>5. /\ TopValue \in Paths /\ TopPlace \in Places /\ Sound(TopPlace, TopNode) /\ IsArray(TopPlace, TopNode)
      /\ fieldInfoStack # <<>> /\ TopField.isArray /\ TopPlace.type = TopField.typeInfo
  BY <1>3, TopIs DEF getTypeInfo
<1>6. PICK value : value = Default[TopPlace.type]
  OBVIOUS
<1>7. new = [TopNode EXCEPT !.at = Append(TopNode.at, value)] /\ Sound(ElementPlace(TopPlace), value)
  BY <1>1, <1>2, <1>5, <1>6, ResizeIs
<1>8. Sound(TopPlace, new) /\ ChildChanged(TopNode, new, size)
  BY <1>1, <1>3, <1>7, GrowthChanges
<1> QED
  BY <1>3, <1>4, <1>8, Changes

LEMMA OutOfMemoryBuilds ==
    ASSUME IInv, ~torn, CallOutOfMemory PROVE KeptSound' /\ BuilderSteps
<1>1. CASE Throws
  <2>1. ~torn'
    BY <1>1 DEF Throws
  <2> QED
    BY <1>1, <2>1, Refused DEF KeptSound
<1>2. CASE \E name \in Names : beginArrayTears(name)
  <2>1. torn'
    BY <1>2 DEF beginArrayTears, Tears
  <2>2. Spoiled' /\ BuilderSteps
    BY <1>2, BeginArrayTearsBuilds
  <2> QED
    BY <2>1, <2>2 DEF KeptSound
<1>3. CASE \E name \in Names : beginCompoundTears(name)
  <2>1. torn'
    BY <1>3 DEF beginCompoundTears, Tears
  <2>2. Spoiled' /\ BuilderSteps
    BY <1>3, BeginCompoundTearsBuilds
  <2> QED
    BY <2>1, <2>2 DEF KeptSound
<1>4. CASE beginCompoundElementStops
  <2>1. ~torn'
    BY <1>4 DEF beginCompoundElementStops
  <2> QED
    BY <1>4, <2>1, ElementStopsBuilds DEF KeptSound
<1> QED
  BY <1>1, <1>2, <1>3, <1>4 DEF CallOutOfMemory
-----------------------------------------------------------------------------
LEMMA CallBuilds == IInv /\ CallInMemory => IInv' /\ BuilderSteps
<1> SUFFICES ASSUME IInv, CallInMemory PROVE IInv' /\ BuilderSteps
  OBVIOUS
<1>1. CASE beginRoot
  BY <1>1, BeginRootBuilds
<1>2. CASE endRoot
  BY <1>2, EndRootBuilds
<1>3. CASE \E name \in Names : beginArray(name)
  BY <1>3, BeginArrayBuilds
<1>4. CASE endArray
  BY <1>4, EndArrayBuilds
<1>5. CASE \E name \in Names : beginCompound(name)
  BY <1>5, BeginCompoundBuilds
<1>6. CASE endCompound
  BY <1>6, EndCompoundBuilds
<1>7. CASE \E name \in Names, value \in Values : setValue(name, value)
  BY <1>7, SetValueBuilds
<1>8. CASE \E name \in Names : setNullValue(name)
  BY <1>8, SetNullValueBuilds
<1>9. CASE beginCompoundElement
  BY <1>9, BeginCompoundElementBuilds
<1>10. CASE endCompoundElement
  BY <1>10, EndCompoundElementBuilds
<1>11. CASE \E value \in Values : addValueElement(value)
  BY <1>11, AddValueElementBuilds
<1> QED
  BY <1>1, <1>2, <1>3, <1>4, <1>5, <1>6, <1>7, <1>8, <1>9, <1>10, <1>11 DEF CallInMemory

LEMMA StartsSound == Init => KeptSound /\ Builder!Init
BY InitBuilds DEF Init, KeptSound

\* Nothing has changed.
LEMMA StutterBuilds == ASSUME KeptSound, UNCHANGED vars PROVE KeptSound' /\ BuilderSteps
<1>1. UNCHANGED <<state, fieldInfoStack, valueStack, tree, outcome, torn>>
  BY DEF vars
<1>2. TopValue' = TopValue /\ TopNode' = TopNode /\ Opened' = Opened
  BY <1>1 DEF TopValue, TopNode, Opened
<1>3. UNCHANGED Builder!vars
  BY <1>1, <1>2 DEF Builder!vars
<1>4. CASE torn /\ Spoiled
  <2>1. TypeOK'
    BY <1>1, <1>4 DEF Spoiled, TypeOK
  <2>2. TopIsOfTheType'
    BY <1>1, <1>2, <1>4 DEF Spoiled, TopIsOfTheType
  <2>3. Spoiled'
    BY <1>1, <1>4, <2>1, <2>2 DEF Spoiled
  <2> QED
    BY <1>1, <1>3, <1>4, <2>3 DEF KeptSound, BuilderSteps
<1>5. CASE ~torn /\ IInv
  <2>1. Inv'
    BY <1>1, <1>5, StacksKept DEF IInv
  <2>2. IInv'
    BY <1>1, <1>2, <1>5, <2>1 DEF IInv
  <2> QED
    BY <1>1, <1>3, <1>5, <2>2 DEF KeptSound, BuilderSteps
<1> QED
  BY <1>4, <1>5 DEF KeptSound

LEMMA NextBuilds == KeptSound /\ [Next]_vars => KeptSound' /\ BuilderSteps
<1> SUFFICES ASSUME KeptSound, [Next]_vars PROVE KeptSound' /\ BuilderSteps
  OBVIOUS
<1>1. CASE UNCHANGED vars
  BY <1>1, StutterBuilds
<1>2. CASE Next
  <2>1. ~torn /\ IInv
    BY <1>2 DEF Next, KeptSound
  <2>2. CASE CallInMemory
    BY <2>1, <2>2, CallBuilds, CallKeepsWhole DEF KeptSound
  <2>3. CASE CallOutOfMemory
    BY <2>1, <2>3, OutOfMemoryBuilds
  <2> QED
    BY <1>2, <2>2, <2>3 DEF Next
<1> QED
  BY <1>1, <1>2

LEMMA SpoiledObjectFits == Spoiled => ObjectFits
<1> SUFFICES ASSUME Spoiled PROVE ObjectFits
  OBVIOUS
<1>1. Fits(RootType, tree)
  BY SoundFits DEF Spoiled
<1> QED
  BY <1>1 DEF ObjectFits, Spoiled

\* Whatever calls are made, what is open is part of the object, and what is on top has the type the
\* creator looks names up in, unless memory was exhausted between two pushes: for every schema, and
\* for objects of any depth.
THEOREM TopStaysOfTheType == Spec => []TopIsOfTheType
<1>1. Init => KeptSound
  BY StartsSound
<1>2. KeptSound /\ [Next]_vars => KeptSound'
  BY NextBuilds
<1>3. KeptSound => TopIsOfTheType
  BY OpenedTop DEF KeptSound, Spoiled
<1> QED
  BY <1>1, <1>2, <1>3, PTL DEF Spec

\* After any sequence of calls, refused ones and ones that ran out of memory among them, the
\* half-built object and the one endRoot returns are objects of the schema.
THEOREM ObjectStaysFit == Spec => []ObjectFits
<1>1. Init => KeptSound
  BY StartsSound
<1>2. KeptSound /\ [Next]_vars => KeptSound'
  BY NextBuilds
<1>3. KeptSound => ObjectFits
  BY SoundObjectFits, SpoiledObjectFits DEF KeptSound
<1> QED
  BY <1>1, <1>2, <1>3, PTL DEF Spec

\* The creator implements a cursor in an object: every call changes what is at one key below the
\* cursor, or moves the cursor by one key; a call that is refused changes nothing, and one that runs
\* out of memory does not move the cursor.
THEOREM CreatorImplementsBuilder == Spec => ImplementsBuilder
<1>1. Init => KeptSound /\ Builder!Init
  BY StartsSound
<1>2. KeptSound /\ [Next]_vars => KeptSound'
  BY NextBuilds
<1>3. KeptSound /\ [Next]_vars => [Builder!Next]_(Builder!vars)
  BY NextBuilds DEF BuilderSteps
<1> QED
  BY <1>1, <1>2, <1>3, PTL DEF Spec, ImplementsBuilder, Builder!Spec

\* The type invariant of the creator: everything on valueStack exists in the object, and there are
\* at most two pointers for every open field.
THEOREM CreatorTypes == Spec => []TypeOK
<1>1. Init => KeptSound
  BY StartsSound
<1>2. KeptSound /\ [Next]_vars => KeptSound'
  BY NextBuilds
<1>3. KeptSound => TypeOK
  BY OpenedTypes DEF KeptSound, Spoiled
<1> QED
  BY <1>1, <1>2, <1>3, PTL DEF Spec
===============================================================================
