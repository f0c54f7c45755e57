---------------------------- MODULE OptionalProofs ----------------------------
(***************************************************************************)
(* Proofs about optionals, for any number of them and of allocators, in    *)
(* place and on the heap: every block has one owner (OneOwner), and a call *)
(* does what it says (ImplementsHolder).                                   *)
(***************************************************************************)
EXTENDS Optional, FiniteSetTheorems, WellFoundedInduction, TLAPS

Places == Slots \union {Tmp}

\* A value that is kept, or one that was moved from.
Kept == Values \union {Moved}

\* What an optional holds.
Datum == IF onHeap THEN Blocks \union {Null} ELSE Kept

Objects == [exists : {TRUE}, allocator : Allocators, engaged : BOOLEAN, data : Datum]

Cells == [live : {TRUE}, allocator : Allocators, content : Kept]

Worlds ==
    [objects : [Places -> Objects \union {Nothing}],
     heap : [Blocks -> Cells \union {Free}],
     thrown : BOOLEAN, misused : BOOLEAN]

\* The block an optional owns, or Null.
BlockOf(w, p) == IF onHeap /\ w.objects[p].exists THEN Data(w, p) ELSE Null

\* Each block that is in use has one owner, with the allocator it is from.
Good(w) ==
    /\ w \in Worlds
    /\ ~w.misused
    /\ w.objects[Tmp] = Nothing
    /\ \A p \in Slots : w.objects[p].exists /\ ~w.objects[p].engaged => Data(w, p) = Null
    /\ \A p \in Slots : BlockOf(w, p) # Null =>
          w.heap[BlockOf(w, p)].live /\ w.heap[BlockOf(w, p)].allocator = AllocatorOf(w, p)
    /\ \A p, q \in Slots : BlockOf(w, p) = BlockOf(w, q) /\ BlockOf(w, p) # Null => p = q
    /\ \A b \in Blocks : w.heap[b].live => \E p \in Slots : BlockOf(w, p) = b

\* What is in an optional of a world.
ContentIn(w, p) ==
    CASE ~w.objects[p].exists -> [holds |-> "nothing"]
      [] w.objects[p].exists /\ ~has_value(w, p) -> NoContent
      [] OTHER -> Value(valueOf(w, p))

\* What is in the optionals but p is the same.
OthersKept(w, v, p) ==
    \A q \in Slots \ {p} : v.objects[q] = w.objects[q] /\ ContentIn(v, q) = ContentIn(w, q)

-------------------------------------------------------------------------------
(* The next block.                                                         *)

\* A set of natural numbers that is not empty has a least element.
LEMMA LeastNatural ==
  ASSUME NEW T, T \subseteq Nat, T # {}
  PROVE  \E n \in T : \A m \in T : ~(m < n)
<1> DEFINE R == OpToRel(<, Nat)
<1>1. IsWellFoundedOn(R, Nat)
  BY NatLessThanWellFounded
<1>2. \A i, j \in Nat : i < j => <<i, j>> \in R
  BY DEF OpToRel
<1> HIDE DEF R
<1>3. \E x \in T : \A y \in T : ~(<<y, x>> \in R)
  BY ONLY T \subseteq Nat, T # {}, <1>1, WFMin, Zenon
<1> QED
  BY <1>2, <1>3

\* There is a block that is free as long as an optional owns none.
LEMMA NextBlockIsFree ==
  ASSUME HolderAssumption, NEW w, Good(w)
  PROVE  NextBlock(w) \in Blocks /\ NextBlock(w) # Null /\ ~w.heap[NextBlock(w)].live
<1> DEFINE T == {b \in Blocks : ~w.heap[b].live}
<1>1. T # {}
  <2> SUFFICES ASSUME \A b \in Blocks : w.heap[b].live PROVE FALSE
    OBVIOUS
  <2> DEFINE owner == [b \in Blocks |-> CHOOSE p \in Slots : BlockOf(w, p) = b]
  <2>1. \A b \in Blocks : owner[b] \in Slots /\ BlockOf(w, owner[b]) = b
    BY DEF Good
  <2>2. owner \in [Blocks -> Slots]
    BY <2>1
  <2>3. Cardinality(Slots) < Cardinality(Blocks)
    BY FS_CardinalityType DEF HolderAssumption
  <2> HIDE DEF owner
  <2>4. \E b, c \in Blocks : b # c /\ owner[b] = owner[c]
    BY <2>2, <2>3, FS_PigeonHole DEF HolderAssumption
  <2> QED
    BY <2>1, <2>4
<1>2. PICK b \in T : \A c \in T : ~(c < b)
  <2>1. T \subseteq Nat
    BY DEF HolderAssumption
  <2> HIDE DEF T
  <2> QED
    BY <1>1, <2>1, LeastNatural
<1>3. b \in Blocks /\ ~w.heap[b].live /\ \A c \in Blocks : c < b => w.heap[c].live
  BY <1>2
<1>4. NextBlock(w) \in Blocks /\ ~w.heap[NextBlock(w)].live
  BY <1>3 DEF NextBlock
<1> QED
  BY <1>4 DEF HolderAssumption

-------------------------------------------------------------------------------
(* What the functions of an optional do.                                   *)

\* What is at a place and in a block.
LEMMA WorldFields ==
  ASSUME HolderAssumption, NEW w, w \in Worlds
  PROVE  /\ \A p \in Slots : p \in Places /\ p # Tmp
         /\ \A p \in Slots : w.objects[p].exists => w.objects[p] \in Objects
         /\ \A p \in Slots : ~w.objects[p].exists => w.objects[p] = Nothing
         /\ \A p \in Slots : BlockOf(w, p) \in Blocks \union {Null}
         /\ \A b \in Blocks : w.heap[b].live => w.heap[b] \in Cells
         /\ \A b \in Blocks : ~w.heap[b].live => w.heap[b] = Free
<1>1. /\ w.heap \in [Blocks -> Cells \union {Free}]
      /\ w.objects \in [Places -> Objects \union {Nothing}]
  BY DEF Worlds
<1>2. \A p \in Slots : p \in Places /\ p # Tmp
  BY DEF HolderAssumption, Places
<1>3. \A p \in Slots : w.objects[p] \in Objects \/ w.objects[p] = Nothing
  BY <1>1, <1>2
<1>4. ~Nothing.exists /\ \A object \in Objects : object.exists /\ object.data \in Datum
  BY DEF Nothing, Objects
<1>5. ~Free.live /\ \A cell \in Cells : cell.live
  BY DEF Free, Cells
<1>6. \A b \in Blocks : w.heap[b] \in Cells \/ w.heap[b] = Free
  BY <1>1
<1>7. \A p \in Slots : BlockOf(w, p) \in Blocks \union {Null}
  BY <1>3, <1>4 DEF BlockOf, Data, Datum
<1> QED
  BY <1>2, <1>3, <1>4, <1>5, <1>6, <1>7

\* An optional is replaced, with its block: the one it had before is free, and the one it has is
\* from its allocator and was nobody else's.
LEMMA Replaced ==
  ASSUME HolderAssumption, NEW w, Good(w), NEW p \in Slots, NEW v \in Worlds, ~v.misused,
         v.objects[Tmp] = Nothing,
         \A q \in Slots \ {p} : v.objects[q] = w.objects[q],
         v.objects[p].exists /\ ~v.objects[p].engaged => Data(v, p) = Null,
         \A b \in Blocks : b # BlockOf(w, p) /\ b # BlockOf(v, p) => v.heap[b] = w.heap[b],
         BlockOf(v, p) # Null =>
            /\ v.heap[BlockOf(v, p)].live /\ v.heap[BlockOf(v, p)].allocator = AllocatorOf(v, p)
            /\ BlockOf(v, p) = BlockOf(w, p) \/ ~w.heap[BlockOf(v, p)].live,
         BlockOf(w, p) # Null /\ BlockOf(w, p) # BlockOf(v, p) => ~v.heap[BlockOf(w, p)].live
  PROVE  Good(v) /\ OthersKept(w, v, p)
<1>1. \A q \in Slots \ {p} : BlockOf(v, q) = BlockOf(w, q)
  BY DEF BlockOf, Data
<1>2. \A q \in Slots : BlockOf(w, q) \in Blocks \union {Null}
  BY WorldFields DEF Good
<1>3. \A q \in Slots : v.objects[q].exists /\ ~v.objects[q].engaged => Data(v, q) = Null
  BY DEF Good, Data
<1>4. ASSUME NEW q \in Slots \ {p}, BlockOf(w, q) # Null
      PROVE  BlockOf(w, q) # BlockOf(v, p) /\ v.heap[BlockOf(w, q)] = w.heap[BlockOf(w, q)]
  <2>1. BlockOf(w, q) \in Blocks /\ w.heap[BlockOf(w, q)].live /\ BlockOf(w, q) # BlockOf(w, p)
    BY <1>2, <1>4 DEF Good
  <2>2. BlockOf(w, q) # BlockOf(v, p)
    BY <1>4, <2>1
  <2> QED
    BY <2>1, <2>2
<1>5. ASSUME NEW q \in Slots, BlockOf(v, q) # Null
      PROVE  v.heap[BlockOf(v, q)].live /\ v.heap[BlockOf(v, q)].allocator = AllocatorOf(v, q)
  <2>1. CASE q = p
    BY <1>5, <2>1
  <2>2. CASE q # p
    <3>1. w.heap[BlockOf(w, q)].live /\ w.heap[BlockOf(w, q)].allocator = AllocatorOf(w, q)
      BY <1>1, <1>5, <2>2 DEF Good
    <3>2. AllocatorOf(v, q) = AllocatorOf(w, q)
      BY <2>2 DEF AllocatorOf
    <3> QED
      BY <1>1, <1>4, <1>5, <2>2, <3>1, <3>2
  <2> QED
    BY <2>1, <2>2
<1>6. \A q, r \in Slots : BlockOf(v, q) = BlockOf(v, r) /\ BlockOf(v, q) # Null => q = r
  <2>1. \A q, r \in Slots : BlockOf(w, q) = BlockOf(w, r) /\ BlockOf(w, q) # Null => q = r
    BY DEF Good
  <2>2. \A q \in Slots \ {p} : BlockOf(v, q) # Null => BlockOf(v, q) # BlockOf(v, p)
    BY <1>1, <1>4
  <2> QED
    BY <1>1, <2>1, <2>2
<1>7. ASSUME NEW b \in Blocks, v.heap[b].live PROVE \E q \in Slots : BlockOf(v, q) = b
  <2>1. CASE b = BlockOf(v, p)
    BY <2>1
  <2>2. CASE b # BlockOf(v, p)
    <3>1. b # BlockOf(w, p)
      BY <1>7, <2>2 DEF HolderAssumption
    <3>2. w.heap[b].live
      BY <1>7, <2>2, <3>1
    <3> QED
      BY <1>1, <3>1, <3>2 DEF Good
  <2> QED
    BY <2>1, <2>2
<1>8. Good(v)
  BY <1>3, <1>5, <1>6, <1>7 DEF Good
<1>9. ASSUME NEW q \in Slots \ {p} PROVE ContentIn(v, q) = ContentIn(w, q)
  <2>1. v.objects[q] = w.objects[q] /\ (has_value(v, q) <=> has_value(w, q)) /\ Data(v, q) = Data(w, q)
    BY DEF has_value, Data
  <2>2. w.objects[q].exists /\ has_value(w, q) => valueOf(v, q) = valueOf(w, q)
    BY <1>4, <2>1 DEF valueOf, has_value, BlockOf
  <2> QED
    BY <2>1, <2>2 DEF ContentIn
<1> QED
  BY <1>8, <1>9 DEF OthersKept

\* A block that its owner returns is free, and one that is allocated has what it is for.
LEMMA HeapOperations ==
  ASSUME HolderAssumption, NEW w, Good(w), NEW b \in Blocks, NEW allocator \in Allocators, NEW value \in Kept
  PROVE  /\ w.heap[b].live /\ w.heap[b].allocator = allocator =>
                LET v == deallocate(w, b, allocator) IN
                /\ v \in Worlds /\ ~v.misused /\ v.objects = w.objects /\ v.thrown = w.thrown
                /\ ~v.heap[b].live /\ \A c \in Blocks \ {b} : v.heap[c] = w.heap[c]
         /\ b = NextBlock(w) =>
                LET v == allocate(w, allocator, value) IN
                /\ v \in Worlds /\ ~v.misused /\ v.objects = w.objects /\ v.thrown = w.thrown
                /\ v.heap[b] = Block(allocator, value) /\ \A c \in Blocks \ {b} : v.heap[c] = w.heap[c]
<1>1. ASSUME w.heap[b].live, w.heap[b].allocator = allocator
      PROVE  LET v == deallocate(w, b, allocator) IN
             /\ v \in Worlds /\ ~v.misused /\ v.objects = w.objects /\ v.thrown = w.thrown
             /\ ~v.heap[b].live /\ \A c \in Blocks \ {b} : v.heap[c] = w.heap[c]
  <2> DEFINE misused == w.misused \/ ~w.heap[b].live \/ w.heap[b].allocator # allocator
  <2>1. misused = FALSE
    BY <1>1 DEF Good
  <2>2. deallocate(w, b, allocator) = [w EXCEPT !.heap[b] = Free, !.misused = misused]
    BY DEF deallocate
  <2> HIDE DEF misused
  <2>3. deallocate(w, b, allocator) = [w EXCEPT !.heap[b] = Free, !.misused = FALSE]
    BY <2>1, <2>2
  <2>4. w \in Worlds /\ ~Free.live
    BY DEF Good, Free
  <2> DEFINE v == deallocate(w, b, allocator)
             heap == [w.heap EXCEPT ![b] = Free]
  <2>5. heap \in [Blocks -> Cells \union {Free}] /\ heap[b] = Free /\ \A c \in Blocks \ {b} : heap[c] = w.heap[c]
    BY <2>4 DEF Worlds
  <2>6. v = [w EXCEPT !.heap = heap, !.misused = FALSE]
    BY <2>3, <2>4 DEF Worlds
  <2> HIDE DEF v, heap
  <2>7. v \in Worlds /\ ~v.misused /\ v.objects = w.objects /\ v.thrown = w.thrown /\ v.heap = heap
    BY <2>4, <2>5, <2>6 DEF Worlds
  <2> QED
    BY <2>4, <2>5, <2>7 DEF v
<1>2. Block(allocator, value) \in Cells
  BY DEF Block, Cells
<1>3. ASSUME b = NextBlock(w)
      PROVE  LET v == allocate(w, allocator, value) IN
             /\ v \in Worlds /\ ~v.misused /\ v.objects = w.objects /\ v.thrown = w.thrown
             /\ v.heap[b] = Block(allocator, value) /\ \A c \in Blocks \ {b} : v.heap[c] = w.heap[c]
  BY <1>2, <1>3 DEF allocate, Good, Worlds
<1> QED
  BY <1>1, <1>3

\* What is set of an optional.
LEMMA WithDataSets ==
  ASSUME HolderAssumption, NEW w \in Worlds, NEW p \in Slots, w.objects[p].exists, NEW data \in Datum
  PROVE  LET v == WithData(w, p, data) IN
         /\ v \in Worlds /\ v.heap = w.heap /\ v.thrown = w.thrown /\ v.misused = w.misused
         /\ v.objects[p].exists /\ AllocatorOf(v, p) = AllocatorOf(w, p)
         /\ v.objects[p].engaged /\ Data(v, p) = data
         /\ \A q \in Places \ {p} : v.objects[q] = w.objects[q]
<1>1. w.objects[p] \in Objects /\ p \in Places
  BY WorldFields
<1> QED
  BY <1>1 DEF Worlds, Objects, WithData, AllocatorOf, Data

LEMMA ClearChanges ==
  ASSUME HolderAssumption, NEW w, Good(w), NEW p \in Slots, w.objects[p].exists
  PROVE  LET v == clear(w, p) IN
         /\ Good(v) /\ v.thrown = w.thrown /\ OthersKept(w, v, p)
         /\ BlockOf(v, p) = Null /\ v.objects[p].exists /\ AllocatorOf(v, p) = AllocatorOf(w, p)
         /\ onHeap => ~has_value(v, p)
         /\ ~onHeap => v = w
<1>1. CASE ~(has_value(w, p) /\ onHeap)
  BY <1>1 DEF clear, has_value, BlockOf, Good, OthersKept
<1>2. CASE has_value(w, p) /\ onHeap
  <2> DEFINE b == Data(w, p)
             u == deallocate(w, b, AllocatorOf(w, p))
             v == clear(w, p)
  <2>1. w.objects[p] \in Objects /\ w \in Worlds
    BY WorldFields DEF Good
  <2>2. b \in Blocks /\ b = BlockOf(w, p) /\ w.heap[b].live /\ w.heap[b].allocator = AllocatorOf(w, p)
        /\ AllocatorOf(w, p) \in Allocators /\ Null \in Datum /\ Moved \in Kept
    BY <1>2, <2>1 DEF BlockOf, Good, Datum, has_value, Objects, Data, AllocatorOf, Kept
  <2>3. /\ u \in Worlds /\ ~u.misused /\ u.objects = w.objects /\ u.thrown = w.thrown
        /\ ~u.heap[b].live /\ \A c \in Blocks \ {b} : u.heap[c] = w.heap[c]
    BY <2>2, HeapOperations
  <2>4. v = WithData(u, p, Null)
    BY <1>2 DEF clear
  <2> HIDE DEF v, u, b
  <2>5. /\ v \in Worlds /\ v.heap = u.heap /\ v.thrown = u.thrown /\ v.misused = u.misused
        /\ v.objects[p].exists /\ AllocatorOf(v, p) = AllocatorOf(u, p)
        /\ v.objects[p].engaged /\ Data(v, p) = Null
        /\ \A q \in Places \ {p} : v.objects[q] = u.objects[q]
    BY <2>1, <2>2, <2>3, <2>4, WithDataSets, WorldFields
  <2>6. BlockOf(v, p) = Null /\ ~has_value(v, p) /\ AllocatorOf(v, p) = AllocatorOf(w, p)
    BY <1>2, <2>3, <2>5 DEF BlockOf, has_value, AllocatorOf
  <2>7. v.objects[Tmp] = Nothing /\ \A q \in Slots \ {p} : v.objects[q] = w.objects[q]
    BY <2>3, <2>5, WorldFields DEF Good, Places
  <2>8. Good(v) /\ OthersKept(w, v, p)
    BY <2>2, <2>3, <2>5, <2>6, <2>7, Replaced
  <2> QED
    BY <1>2, <2>3, <2>5, <2>6, <2>8 DEF v
<1> QED
  BY <1>1, <1>2

\* An exception is on its way.
LEMMA ThrownChanges ==
  ASSUME HolderAssumption, NEW w, Good(w)
  PROVE  /\ Good(Thrown(w)) /\ Thrown(w).thrown /\ Thrown(w).objects = w.objects
         /\ \A p \in Slots : BlockOf(Thrown(w), p) = BlockOf(w, p) /\ ContentIn(Thrown(w), p) = ContentIn(w, p)
<1> DEFINE v == Thrown(w)
<1>1. v \in Worlds /\ v.thrown /\ v.objects = w.objects /\ v.heap = w.heap /\ v.misused = w.misused
  BY DEF Good, Worlds, Thrown
<1> HIDE DEF v
<1>2. \A p \in Slots : BlockOf(v, p) = BlockOf(w, p) /\ ContentIn(v, p) = ContentIn(w, p) /\ Data(v, p) = Data(w, p)
                       /\ AllocatorOf(v, p) = AllocatorOf(w, p)
  BY <1>1 DEF BlockOf, Data, ContentIn, has_value, valueOf, AllocatorOf
<1>3. Good(v)
  BY <1>1, <1>2 DEF Good
<1> QED
  BY <1>1, <1>2, <1>3 DEF v

\* An optional without a block is one without a value.
LEMMA DisengagedChanges ==
  ASSUME HolderAssumption, NEW w, Good(w), NEW p \in Slots, w.objects[p].exists, BlockOf(w, p) = Null
  PROVE  LET v == Disengaged(w, p) IN
         /\ Good(v) /\ v.thrown = w.thrown /\ OthersKept(w, v, p)
         /\ v.objects[p].exists /\ ContentIn(v, p) = NoContent /\ BlockOf(v, p) = Null
<1> DEFINE v == Disengaged(w, p)
<1>1. w \in Worlds /\ p \in Places /\ w.objects[p] \in Objects /\ Null \in Datum
  BY WorldFields DEF Good, Datum, Kept, Null, Moved
<1>2. /\ v \in Worlds /\ v.heap = w.heap /\ v.thrown = w.thrown /\ v.misused = w.misused
      /\ v.objects[p].exists /\ ~v.objects[p].engaged /\ v.objects[p].data = Null
      /\ \A q \in Places \ {p} : v.objects[q] = w.objects[q]
  BY <1>1 DEF Worlds, Objects, Disengaged
<1> HIDE DEF v
<1>3. v.objects[Tmp] = Nothing /\ \A q \in Slots \ {p} : v.objects[q] = w.objects[q]
  BY <1>2, WorldFields DEF Good, Places
<1>4. BlockOf(v, p) = Null /\ Data(v, p) = Null /\ ~v.misused
  BY <1>2 DEF BlockOf, Data, Good
<1>5. Good(v) /\ OthersKept(w, v, p)
  BY <1>2, <1>3, <1>4, Replaced
<1>6. ContentIn(v, p) = NoContent
  BY <1>2 DEF ContentIn, has_value
<1> QED
  BY <1>2, <1>4, <1>5, <1>6 DEF v

\* What is emplaced is there afterwards, unless something was thrown.
LEMMA EmplaceValueChanges ==
  ASSUME HolderAssumption, NEW w, Good(w), NEW p \in Slots, w.objects[p].exists, BlockOf(w, p) = Null,
         ~w.thrown, NEW value \in Kept, NEW fails \in Failures
  PROVE  LET v == emplaceValue(w, p, value, fails) IN
         /\ Good(v) /\ OthersKept(w, v, p) /\ v.objects[p].exists
         /\ ContentIn(v, p) = IF v.thrown THEN NoContent ELSE Value(value)
         /\ ~onHeap /\ fails # "construction" => ~v.thrown
<1> DEFINE v == emplaceValue(w, p, value, fails)
<1>1. w \in Worlds /\ w.objects[p] \in Objects /\ p # Tmp /\ AllocatorOf(w, p) \in Allocators
  BY WorldFields DEF Good, Objects, AllocatorOf
<1>2. CASE onHeap /\ fails = "nothing"
  <2> DEFINE b == NextBlock(w)
             u == allocate(w, AllocatorOf(w, p), value)
  <2>1. b \in Blocks /\ b # Null /\ ~w.heap[b].live /\ b \in Datum
    BY <1>2, NextBlockIsFree DEF Datum
  <2>2. /\ u \in Worlds /\ ~u.misused /\ u.objects = w.objects /\ u.thrown = w.thrown
        /\ u.heap[b] = Block(AllocatorOf(w, p), value) /\ \A c \in Blocks \ {b} : u.heap[c] = w.heap[c]
    BY <1>1, <2>1, HeapOperations
  <2>3. v = WithData(u, p, b)
    BY <1>2 DEF emplaceValue, emplaceOnHeap
  <2> HIDE DEF v, u, b
  <2>4. /\ v \in Worlds /\ v.heap = u.heap /\ v.thrown = u.thrown /\ v.misused = u.misused
        /\ v.objects[p].exists /\ AllocatorOf(v, p) = AllocatorOf(u, p)
        /\ v.objects[p].engaged /\ Data(v, p) = b
        /\ \A q \in Places \ {p} : v.objects[q] = u.objects[q]
    BY <2>1, <2>2, <2>3, WithDataSets
  <2>5. BlockOf(v, p) = b /\ has_value(v, p) /\ valueOf(v, p) = value /\ AllocatorOf(v, p) = AllocatorOf(w, p)
        /\ v.heap[b].live /\ v.heap[b].allocator = AllocatorOf(w, p)
    BY <1>2, <2>1, <2>2, <2>4 DEF BlockOf, has_value, valueOf, AllocatorOf, Block
  <2>6. v.objects[Tmp] = Nothing /\ \A q \in Slots \ {p} : v.objects[q] = w.objects[q]
    BY <2>2, <2>4, WorldFields DEF Good, Places
  <2>7. Good(v) /\ OthersKept(w, v, p)
    BY <2>1, <2>2, <2>4, <2>5, <2>6, Replaced
  <2>8. ContentIn(v, p) = Value(value) /\ ~v.thrown
    BY <2>2, <2>4, <2>5 DEF ContentIn
  <2> QED
    BY <1>2, <2>4, <2>7, <2>8 DEF v
<1>3. CASE onHeap /\ fails # "nothing"
  <2>1. v = Thrown(w)
    BY <1>3 DEF emplaceValue, emplaceOnHeap
  <2>2. ContentIn(w, p) = NoContent
    BY <1>3 DEF ContentIn, has_value, BlockOf
  <2> HIDE DEF v
  <2> QED
    BY <1>3, <2>1, <2>2, ThrownChanges DEF OthersKept, v
<1>4. CASE ~onHeap /\ fails = "construction"
  <2>1. v = Thrown(Disengaged(w, p))
    BY <1>4 DEF emplaceValue, emplaceInPlace
  <2> HIDE DEF v
  <2> QED
    BY <1>4, <2>1, ThrownChanges, DisengagedChanges DEF OthersKept, v
<1>5. CASE ~onHeap /\ fails # "construction"
  <2>1. v = WithData(w, p, value) /\ value \in Datum
    BY <1>5 DEF emplaceValue, emplaceInPlace, Datum
  <2> HIDE DEF v
  <2>2. /\ v \in Worlds /\ v.heap = w.heap /\ v.thrown = w.thrown /\ v.misused = w.misused
        /\ v.objects[p].exists /\ v.objects[p].engaged /\ Data(v, p) = value
        /\ \A q \in Places \ {p} : v.objects[q] = w.objects[q]
    BY <1>1, <2>1, WithDataSets
  <2>3. v.objects[Tmp] = Nothing /\ \A q \in Slots \ {p} : v.objects[q] = w.objects[q]
    BY <2>2, WorldFields DEF Good, Places
  <2>4. BlockOf(v, p) = Null /\ ContentIn(v, p) = Value(value) /\ ~v.misused
    BY <1>5, <2>2 DEF BlockOf, ContentIn, has_value, valueOf, Good
  <2>5. Good(v) /\ OthersKept(w, v, p)
    BY <2>2, <2>3, <2>4, Replaced
  <2> QED
    BY <1>5, <2>2, <2>4, <2>5 DEF v
<1> QED
  BY <1>2, <1>3, <1>4, <1>5

\* An optional without a block has another allocator.
LEMMA AllocatorChanges ==
  ASSUME HolderAssumption, NEW w, Good(w), NEW p \in Slots, w.objects[p].exists, BlockOf(w, p) = Null,
         NEW allocator \in Allocators
  PROVE  LET v == set_allocator(w, p, allocator) IN
         /\ Good(v) /\ v.thrown = w.thrown /\ OthersKept(w, v, p)
         /\ v.objects[p].exists /\ ContentIn(v, p) = ContentIn(w, p) /\ BlockOf(v, p) = Null
<1> DEFINE v == set_allocator(w, p, allocator)
<1>1. w \in Worlds /\ p \in Places /\ w.objects[p] \in Objects
  BY WorldFields DEF Good
<1>2. /\ v \in Worlds /\ v.heap = w.heap /\ v.thrown = w.thrown /\ v.misused = w.misused
      /\ v.objects[p].exists /\ v.objects[p].engaged = w.objects[p].engaged /\ v.objects[p].data = w.objects[p].data
      /\ \A q \in Places \ {p} : v.objects[q] = w.objects[q]
  BY <1>1 DEF Worlds, Objects, set_allocator
<1> HIDE DEF v
<1>3. v.objects[Tmp] = Nothing /\ \A q \in Slots \ {p} : v.objects[q] = w.objects[q]
  BY <1>2, WorldFields DEF Good, Places
<1>4. BlockOf(v, p) = Null /\ Data(v, p) = Data(w, p) /\ ~v.misused
      /\ (~v.objects[p].engaged => Data(v, p) = Null)
  BY <1>2 DEF BlockOf, Data, Good
<1>5. Good(v) /\ OthersKept(w, v, p)
  BY <1>2, <1>3, <1>4, Replaced
<1>6. ContentIn(v, p) = ContentIn(w, p)
  <2>1. has_value(v, p) <=> has_value(w, p)
    BY <1>2, <1>4 DEF has_value
  <2>2. has_value(w, p) => valueOf(v, p) = valueOf(w, p)
    BY <1>2, <1>4 DEF valueOf
  <2> QED
    BY <1>2, <2>1, <2>2 DEF ContentIn
<1> QED
  BY <1>2, <1>4, <1>5, <1>6 DEF v

LEMMA PropagatedChanges ==
  ASSUME HolderAssumption, NEW w, Good(w), NEW p \in Slots, w.objects[p].exists, BlockOf(w, p) = Null,
         NEW o \in Slots, w.objects[o].exists
  PROVE  LET v == Propagated(w, p, o) IN
         /\ Good(v) /\ v.thrown = w.thrown /\ OthersKept(w, v, p)
         /\ v.objects[p].exists /\ ContentIn(v, p) = ContentIn(w, p) /\ BlockOf(v, p) = Null
<1>1. AllocatorOf(w, o) \in Allocators
  BY WorldFields DEF Good, Objects, AllocatorOf
<1>2. CASE traits.assignment
  BY <1>1, <1>2, AllocatorChanges DEF Propagated
<1>3. CASE ~traits.assignment
  BY <1>3 DEF Propagated, OthersKept
<1> QED
  BY <1>2, <1>3

LEMMA ResetChanges ==
  ASSUME HolderAssumption, NEW w, Good(w), NEW p \in Slots, w.objects[p].exists
  PROVE  LET v == reset(w, p) IN
         /\ Good(v) /\ v.thrown = w.thrown /\ OthersKept(w, v, p)
         /\ v.objects[p].exists /\ ContentIn(v, p) = NoContent /\ BlockOf(v, p) = Null
<1> DEFINE u == clear(w, p)
           v == Disengaged(u, p)
<1>1. Good(u) /\ u.thrown = w.thrown /\ OthersKept(w, u, p) /\ BlockOf(u, p) = Null /\ u.objects[p].exists
  BY ClearChanges
<1> HIDE DEF u
<1>2. /\ Good(v) /\ v.thrown = u.thrown /\ OthersKept(u, v, p)
      /\ v.objects[p].exists /\ ContentIn(v, p) = NoContent /\ BlockOf(v, p) = Null
  BY <1>1, DisengagedChanges
<1>3. reset(w, p) = v
  BY DEF reset, u
<1> HIDE DEF v
<1> QED
  BY <1>1, <1>2, <1>3 DEF OthersKept

LEMMA EmplaceChanges ==
  ASSUME HolderAssumption, NEW w, Good(w), NEW p \in Slots, w.objects[p].exists,
         ~w.thrown, NEW value \in Kept, NEW fails \in Failures
  PROVE  LET v == emplace(w, p, value, fails) IN
         /\ Good(v) /\ OthersKept(w, v, p) /\ v.objects[p].exists
         /\ ContentIn(v, p) = IF v.thrown THEN NoContent ELSE Value(value)
<1> DEFINE u == clear(w, p)
           v == emplaceValue(u, p, value, fails)
<1>1. Good(u) /\ u.thrown = w.thrown /\ OthersKept(w, u, p) /\ BlockOf(u, p) = Null /\ u.objects[p].exists
  BY ClearChanges
<1> HIDE DEF u
<1>2. /\ Good(v) /\ OthersKept(u, v, p) /\ v.objects[p].exists
      /\ ContentIn(v, p) = IF v.thrown THEN NoContent ELSE Value(value)
  BY <1>1, EmplaceValueChanges
<1>3. emplace(w, p, value, fails) = v
  BY DEF emplace, u
<1> HIDE DEF v
<1> QED
  BY <1>1, <1>2, <1>3 DEF OthersKept

LEMMA ValueIsKept ==
  ASSUME HolderAssumption, NEW w, Good(w), NEW o \in Slots, w.objects[o].exists, has_value(w, o)
  PROVE  valueOf(w, o) \in Kept /\ ContentIn(w, o) = Value(valueOf(w, o))
<1>1. w.objects[o] \in Objects /\ Data(w, o) \in Datum
  BY WorldFields DEF Good, Objects, Data
<1>2. CASE onHeap
  <2>1. BlockOf(w, o) = Data(w, o) /\ Data(w, o) # Null /\ Data(w, o) \in Blocks
    BY <1>1, <1>2 DEF BlockOf, has_value, Datum
  <2>2. w.heap[Data(w, o)] \in Cells
    BY <2>1, WorldFields DEF Good
  <2> QED
    BY <1>2, <2>2 DEF Cells, valueOf, ContentIn
<1>3. CASE ~onHeap
  BY <1>1, <1>3 DEF Datum, valueOf, ContentIn
<1> QED
  BY <1>2, <1>3

\* A copy has what the other one has, and one that fails has no value.
LEMMA CopyChanges ==
  ASSUME HolderAssumption, NEW w, Good(w), NEW p \in Slots, w.objects[p].exists,
         NEW o \in Slots, w.objects[o].exists, ~w.thrown, NEW fails \in Failures
  PROVE  LET v == copy(w, p, o, fails) IN
         /\ Good(v) /\ OthersKept(w, v, p) /\ v.objects[p].exists
         /\ ContentIn(v, p) = IF v.thrown THEN NoContent ELSE ContentIn(w, o)
<1>1. CASE has_value(w, o)
  <2>1. copy(w, p, o, fails) = emplace(w, p, valueOf(w, o), fails)
    BY <1>1 DEF copy
  <2> QED
    BY <1>1, <2>1, EmplaceChanges, ValueIsKept
<1>2. CASE ~has_value(w, o)
  <2>1. copy(w, p, o, fails) = reset(w, p) /\ ContentIn(w, o) = NoContent
    BY <1>2 DEF copy, ContentIn
  <2> QED
    BY <2>1, ResetChanges
<1> QED
  BY <1>1, <1>2

-------------------------------------------------------------------------------
(* Two optionals.                                                          *)

\* A value that was moved from is still there.
LEMMA MovedOutChanges ==
  ASSUME HolderAssumption, NEW w, Good(w), NEW o \in Slots, w.objects[o].exists, ~w.thrown, has_value(w, o)
  PROVE  LET v == WithMovedOut(w, o) IN
         /\ Good(v) /\ ~v.thrown /\ OthersKept(w, v, o)
         /\ v.objects[o].exists /\ ContentIn(v, o) = Value(Moved)
<1> DEFINE v == WithMovedOut(w, o)
<1>1. w \in Worlds /\ o \in Places /\ w.objects[o] \in Objects /\ Data(w, o) \in Datum /\ Moved \in Kept
  BY WorldFields DEF Good, Objects, Data, Kept
<1>2. CASE onHeap
  <2> DEFINE b == Data(w, o)
  <2>1. b \in Blocks /\ b = BlockOf(w, o) /\ b # Null /\ w.heap[b].live /\ w.heap[b] \in Cells
    BY <1>1, <1>2, WorldFields DEF BlockOf, has_value, Datum, Good
  <2>2. v = [w EXCEPT !.heap[b].content = Moved]
    BY <1>2 DEF WithMovedOut
  <2> HIDE DEF v, b
  <2>3. /\ v \in Worlds /\ v.objects = w.objects /\ v.thrown = w.thrown /\ v.misused = w.misused
        /\ v.heap[b].live /\ v.heap[b].allocator = w.heap[b].allocator /\ v.heap[b].content = Moved
        /\ \A c \in Blocks \ {b} : v.heap[c] = w.heap[c]
    BY <1>1, <2>1, <2>2 DEF Worlds, Cells
  <2>4. BlockOf(v, o) = b /\ Data(v, o) = b /\ AllocatorOf(v, o) = AllocatorOf(w, o) /\ has_value(v, o)
    BY <2>1, <2>3 DEF BlockOf, Data, AllocatorOf, has_value, b
  <2>5. w.heap[b].allocator = AllocatorOf(w, o)
    BY <2>1 DEF Good
  <2>6. ~v.misused /\ v.objects[Tmp] = Nothing /\ (~v.objects[o].engaged => Data(v, o) = Null)
    BY <2>3, <2>4 DEF Good, has_value
  <2>7. Good(v) /\ OthersKept(w, v, o)
    BY <2>1, <2>3, <2>4, <2>5, <2>6, Replaced
  <2>8. valueOf(v, o) = Moved
    BY <1>2, <2>3, <2>4 DEF valueOf
  <2>9. ContentIn(v, o) = Value(Moved)
    BY <2>3, <2>4, <2>8 DEF ContentIn
  <2> QED
    BY <2>3, <2>7, <2>9 DEF v
<1>3. CASE ~onHeap
  <2>1. v = WithData(w, o, Moved) /\ Moved \in Datum
    BY <1>1, <1>3 DEF WithMovedOut, Datum
  <2> HIDE DEF v
  <2>2. /\ v \in Worlds /\ v.heap = w.heap /\ v.thrown = w.thrown /\ v.misused = w.misused
        /\ v.objects[o].exists /\ v.objects[o].engaged /\ Data(v, o) = Moved
        /\ \A q \in Places \ {o} : v.objects[q] = w.objects[q]
    BY <1>1, <2>1, WithDataSets
  <2>3. v.objects[Tmp] = Nothing /\ \A q \in Slots \ {o} : v.objects[q] = w.objects[q]
    BY <2>2, WorldFields DEF Good, Places
  <2>4. BlockOf(v, o) = Null /\ BlockOf(w, o) = Null /\ ContentIn(v, o) = Value(Moved) /\ ~v.misused
    BY <1>3, <2>2 DEF BlockOf, ContentIn, has_value, valueOf, Good
  <2>5. Good(v) /\ OthersKept(w, v, o)
    BY <2>2, <2>3, <2>4, Replaced
  <2> QED
    BY <2>2, <2>4, <2>5 DEF v
<1> QED
  BY <1>2, <1>3

\* Two optionals have the blocks of both of them, each from its allocator, and what they own is
\* what the heap has.
LEMMA Exchanged ==
  ASSUME HolderAssumption, NEW w, Good(w), NEW p \in Slots, NEW o \in Slots, NEW v \in Worlds, ~v.misused,
         v.heap = w.heap, v.objects[Tmp] = Nothing,
         \A q \in Slots \ {p, o} : v.objects[q] = w.objects[q],
         \A q \in {p, o} : v.objects[q].exists /\ ~v.objects[q].engaged => Data(v, q) = Null,
         BlockOf(v, p) = BlockOf(w, o), BlockOf(v, o) = BlockOf(w, p),
         \A q \in {p, o} : BlockOf(v, q) # Null => v.heap[BlockOf(v, q)].allocator = AllocatorOf(v, q)
  PROVE  Good(v) /\ \A q \in Slots \ {p, o} : ContentIn(v, q) = ContentIn(w, q)
<1>1. \A q \in Slots \ {p, o} : BlockOf(v, q) = BlockOf(w, q) /\ AllocatorOf(v, q) = AllocatorOf(w, q)
                                /\ Data(v, q) = Data(w, q)
  BY DEF BlockOf, Data, AllocatorOf
<1>2. \A q \in Slots : v.objects[q].exists /\ ~v.objects[q].engaged => Data(v, q) = Null
  BY <1>1 DEF Good
<1>3. \A q \in Slots : BlockOf(v, q) # Null =>
         v.heap[BlockOf(v, q)].live /\ v.heap[BlockOf(v, q)].allocator = AllocatorOf(v, q)
  BY <1>1 DEF Good
<1>4. \A q, r \in Slots : BlockOf(v, q) = BlockOf(v, r) /\ BlockOf(v, q) # Null => q = r
  BY <1>1 DEF Good
<1>5. \A b \in Blocks : v.heap[b].live => \E q \in Slots : BlockOf(v, q) = b
  <2> SUFFICES ASSUME NEW b \in Blocks, v.heap[b].live PROVE \E q \in Slots : BlockOf(v, q) = b
    OBVIOUS
  <2>1. PICK q \in Slots : BlockOf(w, q) = b
    BY DEF Good
  <2> QED
    BY <1>1, <2>1
<1>6. Good(v)
  BY <1>2, <1>3, <1>4, <1>5 DEF Good
<1>7. \A q \in Slots \ {p, o} : ContentIn(v, q) = ContentIn(w, q)
  <2> TAKE q \in Slots \ {p, o}
  <2>1. has_value(v, q) <=> has_value(w, q)
    BY <1>1 DEF has_value
  <2>2. valueOf(v, q) = valueOf(w, q)
    BY <1>1 DEF valueOf
  <2> QED
    BY <2>1, <2>2 DEF ContentIn
<1> QED
  BY <1>6, <1>7

\* A block is taken over.
LEMMA TakenOver ==
  ASSUME HolderAssumption, NEW w, Good(w), NEW p \in Slots, w.objects[p].exists, BlockOf(w, p) = Null,
         NEW o \in Slots, w.objects[o].exists, p # o, has_value(w, o), onHeap, SameAllocator(w, p, o)
  PROVE  LET v == WithData(WithData(w, p, Data(w, o)), o, Null) IN
         /\ Good(v) /\ v.thrown = w.thrown /\ v.objects[p].exists /\ v.objects[o].exists
         /\ \A q \in Slots \ {p, o} : ContentIn(v, q) = ContentIn(w, q)
         /\ ContentIn(v, p) = ContentIn(w, o) /\ ContentIn(v, o) = NoContent
<1> DEFINE b == Data(w, o)
           u == WithData(w, p, b)
           v == WithData(u, o, Null)
<1>1. w \in Worlds /\ w.objects[o] \in Objects /\ b \in Datum /\ Null \in Datum
  BY WorldFields DEF Good, Objects, Data, Datum
<1> HIDE DEF v, u
<1>2. /\ u \in Worlds /\ u.heap = w.heap /\ u.thrown = w.thrown /\ u.misused = w.misused
      /\ u.objects[p].exists /\ AllocatorOf(u, p) = AllocatorOf(w, p)
      /\ u.objects[p].engaged /\ Data(u, p) = b
      /\ \A q \in Places \ {p} : u.objects[q] = w.objects[q]
  BY <1>1, WithDataSets DEF u
<1>3. u.objects[o].exists
  BY <1>2, WorldFields
<1>4. /\ v \in Worlds /\ v.heap = u.heap /\ v.thrown = u.thrown /\ v.misused = u.misused
      /\ v.objects[o].exists /\ AllocatorOf(v, o) = AllocatorOf(u, o)
      /\ v.objects[o].engaged /\ Data(v, o) = Null
      /\ \A q \in Places \ {o} : v.objects[q] = u.objects[q]
  BY <1>1, <1>2, <1>3, WithDataSets DEF v
<1>5. v.objects[p] = u.objects[p] /\ v.objects[Tmp] = Nothing /\ \A q \in Slots \ {p, o} : v.objects[q] = w.objects[q]
  BY <1>2, <1>4, WorldFields DEF Good, Places
<1>6. Data(v, p) = b /\ AllocatorOf(v, p) = AllocatorOf(w, o) /\ has_value(v, p) /\ ~has_value(v, o)
  BY <1>2, <1>4, <1>5 DEF Data, AllocatorOf, SameAllocator, has_value
<1>7. BlockOf(v, p) = BlockOf(w, o) /\ BlockOf(v, o) = BlockOf(w, p) /\ BlockOf(w, o) # Null
  BY <1>2, <1>4, <1>5, <1>6 DEF BlockOf, has_value
<1>8. w.heap[BlockOf(w, o)].allocator = AllocatorOf(w, o)
  BY <1>7 DEF Good
<1>9. \A q \in {p, o} : /\ v.objects[q].exists /\ ~v.objects[q].engaged => Data(v, q) = Null
                        /\ BlockOf(v, q) # Null => v.heap[BlockOf(v, q)].allocator = AllocatorOf(v, q)
  BY <1>2, <1>4, <1>5, <1>6, <1>7, <1>8
<1>10. v.heap = w.heap /\ ~v.misused
  BY <1>2, <1>4 DEF Good
<1>11. Good(v) /\ \A q \in Slots \ {p, o} : ContentIn(v, q) = ContentIn(w, q)
  BY <1>4, <1>5, <1>7, <1>9, <1>10, Exchanged
<1>12. valueOf(v, p) = valueOf(w, o)
  BY <1>6, <1>10 DEF valueOf
<1>13. ContentIn(v, p) = ContentIn(w, o) /\ ContentIn(v, o) = NoContent
  BY <1>2, <1>4, <1>5, <1>6, <1>12 DEF ContentIn
<1> QED
  BY <1>2, <1>4, <1>5, <1>11, <1>13 DEF v, u

\* A move takes the value along, and the other one has a moved value or none; one that fails takes
\* nothing.
LEMMA MoveChanges ==
  ASSUME HolderAssumption, NEW w, Good(w), NEW p \in Slots, w.objects[p].exists, BlockOf(w, p) = Null,
         NEW o \in Slots, w.objects[o].exists, p # o, ~w.thrown, NEW fails \in MoveFailures
  PROVE  LET v == move(w, p, o, fails) IN
         /\ Good(v) /\ v.objects[p].exists /\ v.objects[o].exists
         /\ \A q \in Slots \ {p, o} : ContentIn(v, q) = ContentIn(w, q)
         /\ ContentIn(v, p) = IF v.thrown THEN NoContent ELSE ContentIn(w, o)
         /\ IF v.thrown THEN ContentIn(v, o) = ContentIn(w, o)
                        ELSE ContentIn(v, o) \in Promised!Left(ContentIn(w, o))
<1> DEFINE v == move(w, p, o, fails)
<1>1. CASE ~has_value(w, o)
  <2>1. v = reset(w, p) /\ ContentIn(w, o) = NoContent
    BY <1>1 DEF move, ContentIn
  <2>2. /\ Good(v) /\ ~v.thrown /\ OthersKept(w, v, p) /\ v.objects[p].exists /\ ContentIn(v, p) = NoContent
    BY <2>1, ResetChanges
  <2> HIDE DEF v
  <2>3. v.objects[o] = w.objects[o] /\ ContentIn(v, o) = NoContent
    BY <2>1, <2>2 DEF OthersKept
  <2>4. ContentIn(v, o) \in Promised!Left(ContentIn(w, o))
    BY <2>1, <2>3 DEF Promised!Left, Promised!Empty, NoContent
  <2>5. \A q \in Slots \ {p, o} : ContentIn(v, q) = ContentIn(w, q)
    BY <2>2 DEF OthersKept
  <2> QED
    BY <2>1, <2>2, <2>3, <2>4, <2>5 DEF v
<1>2. CASE has_value(w, o) /\ onHeap /\ SameAllocator(w, p, o)
  <2>1. v = WithData(WithData(w, p, Data(w, o)), o, Null)
    BY <1>2 DEF move
  <2> HIDE DEF v
  <2>2. /\ Good(v) /\ v.thrown = w.thrown /\ v.objects[p].exists /\ v.objects[o].exists
        /\ \A q \in Slots \ {p, o} : ContentIn(v, q) = ContentIn(w, q)
        /\ ContentIn(v, p) = ContentIn(w, o) /\ ContentIn(v, o) = NoContent
    BY <1>2, <2>1, TakenOver
  <2>3. ContentIn(v, o) \in Promised!Left(ContentIn(w, o))
    BY <2>2 DEF Promised!Left, Promised!Empty, NoContent
  <2> QED
    BY <2>2, <2>3 DEF v
<1>3. CASE has_value(w, o) /\ ~(onHeap /\ SameAllocator(w, p, o))
  <2> DEFINE u == emplaceValue(w, p, valueOf(w, o), fails)
  <2>1. v = WithMovedOut(u, o)
    BY <1>3 DEF move
  <2>2. valueOf(w, o) \in Kept /\ ContentIn(w, o) = Value(valueOf(w, o)) /\ fails \in Failures
    BY <1>3, ValueIsKept DEF MoveFailures, Failures
  <2> HIDE DEF v, u
  <2>3. /\ Good(u) /\ OthersKept(w, u, p) /\ u.objects[p].exists
        /\ ContentIn(u, p) = IF u.thrown THEN NoContent ELSE Value(valueOf(w, o))
    BY <2>2, EmplaceValueChanges DEF u
  <2>4. u.objects[o] = w.objects[o] /\ ContentIn(u, o) = ContentIn(w, o)
    BY <2>3 DEF OthersKept
  <2>5. CASE u.thrown
    <3>1. v = u
      BY <2>1, <2>5 DEF WithMovedOut
    <3>2. \A q \in Slots \ {p, o} : ContentIn(v, q) = ContentIn(w, q)
      BY <2>3, <3>1 DEF OthersKept
    <3> QED
      BY <2>3, <2>4, <2>5, <3>1, <3>2 DEF v
  <2>6. CASE ~u.thrown
    <3>1. has_value(u, o)
      BY <1>3, <2>2, <2>4, <2>3 DEF has_value, Data
    <3>2. Good(v) /\ ~v.thrown /\ OthersKept(u, v, o) /\ v.objects[o].exists /\ ContentIn(v, o) = Value(Moved)
      BY <2>1, <2>3, <2>4, <2>6, <3>1, MovedOutChanges
    <3>3. v.objects[p].exists /\ ContentIn(v, p) = ContentIn(w, o)
      BY <2>2, <2>3, <2>6, <3>2 DEF OthersKept
    <3>4. \A q \in Slots \ {p, o} : ContentIn(v, q) = ContentIn(w, q)
      BY <2>3, <3>2 DEF OthersKept
    <3>5. ContentIn(v, o) \in Promised!Left(ContentIn(w, o))
      <4>1. ContentIn(w, o).holds = "value" /\ ContentIn(w, o).index = Null
        BY <2>2 DEF Value
      <4>2. Promised!Content(Null, Moved) = Value(Moved)
        BY DEF Promised!Content, Value
      <4>3. Promised!Content(ContentIn(w, o).index, Moved) \in Promised!Left(ContentIn(w, o))
        BY <4>1 DEF Promised!Left
      <4> QED
        BY <3>2, <4>1, <4>2, <4>3
    <3> QED
      BY <3>2, <3>3, <3>4, <3>5 DEF v
  <2> QED
    BY <2>5, <2>6
<1> QED
  BY <1>1, <1>2, <1>3

\* A swap is one of the contents, if the blocks are from equal allocators or the allocators are
\* swapped, too.
LEMMA SwapChanges ==
  ASSUME HolderAssumption, NEW w, Good(w), NEW p \in Slots, w.objects[p].exists,
         NEW o \in Slots, w.objects[o].exists, SameAllocator(w, p, o) \/ traits.swap
  PROVE  LET v == swap(w, p, o) IN
         /\ Good(v) /\ v.thrown = w.thrown
         /\ \A q \in Slots \ {p, o} : ContentIn(v, q) = ContentIn(w, q)
         /\ ContentIn(v, p) = ContentIn(w, o) /\ ContentIn(v, o) = ContentIn(w, p)
<1> DEFINE u == ExchangedData(w, p, o)
           v == swap(w, p, o)
<1>1. w \in Worlds /\ p \in Places /\ o \in Places /\ w.objects[p] \in Objects /\ w.objects[o] \in Objects
  BY WorldFields DEF Good
<1> HIDE DEF u, v
<1>2. /\ u \in Worlds /\ u.heap = w.heap /\ u.thrown = w.thrown /\ u.misused = w.misused
      /\ u.objects[p] \in Objects /\ u.objects[o] \in Objects
      /\ u.objects[p].engaged = w.objects[o].engaged /\ u.objects[p].data = w.objects[o].data
      /\ u.objects[o].engaged = w.objects[p].engaged /\ u.objects[o].data = w.objects[p].data
      /\ u.objects[p].allocator = w.objects[p].allocator /\ u.objects[o].allocator = w.objects[o].allocator
      /\ \A q \in Places \ {p, o} : u.objects[q] = w.objects[q]
  <2> DEFINE engaged == [q \in {p, o} |-> w.objects[q].engaged]
             data == [q \in {p, o} |-> w.objects[q].data]
             u1 == [w EXCEPT !.objects[p].engaged = engaged[o]]
             u2 == [u1 EXCEPT !.objects[p].data = data[o]]
             u3 == [u2 EXCEPT !.objects[o].engaged = engaged[p]]
             u4 == [u3 EXCEPT !.objects[o].data = data[p]]
  <2>1. \A q \in {p, o} : /\ engaged[q] = w.objects[q].engaged /\ engaged[q] \in BOOLEAN
                          /\ data[q] = w.objects[q].data /\ data[q] \in Datum
    BY <1>1 DEF Objects
  <2>2. u = u4
    BY DEF ExchangedData, Data, u
  <2> HIDE DEF engaged, data, u1, u2, u3, u4
  <2>3. /\ u1 \in Worlds /\ u1.heap = w.heap /\ u1.thrown = w.thrown /\ u1.misused = w.misused
        /\ u1.objects = [w.objects EXCEPT ![p].engaged = engaged[o]]
        /\ u1.objects[p] \in Objects /\ u1.objects[o] \in Objects
    BY <1>1, <2>1 DEF Worlds, Objects, u1
  <2>4. /\ u2 \in Worlds /\ u2.heap = w.heap /\ u2.thrown = w.thrown /\ u2.misused = w.misused
        /\ u2.objects = [u1.objects EXCEPT ![p].data = data[o]]
        /\ u2.objects[p] \in Objects /\ u2.objects[o] \in Objects
    BY <1>1, <2>1, <2>3 DEF Worlds, Objects, u2
  <2>5. /\ u3 \in Worlds /\ u3.heap = w.heap /\ u3.thrown = w.thrown /\ u3.misused = w.misused
        /\ u3.objects = [u2.objects EXCEPT ![o].engaged = engaged[p]]
        /\ u3.objects[p] \in Objects /\ u3.objects[o] \in Objects
    BY <1>1, <2>1, <2>4 DEF Worlds, Objects, u3
  <2>6. /\ u4 \in Worlds /\ u4.heap = w.heap /\ u4.thrown = w.thrown /\ u4.misused = w.misused
        /\ u4.objects = [u3.objects EXCEPT ![o].data = data[p]]
        /\ u4.objects[p] \in Objects /\ u4.objects[o] \in Objects
    BY <1>1, <2>1, <2>5 DEF Worlds, Objects, u4
  <2>7. DOMAIN w.objects = Places /\ DOMAIN u1.objects = Places /\ DOMAIN u2.objects = Places /\ DOMAIN u3.objects = Places
    BY <1>1, <2>3, <2>4, <2>5 DEF Worlds
  <2>8. \A q \in Places \ {p, o} : u4.objects[q] = w.objects[q]
    <3> TAKE q \in Places \ {p, o}
    <3>1. u1.objects[q] = w.objects[q]
      BY <2>3, <2>7
    <3>2. u2.objects[q] = u1.objects[q]
      BY <2>4, <2>7
    <3>3. u3.objects[q] = u2.objects[q]
      BY <2>5, <2>7
    <3>4. u4.objects[q] = u3.objects[q]
      BY <2>6, <2>7
    <3> QED
      BY <3>1, <3>2, <3>3, <3>4
  <2>9. /\ u4.objects[p].engaged = engaged[o] /\ u4.objects[p].data = data[o]
        /\ u4.objects[o].engaged = engaged[p] /\ u4.objects[o].data = data[p]
        /\ u4.objects[p].allocator = w.objects[p].allocator /\ u4.objects[o].allocator = w.objects[o].allocator
    <3>3. u1.objects[p] = [w.objects[p] EXCEPT !.engaged = engaged[o]]
      BY <1>1, <2>3, <2>7
    <3>4. u2.objects[p] = [u1.objects[p] EXCEPT !.data = data[o]]
      BY <1>1, <2>4, <2>7
    <3>5. u3.objects[o] = [u2.objects[o] EXCEPT !.engaged = engaged[p]]
      BY <1>1, <2>5, <2>7
    <3>6. u4.objects[o] = [u3.objects[o] EXCEPT !.data = data[p]]
      BY <1>1, <2>6, <2>7
    <3>1. CASE p = o
      <4>1. u1.objects[p].allocator = w.objects[p].allocator
        BY <1>1, <3>3 DEF Objects
      <4>2. u2.objects[p].allocator = u1.objects[p].allocator
        BY <2>3, <3>4 DEF Objects
      <4>3. u3.objects[p].allocator = u2.objects[p].allocator /\ u3.objects[p].engaged = engaged[p]
        BY <2>4, <3>1, <3>5 DEF Objects
      <4>4. u4.objects[p].allocator = u3.objects[p].allocator /\ u4.objects[p].engaged = u3.objects[p].engaged
            /\ u4.objects[p].data = data[p]
        BY <2>5, <3>1, <3>6 DEF Objects
      <4> QED
        BY <3>1, <4>1, <4>2, <4>3, <4>4
    <3>2. CASE p # o
      <4>1. u2.objects[o] = w.objects[o] /\ u4.objects[p] = u2.objects[p]
        <5>1. u1.objects[o] = w.objects[o] /\ u2.objects[o] = u1.objects[o]
          BY <1>1, <2>3, <2>4, <2>7, <3>2
        <5>2. u3.objects[p] = u2.objects[p] /\ u4.objects[p] = u3.objects[p]
          BY <1>1, <2>5, <2>6, <2>7, <3>2
        <5> QED
          BY <5>1, <5>2
      <4>2. u2.objects[p].engaged = engaged[o] /\ u2.objects[p].data = data[o]
            /\ u2.objects[p].allocator = w.objects[p].allocator
        BY <1>1, <2>3, <2>4, <2>7 DEF Objects
      <4>3. u4.objects[o].engaged = engaged[p] /\ u4.objects[o].data = data[p]
            /\ u4.objects[o].allocator = u2.objects[o].allocator
        BY <1>1, <2>4, <2>5, <2>6, <2>7 DEF Objects
      <4> QED
        BY <4>1, <4>2, <4>3
    <3> QED
      BY <3>1, <3>2
  <2> QED
    BY <2>1, <2>2, <2>6, <2>8, <2>9
<1>3. /\ v \in Worlds /\ v.heap = u.heap /\ v.thrown = u.thrown /\ v.misused = u.misused
      /\ v.objects[p] \in Objects /\ v.objects[o] \in Objects
      /\ v.objects[p].engaged = u.objects[p].engaged /\ v.objects[p].data = u.objects[p].data
      /\ v.objects[o].engaged = u.objects[o].engaged /\ v.objects[o].data = u.objects[o].data
      /\ v.objects[p].allocator = w.objects[o].allocator /\ v.objects[o].allocator = w.objects[p].allocator
      /\ \A q \in Places \ {p, o} : v.objects[q] = u.objects[q]
  <2>1. v = SwappedAllocators(u, p, o)
    BY DEF swap, v, u
  <2>2. CASE traits.swap
    BY <1>1, <1>2, <2>1, <2>2 DEF SwappedAllocators, set_allocator, AllocatorOf, Worlds, Objects
  <2>3. CASE ~traits.swap
    BY <1>2, <2>1, <2>3 DEF SwappedAllocators, SameAllocator, AllocatorOf
  <2> QED
    BY <2>2, <2>3
<1>4. /\ v.heap = w.heap /\ ~v.misused /\ v.objects[Tmp] = Nothing
      /\ \A q \in Slots \ {p, o} : v.objects[q] = w.objects[q]
  BY <1>2, <1>3, WorldFields DEF Good, Places
<1>5. /\ v.objects[p].exists /\ v.objects[o].exists
      /\ Data(v, p) = Data(w, o) /\ Data(v, o) = Data(w, p)
      /\ AllocatorOf(v, p) = AllocatorOf(w, o) /\ AllocatorOf(v, o) = AllocatorOf(w, p)
      /\ v.objects[p].engaged = w.objects[o].engaged /\ v.objects[o].engaged = w.objects[p].engaged
  BY <1>2, <1>3 DEF Data, AllocatorOf, Objects
<1>6. BlockOf(v, p) = BlockOf(w, o) /\ BlockOf(v, o) = BlockOf(w, p)
  BY <1>5 DEF BlockOf
<1>7. \A q \in {p, o} : /\ v.objects[q].exists /\ ~v.objects[q].engaged => Data(v, q) = Null
                        /\ BlockOf(v, q) # Null => v.heap[BlockOf(v, q)].allocator = AllocatorOf(v, q)
  BY <1>4, <1>5, <1>6 DEF Good
<1>8. Good(v) /\ \A q \in Slots \ {p, o} : ContentIn(v, q) = ContentIn(w, q)
  BY <1>3, <1>4, <1>6, <1>7, Exchanged
<1>9. ContentIn(v, p) = ContentIn(w, o) /\ ContentIn(v, o) = ContentIn(w, p)
  <2>1. (has_value(v, p) <=> has_value(w, o)) /\ (has_value(v, o) <=> has_value(w, p))
    BY <1>5 DEF has_value
  <2>2. valueOf(v, p) = valueOf(w, o) /\ valueOf(v, o) = valueOf(w, p)
    BY <1>4, <1>5 DEF valueOf
  <2> QED
    BY <1>5, <2>1, <2>2 DEF ContentIn
<1> QED
  BY <1>2, <1>3, <1>8, <1>9 DEF v

\* An optional is there, and gone.
LEMMA CreateChanges ==
  ASSUME HolderAssumption, NEW w, Good(w), NEW p \in Slots, ~w.objects[p].exists, NEW allocator \in Allocators
  PROVE  LET v == WithObject(w, p, EmptyOptional(allocator)) IN
         /\ Good(v) /\ v.thrown = w.thrown /\ OthersKept(w, v, p)
         /\ v.objects[p].exists /\ ContentIn(v, p) = NoContent /\ BlockOf(v, p) = Null
<1> DEFINE v == WithObject(w, p, EmptyOptional(allocator))
<1>1. w \in Worlds /\ p \in Places
  BY WorldFields DEF Good
<1>2. EmptyOptional(allocator) \in Objects
  BY DEF EmptyOptional, Objects, Datum, Kept, Moved, Null
<1>3. /\ v \in Worlds /\ v.heap = w.heap /\ v.thrown = w.thrown /\ v.misused = w.misused
      /\ v.objects[p] = EmptyOptional(allocator) /\ \A q \in Places \ {p} : v.objects[q] = w.objects[q]
  BY <1>1, <1>2 DEF Worlds, WithObject
<1> HIDE DEF v
<1>4. v.objects[Tmp] = Nothing /\ \A q \in Slots \ {p} : v.objects[q] = w.objects[q]
  BY <1>3, WorldFields DEF Good, Places
<1>5. v.objects[p].exists /\ ~v.objects[p].engaged /\ Data(v, p) = Null
  BY <1>3 DEF EmptyOptional, Data
<1>6. BlockOf(v, p) = Null /\ BlockOf(w, p) = Null /\ ContentIn(v, p) = NoContent /\ ~v.misused
  BY <1>3, <1>5 DEF BlockOf, ContentIn, has_value, Good
<1>7. Good(v) /\ OthersKept(w, v, p)
  BY <1>3, <1>4, <1>5, <1>6, Replaced
<1> QED
  BY <1>3, <1>5, <1>6, <1>7 DEF v

LEMMA DestroyChanges ==
  ASSUME HolderAssumption, NEW w, Good(w), NEW p \in Slots, w.objects[p].exists
  PROVE  LET v == DestroyOptional(w, p) IN
         /\ Good(v) /\ v.thrown = w.thrown /\ OthersKept(w, v, p)
         /\ ~v.objects[p].exists
<1> DEFINE u == clear(w, p)
           v == WithObject(u, p, Nothing)
<1>1. Good(u) /\ u.thrown = w.thrown /\ OthersKept(w, u, p) /\ BlockOf(u, p) = Null
  BY ClearChanges
<1> HIDE DEF u
<1>2. u \in Worlds /\ p \in Places /\ ~Nothing.exists
  BY <1>1, WorldFields DEF Good, Nothing
<1>3. /\ v \in Worlds /\ v.heap = u.heap /\ v.thrown = u.thrown /\ v.misused = u.misused
      /\ v.objects[p] = Nothing /\ \A q \in Places \ {p} : v.objects[q] = u.objects[q]
  BY <1>2 DEF Worlds, WithObject
<1>4. DestroyOptional(w, p) = v
  BY DEF DestroyOptional, u
<1> HIDE DEF v
<1>5. v.objects[Tmp] = Nothing /\ \A q \in Slots \ {p} : v.objects[q] = u.objects[q]
  BY <1>1, <1>3, WorldFields DEF Good, Places
<1>6. BlockOf(v, p) = Null /\ ~v.objects[p].exists /\ ~v.misused
  BY <1>1, <1>2, <1>3 DEF BlockOf, Good
<1>7. Good(v) /\ OthersKept(u, v, p)
  BY <1>1, <1>3, <1>5, <1>6, Replaced
<1> QED
  BY <1>1, <1>3, <1>4, <1>6, <1>7 DEF OthersKept

-------------------------------------------------------------------------------
(* The steps.                                                              *)

OptionalInv == Good(world) /\ ~world.thrown /\ traits \in Traits /\ onHeap \in BOOLEAN

\* What an optional holds is a value only if there is one.
LEMMA ContentKinds ==
  ASSUME NEW w, NEW p
  PROVE  /\ ContentIn(w, p) = Promised!NotThere <=> ~w.objects[p].exists
         /\ NoContent = Promised!Empty /\ Promised!Empty # Promised!NotThere
<1>1. NoContent # Promised!NotThere /\ Value(valueOf(w, p)) # Promised!NotThere
  BY DEF NoContent, Value, Promised!NotThere
<1> QED
  BY <1>1 DEF ContentIn, Promised!NotThere, Promised!Empty, NoContent

\* A call whose world is good ends in one; what it does to the contents is what it does to that world.
LEMMA CalledGood ==
  ASSUME HolderAssumption, OptionalInv, UNCHANGED onHeap, NEW v, Good(v),
         NEW operation, NEW p, NEW o, NEW content, Called(operation, p, o, content, v)
  PROVE  /\ OptionalInv'
         /\ call' = Promised!Call(operation, p, o, content, v.thrown)
         /\ \A q \in Slots : ContentOf(q) = ContentIn(world, q) /\ ContentOf(q)' = ContentIn(v, q)
<1>1. world' = [v EXCEPT !.thrown = FALSE] /\ traits' = traits /\ onHeap' = onHeap
  BY DEF Called, Good
<1>2. world' \in Worlds /\ ~world'.thrown /\ world'.objects = v.objects /\ world'.heap = v.heap
      /\ world'.misused = v.misused
  BY <1>1 DEF Good, Worlds
<1>3. \A q \in Slots : /\ BlockOf(world', q) = BlockOf(v, q) /\ Data(world', q) = Data(v, q)
                       /\ AllocatorOf(world', q) = AllocatorOf(v, q)
                       /\ ContentIn(world', q) = ContentIn(v, q)
  BY <1>2 DEF BlockOf, Data, AllocatorOf, ContentIn, has_value, valueOf
<1>4. Good(world')
  BY <1>2, <1>3 DEF Good
<1>5. Good(world)'
  <2>1. \A q \in Slots : /\ BlockOf(world, q)' = BlockOf(world', q) /\ Data(world, q)' = Data(world', q)
                         /\ AllocatorOf(world, q)' = AllocatorOf(world', q)
    BY <1>1 DEF BlockOf, Data, AllocatorOf
  <2>2. Worlds' = Worlds
    BY <1>1 DEF Worlds, Objects, Cells, Datum
  <2> QED
    BY <1>4, <2>1, <2>2 DEF Good
<1>6. \A q \in Slots : ContentOf(q) = ContentIn(world, q)
  BY DEF ContentOf, ContentIn, Exists
<1>7. \A q \in Slots : ContentOf(q)' = ContentIn(world', q)
  BY <1>1 DEF ContentOf, ContentIn, Exists, has_value, valueOf
<1>8. call' = Promised!Call(operation, p, o, content, v.thrown)
  BY DEF Called, Promised!Call
<1> QED
  BY <1>1, <1>2, <1>3, <1>5, <1>6, <1>7, <1>8 DEF OptionalInv

\* A call that is about one optional.
LEMMA OneChanges ==
  ASSUME HolderAssumption, OptionalInv, UNCHANGED onHeap, NEW p \in Slots, NEW v, Good(v), OthersKept(world, v, p),
         NEW operation, NEW o, NEW content, Called(operation, p, o, content, v)
  PROVE  /\ OptionalInv'
         /\ call' = Promised!Call(operation, p, o, content, v.thrown)
         /\ Promised!With(p, ContentIn(v, p))
<1>1. \A q \in Slots : ContentOf(q) = ContentIn(world, q) /\ ContentOf(q)' = ContentIn(v, q)
  BY CalledGood
<1>2. \A q \in Slots \ {p} : ContentIn(v, q) = ContentIn(world, q)
  BY DEF OthersKept
<1>3. Promised!With(p, ContentIn(v, p))
  BY <1>1, <1>2 DEF Promised!With
<1> QED
  BY <1>3, CalledGood

\* A call that puts a value there or throws.
LEMMA PutOrThrow ==
  ASSUME HolderAssumption, OptionalInv, UNCHANGED onHeap, NEW p \in Slots, NEW v, Good(v), OthersKept(world, v, p),
         NEW value \in Values, Called("put", p, p, Value(value), v),
         ContentIn(v, p) = IF ~v.thrown THEN Value(value)
                           ELSE IF Exists(p) THEN NoContent ELSE Promised!NotThere
  PROVE  OptionalInv' /\ Promised!Next
<1>1. /\ OptionalInv'
      /\ call' = Promised!Call("put", p, p, Value(value), v.thrown)
      /\ Promised!With(p, ContentIn(v, p))
      /\ ContentOf(p) = ContentIn(world, p)
  BY OneChanges, CalledGood
<1>2. v.thrown \in BOOLEAN
  BY DEF Good, Worlds
<1>3. Value(value) \in Promised!Contents
  BY DEF Promised!Contents, Promised!Content, Value
<1>4. CASE ~v.thrown
  <2>1. Promised!Put(p, Value(value))
    BY <1>1, <1>2, <1>4 DEF Promised!Put
  <2> QED
    BY <1>1, <1>3, <2>1 DEF Promised!Next
<1>5. CASE v.thrown
  <2>1. ContentIn(v, p) = IF ContentOf(p) = Promised!NotThere THEN Promised!NotThere ELSE Promised!Empty
    BY <1>1, <1>5, ContentKinds DEF Exists
  <2>2. Promised!Throw(p, p)
    BY <1>1, <1>2, <1>3, <1>5, <2>1 DEF Promised!Throw
  <2> QED
    BY <1>1, <2>2 DEF Promised!Next
<1> QED
  BY <1>4, <1>5

LEMMA PutSteps ==
  ASSUME HolderAssumption, OptionalInv, UNCHANGED onHeap, NEW p \in Slots
  PROVE  Construct(p) \/ Emplace(p) => OptionalInv' /\ Promised!Next
<1>1. ASSUME Construct(p) PROVE OptionalInv' /\ Promised!Next
  <2>1. PICK allocator \in Allocators, value \in Values, fails \in Failures :
           Called("put", p, p, Value(value), Constructed(emplaceValue(WithOptional(p, allocator), p, value, fails), p))
    BY <1>1 DEF Construct
  <2> DEFINE w == WithOptional(p, allocator)
             u == emplaceValue(w, p, value, fails)
             v == Constructed(u, p)
  <2>2. /\ Good(w) /\ ~w.thrown /\ OthersKept(world, w, p)
        /\ w.objects[p].exists /\ BlockOf(w, p) = Null
    BY <1>1, CreateChanges DEF Construct, Exists, OptionalInv, WithOptional
  <2>3. value \in Kept
    BY DEF Kept
  <2> HIDE DEF w
  <2>4. /\ Good(u) /\ OthersKept(w, u, p) /\ u.objects[p].exists
        /\ ContentIn(u, p) = IF u.thrown THEN NoContent ELSE Value(value)
    BY <2>2, <2>3, EmplaceValueChanges
  <2> HIDE DEF u
  <2>5. /\ Good(v) /\ OthersKept(u, v, p) /\ v.thrown = u.thrown
        /\ ContentIn(v, p) = IF v.thrown THEN Promised!NotThere ELSE Value(value)
    <3>1. CASE u.thrown
      BY <2>4, <3>1, DestroyChanges, ContentKinds DEF Constructed
    <3>2. CASE ~u.thrown
      BY <2>4, <3>2 DEF Constructed, OthersKept
    <3> QED
      BY <3>1, <3>2
  <2>6. Called("put", p, p, Value(value), v) /\ ~Exists(p)
    BY <1>1, <2>1 DEF Construct, u, w
  <2> HIDE DEF v
  <2>7. OthersKept(world, v, p)
    BY <2>2, <2>4, <2>5 DEF OthersKept
  <2> QED
    BY <2>5, <2>6, <2>7, PutOrThrow
<1>2. ASSUME Emplace(p) PROVE OptionalInv' /\ Promised!Next
  <2>1. PICK value \in Values, fails \in Failures : Called("put", p, p, Value(value), emplace(world, p, value, fails))
    BY <1>2 DEF Emplace
  <2> DEFINE v == emplace(world, p, value, fails)
  <2>2. value \in Kept /\ Exists(p)
    BY <1>2 DEF Kept, Emplace
  <2>3. /\ Good(v) /\ OthersKept(world, v, p) /\ v.objects[p].exists
        /\ ContentIn(v, p) = IF v.thrown THEN NoContent ELSE Value(value)
    BY <2>2, EmplaceChanges DEF OptionalInv, Exists
  <2> HIDE DEF v
  <2>4. Called("put", p, p, Value(value), v)
    BY <2>1 DEF v
  <2> QED
    BY <2>2, <2>3, <2>4, PutOrThrow
<1> QED
  BY <1>1, <1>2

LEMMA ResetSteps ==
  ASSUME HolderAssumption, OptionalInv, UNCHANGED onHeap, NEW p \in Slots
  PROVE  ConstructEmpty(p) \/ Reset(p) \/ Destroy(p) => OptionalInv' /\ Promised!Next
<1>1. ASSUME NEW v, Good(v), ~v.thrown, OthersKept(world, v, p), ContentIn(v, p) = NoContent,
             Called("reset", p, p, NoContent, v)
      PROVE  OptionalInv' /\ Promised!Next
  <2>1. OptionalInv' /\ call' = Promised!Call("reset", p, p, NoContent, v.thrown) /\ Promised!With(p, NoContent)
    BY <1>1, OneChanges
  <2>2. NoContent = Promised!Empty /\ v.thrown = FALSE
    BY <1>1, ContentKinds DEF Good, Worlds
  <2>3. Promised!Reset(p)
    BY <2>1, <2>2 DEF Promised!Reset
  <2> QED
    BY <2>1, <2>3 DEF Promised!Next
<1>2. ASSUME ConstructEmpty(p) PROVE OptionalInv' /\ Promised!Next
  <2>1. PICK allocator \in Allocators : Called("reset", p, p, NoContent, WithOptional(p, allocator))
    BY <1>2 DEF ConstructEmpty
  <2> DEFINE v == WithOptional(p, allocator)
  <2>2. Good(v) /\ ~v.thrown /\ OthersKept(world, v, p) /\ ContentIn(v, p) = NoContent
    BY <1>2, CreateChanges DEF ConstructEmpty, Exists, OptionalInv, WithOptional
  <2> HIDE DEF v
  <2>3. Called("reset", p, p, NoContent, v)
    BY <2>1 DEF v
  <2> QED
    BY <1>1, <2>2, <2>3
<1>3. ASSUME Reset(p) PROVE OptionalInv' /\ Promised!Next
  <2> DEFINE v == reset(world, p)
  <2>1. Good(v) /\ ~v.thrown /\ OthersKept(world, v, p) /\ ContentIn(v, p) = NoContent
    BY <1>3, ResetChanges DEF Reset, Exists, OptionalInv
  <2>2. Called("reset", p, p, NoContent, v)
    BY <1>3 DEF Reset
  <2> HIDE DEF v
  <2> QED
    BY <1>1, <2>1, <2>2
<1>4. ASSUME Destroy(p) PROVE OptionalInv' /\ Promised!Next
  <2> DEFINE v == DestroyOptional(world, p)
  <2>1. Good(v) /\ ~v.thrown /\ OthersKept(world, v, p) /\ ~v.objects[p].exists
    BY <1>4, DestroyChanges DEF Destroy, Exists, OptionalInv
  <2>2. Called("destroy", p, p, NoContent, v)
    BY <1>4 DEF Destroy
  <2> HIDE DEF v
  <2>3. ContentIn(v, p) = Promised!NotThere /\ NoContent = Promised!Empty /\ v.thrown = FALSE
    BY <2>1, ContentKinds DEF Good, Worlds
  <2>4. OptionalInv' /\ call' = Promised!Call("destroy", p, p, NoContent, v.thrown) /\ Promised!With(p, Promised!NotThere)
    BY <2>1, <2>2, <2>3, OneChanges
  <2>5. Promised!Destroy(p)
    BY <2>3, <2>4 DEF Promised!Destroy
  <2> QED
    BY <2>4, <2>5 DEF Promised!Next
<1> QED
  BY <1>2, <1>3, <1>4

LEMMA CopySteps ==
  ASSUME HolderAssumption, OptionalInv, UNCHANGED onHeap, NEW p \in Slots, NEW o \in Slots
  PROVE  CopyConstruct(p, o) \/ CopyAssign(p, o) => OptionalInv' /\ Promised!Next
<1>1. ASSUME NEW v, Good(v), OthersKept(world, v, p), Called("copy", p, o, NoContent, v), Exists(o),
             ContentIn(v, p) = IF ~v.thrown THEN ContentIn(world, o)
                               ELSE IF Exists(p) THEN NoContent ELSE Promised!NotThere
      PROVE  OptionalInv' /\ Promised!Next
  <2>1. /\ OptionalInv'
        /\ call' = Promised!Call("copy", p, o, NoContent, v.thrown)
        /\ Promised!With(p, ContentIn(v, p))
        /\ ContentOf(p) = ContentIn(world, p) /\ ContentOf(o) = ContentIn(world, o)
    BY <1>1, OneChanges, CalledGood
  <2>2. v.thrown \in BOOLEAN /\ NoContent = Promised!Empty
    BY <1>1, ContentKinds DEF Good, Worlds
  <2>3. CASE ~v.thrown
    <3>1. ContentOf(o) # Promised!NotThere
      BY <1>1, <2>1, ContentKinds DEF Exists
    <3>2. Promised!Copy(p, o)
      BY <1>1, <2>1, <2>2, <2>3, <3>1 DEF Promised!Copy
    <3> QED
      BY <2>1, <3>2 DEF Promised!Next
  <2>4. CASE v.thrown
    <3>1. ContentIn(v, p) = IF ContentOf(p) = Promised!NotThere THEN Promised!NotThere ELSE Promised!Empty
      BY <1>1, <2>1, <2>4, ContentKinds DEF Exists
    <3>2. Promised!Throw(p, o)
      BY <2>1, <2>2, <2>4, <3>1 DEF Promised!Throw
    <3> QED
      BY <2>1, <3>2 DEF Promised!Next
  <2> QED
    BY <2>3, <2>4
<1>2. ASSUME CopyConstruct(p, o) PROVE OptionalInv' /\ Promised!Next
  <2>1. PICK allocator \in Allocators, fails \in Failures :
           Called("copy", p, o, NoContent, Constructed(copy(WithOptional(p, allocator), p, o, fails), p))
    BY <1>2 DEF CopyConstruct
  <2> DEFINE w == WithOptional(p, allocator)
             u == copy(w, p, o, fails)
             v == Constructed(u, p)
  <2>2. ~Exists(p) /\ Exists(o) /\ p # o
    BY <1>2 DEF CopyConstruct
  <2>3. /\ Good(w) /\ ~w.thrown /\ OthersKept(world, w, p) /\ w.objects[p].exists
    BY <2>2, CreateChanges DEF Exists, OptionalInv, WithOptional
  <2> HIDE DEF w
  <2>4. w.objects[o].exists /\ ContentIn(w, o) = ContentIn(world, o)
    BY <2>2, <2>3 DEF OthersKept, Exists
  <2>5. /\ Good(u) /\ OthersKept(w, u, p) /\ u.objects[p].exists
        /\ ContentIn(u, p) = IF u.thrown THEN NoContent ELSE ContentIn(w, o)
    BY <2>3, <2>4, CopyChanges
  <2> HIDE DEF u
  <2>6. /\ Good(v) /\ OthersKept(u, v, p) /\ v.thrown = u.thrown
        /\ ContentIn(v, p) = IF v.thrown THEN Promised!NotThere ELSE ContentIn(w, o)
    <3>1. CASE u.thrown
      BY <2>5, <3>1, DestroyChanges, ContentKinds DEF Constructed
    <3>2. CASE ~u.thrown
      BY <2>5, <3>2 DEF Constructed, OthersKept
    <3> QED
      BY <3>1, <3>2
  <2>7. Called("copy", p, o, NoContent, v)
    BY <2>1 DEF v, u, w
  <2> HIDE DEF v
  <2>8. OthersKept(world, v, p)
    BY <2>3, <2>5, <2>6 DEF OthersKept
  <2> QED
    BY <1>1, <2>2, <2>4, <2>6, <2>7, <2>8
<1>3. ASSUME CopyAssign(p, o) PROVE OptionalInv' /\ Promised!Next
  <2>1. PICK fails \in Failures : Called("copy", p, o, NoContent, copyAssign(world, p, o, fails))
    BY <1>3 DEF CopyAssign
  <2>2. Exists(p) /\ Exists(o)
    BY <1>3 DEF CopyAssign
  <2>3. CASE p = o
    <3>1. Called("copy", p, o, NoContent, world)
      BY <2>1, <2>3 DEF copyAssign
    <3> QED
      BY <1>1, <2>2, <2>3, <3>1 DEF OthersKept, OptionalInv
  <2>4. CASE p # o
    <3> DEFINE u == clear(world, p)
               w == Propagated(u, p, o)
               v == copy(w, p, o, fails)
    <3>1. Good(u) /\ ~u.thrown /\ OthersKept(world, u, p) /\ u.objects[p].exists /\ BlockOf(u, p) = Null
      BY <2>2, ClearChanges DEF OptionalInv, Exists
    <3> HIDE DEF u
    <3>2. u.objects[o].exists
      BY <2>2, <2>4, <3>1 DEF OthersKept, Exists
    <3>3. Good(w) /\ ~w.thrown /\ OthersKept(u, w, p) /\ w.objects[p].exists
      BY <3>1, <3>2, PropagatedChanges
    <3> HIDE DEF w
    <3>4. w.objects[o].exists /\ ContentIn(w, o) = ContentIn(world, o)
      BY <2>4, <3>1, <3>2, <3>3 DEF OthersKept
    <3>5. /\ Good(v) /\ OthersKept(w, v, p) /\ v.objects[p].exists
          /\ ContentIn(v, p) = IF v.thrown THEN NoContent ELSE ContentIn(w, o)
      BY <3>3, <3>4, CopyChanges
    <3>6. Called("copy", p, o, NoContent, v)
      BY <2>1, <2>4 DEF copyAssign, w, u
    <3> HIDE DEF v
    <3>7. OthersKept(world, v, p)
      BY <3>1, <3>3, <3>5 DEF OthersKept
    <3> QED
      BY <1>1, <2>2, <3>4, <3>5, <3>6, <3>7
  <2> QED
    BY <2>3, <2>4
<1> QED
  BY <1>2, <1>3

\* A call that is about two optionals.
LEMMA TwoChange ==
  ASSUME HolderAssumption, OptionalInv, UNCHANGED onHeap, NEW p \in Slots, NEW o \in Slots, NEW v, Good(v),
         \A q \in Slots \ {p, o} : ContentIn(v, q) = ContentIn(world, q),
         NEW operation, NEW content, Called(operation, p, o, content, v)
  PROVE  LET contents == [q \in Slots |-> ContentOf(q)] IN
         /\ OptionalInv'
         /\ call' = Promised!Call(operation, p, o, content, v.thrown)
         /\ p = o => contents' = [contents EXCEPT ![p] = ContentIn(v, p)]
         /\ p # o => contents' = [contents EXCEPT ![p] = ContentIn(v, p), ![o] = ContentIn(v, o)]
<1>1. \A q \in Slots : ContentOf(q) = ContentIn(world, q) /\ ContentOf(q)' = ContentIn(v, q)
  BY CalledGood
<1>2. OptionalInv' /\ call' = Promised!Call(operation, p, o, content, v.thrown)
  BY CalledGood
<1> QED
  BY <1>1, <1>2

LEMMA MoveSteps ==
  ASSUME HolderAssumption, OptionalInv, UNCHANGED onHeap, NEW p \in Slots, NEW o \in Slots
  PROVE  MoveConstruct(p, o) \/ MoveAssign(p, o) => OptionalInv' /\ Promised!Next
<1> DEFINE contents == [q \in Slots |-> ContentOf(q)]
<1>1. ASSUME NEW v, Good(v), \A q \in Slots \ {p, o} : ContentIn(v, q) = ContentIn(world, q),
             Called("move", p, o, NoContent, v), Exists(o), p # o,
             ContentIn(v, p) = (IF ~v.thrown THEN ContentIn(world, o)
                                ELSE IF Exists(p) THEN NoContent ELSE Promised!NotThere),
             IF v.thrown THEN ContentIn(v, o) = ContentIn(world, o)
                         ELSE ContentIn(v, o) \in Promised!Left(ContentIn(world, o))
      PROVE  OptionalInv' /\ Promised!Next
  <2>1. /\ OptionalInv'
        /\ call' = Promised!Call("move", p, o, NoContent, v.thrown)
        /\ contents' = [contents EXCEPT ![p] = ContentIn(v, p), ![o] = ContentIn(v, o)]
    BY <1>1, TwoChange
  <2>2. v.thrown \in BOOLEAN /\ NoContent = Promised!Empty
    BY <1>1, ContentKinds DEF Good, Worlds
  <2>3. ContentOf(p) = ContentIn(world, p) /\ ContentOf(o) = ContentIn(world, o)
    BY <1>1, CalledGood
  <2>4. CASE ~v.thrown
    <3>1. ContentOf(o) # Promised!NotThere
      BY <1>1, <2>3, ContentKinds DEF Exists
    <3>2. Promised!Move(p, o)
      BY <1>1, <2>1, <2>2, <2>3, <2>4, <3>1 DEF Promised!Move
    <3> QED
      BY <2>1, <3>2 DEF Promised!Next
  <2>5. CASE v.thrown
    <3>1. ContentIn(v, p) = IF ContentOf(p) = Promised!NotThere THEN Promised!NotThere ELSE Promised!Empty
      BY <1>1, <2>3, <2>5, ContentKinds DEF Exists
    <3>2. contents' = [contents EXCEPT ![p] = ContentIn(v, p)]
      BY <1>1, <2>1, <2>3, <2>5
    <3>3. Promised!With(p, ContentIn(v, p))
      BY <3>2 DEF Promised!With
    <3>4. Promised!Throw(p, o)
      BY <2>1, <2>2, <2>5, <3>1, <3>3 DEF Promised!Throw
    <3> QED
      BY <2>1, <3>4 DEF Promised!Next
  <2> QED
    BY <2>4, <2>5
<1>2. ASSUME MoveConstruct(p, o) PROVE OptionalInv' /\ Promised!Next
  <2>1. PICK allocator \in Allocators, fails \in MoveFailures :
           Called("move", p, o, NoContent, Constructed(move(WithOptional(p, allocator), p, o, fails), p))
    BY <1>2 DEF MoveConstruct
  <2> DEFINE w == WithOptional(p, allocator)
             u == move(w, p, o, fails)
             v == Constructed(u, p)
  <2>2. ~Exists(p) /\ Exists(o) /\ p # o
    BY <1>2 DEF MoveConstruct
  <2>3. /\ Good(w) /\ ~w.thrown /\ OthersKept(world, w, p) /\ w.objects[p].exists /\ BlockOf(w, p) = Null
    BY <2>2, CreateChanges DEF Exists, OptionalInv, WithOptional
  <2> HIDE DEF w
  <2>4. w.objects[o].exists /\ ContentIn(w, o) = ContentIn(world, o)
    BY <2>2, <2>3 DEF OthersKept, Exists
  <2>5. /\ Good(u) /\ u.objects[p].exists
        /\ \A q \in Slots \ {p, o} : ContentIn(u, q) = ContentIn(w, q)
        /\ ContentIn(u, p) = IF u.thrown THEN NoContent ELSE ContentIn(w, o)
        /\ IF u.thrown THEN ContentIn(u, o) = ContentIn(w, o)
                       ELSE ContentIn(u, o) \in Promised!Left(ContentIn(w, o))
    BY <2>2, <2>3, <2>4, MoveChanges
  <2> HIDE DEF u
  <2>6. /\ Good(v) /\ OthersKept(u, v, p) /\ v.thrown = u.thrown
        /\ ContentIn(v, p) = IF v.thrown THEN Promised!NotThere ELSE ContentIn(w, o)
    <3>1. CASE u.thrown
      BY <2>5, <3>1, DestroyChanges, ContentKinds DEF Constructed
    <3>2. CASE ~u.thrown
      BY <2>5, <3>2 DEF Constructed, OthersKept
    <3> QED
      BY <3>1, <3>2
  <2>7. Called("move", p, o, NoContent, v)
    BY <2>1 DEF v, u, w
  <2> HIDE DEF v
  <2>8. \A q \in Slots \ {p, o} : ContentIn(v, q) = ContentIn(world, q)
    BY <2>3, <2>5, <2>6 DEF OthersKept
  <2>9. ContentIn(v, o) = ContentIn(u, o)
    BY <2>2, <2>6 DEF OthersKept
  <2> QED
    BY <1>1, <2>2, <2>4, <2>5, <2>6, <2>7, <2>8, <2>9
<1>3. ASSUME MoveAssign(p, o) PROVE OptionalInv' /\ Promised!Next
  <2>1. PICK fails \in MoveFailures : Called("move", p, o, NoContent, moveAssign(world, p, o, fails))
    BY <1>3 DEF MoveAssign
  <2>2. Exists(p) /\ Exists(o)
    BY <1>3 DEF MoveAssign
  <2>3. CASE p = o
    <3>1. Called("move", p, p, NoContent, world) /\ Good(world) /\ world.thrown = FALSE
      BY <2>1, <2>3 DEF moveAssign, OptionalInv, Good, Worlds
    <3>2. OptionalInv' /\ call' = Promised!Call("move", p, p, NoContent, FALSE)
          /\ \A q \in Slots : ContentOf(q)' = ContentOf(q)
      BY <3>1, CalledGood
    <3>3. contents' = contents
      BY <3>2
    <3>4. ContentOf(p) # Promised!NotThere
      BY <2>2, <3>1, CalledGood, ContentKinds DEF Exists
    <3>5. Promised!MoveToItself(p)
      BY <3>2, <3>3, <3>4, ContentKinds DEF Promised!MoveToItself
    <3> QED
      BY <3>2, <3>5 DEF Promised!Next
  <2>4. CASE p # o
    <3> DEFINE u == clear(world, p)
               w == Propagated(u, p, o)
               v == move(w, p, o, fails)
    <3>1. Good(u) /\ ~u.thrown /\ OthersKept(world, u, p) /\ u.objects[p].exists /\ BlockOf(u, p) = Null
      BY <2>2, ClearChanges DEF OptionalInv, Exists
    <3> HIDE DEF u
    <3>2. u.objects[o].exists
      BY <2>2, <2>4, <3>1 DEF OthersKept, Exists
    <3>3. Good(w) /\ ~w.thrown /\ OthersKept(u, w, p) /\ w.objects[p].exists /\ BlockOf(w, p) = Null
      BY <3>1, <3>2, PropagatedChanges
    <3> HIDE DEF w
    <3>4. w.objects[o].exists /\ ContentIn(w, o) = ContentIn(world, o)
      BY <2>4, <3>1, <3>2, <3>3 DEF OthersKept
    <3>5. /\ Good(v) /\ v.objects[p].exists
          /\ \A q \in Slots \ {p, o} : ContentIn(v, q) = ContentIn(w, q)
          /\ ContentIn(v, p) = IF v.thrown THEN NoContent ELSE ContentIn(w, o)
          /\ IF v.thrown THEN ContentIn(v, o) = ContentIn(w, o)
                         ELSE ContentIn(v, o) \in Promised!Left(ContentIn(w, o))
      BY <2>4, <3>3, <3>4, MoveChanges
    <3>6. Called("move", p, o, NoContent, v)
      BY <2>1, <2>4 DEF moveAssign, w, u
    <3> HIDE DEF v
    <3>7. \A q \in Slots \ {p, o} : ContentIn(v, q) = ContentIn(world, q)
      BY <3>1, <3>3, <3>5 DEF OthersKept
    <3> QED
      BY <1>1, <2>2, <2>4, <3>4, <3>5, <3>6, <3>7
  <2> QED
    BY <2>3, <2>4
<1> QED
  BY <1>2, <1>3

LEMMA SwapSteps ==
  ASSUME HolderAssumption, ~SwapsUnequal, OptionalInv, UNCHANGED onHeap, NEW p \in Slots, NEW o \in Slots
  PROVE  SwapOptionals(p, o) => OptionalInv' /\ Promised!Next
<1> SUFFICES ASSUME SwapOptionals(p, o) PROVE OptionalInv' /\ Promised!Next
  OBVIOUS
<1> DEFINE v == swap(world, p, o)
           contents == [q \in Slots |-> ContentOf(q)]
<1>1. /\ Good(v) /\ v.thrown = world.thrown
      /\ \A q \in Slots \ {p, o} : ContentIn(v, q) = ContentIn(world, q)
      /\ ContentIn(v, p) = ContentIn(world, o) /\ ContentIn(v, o) = ContentIn(world, p)
  BY SwapChanges DEF SwapOptionals, Exists, OptionalInv
<1>2. Called("swap", p, o, NoContent, v)
  BY DEF SwapOptionals
<1> HIDE DEF v
<1>3. /\ OptionalInv'
      /\ call' = Promised!Call("swap", p, o, NoContent, v.thrown)
      /\ p = o => contents' = [contents EXCEPT ![p] = ContentIn(v, p)]
      /\ p # o => contents' = [contents EXCEPT ![p] = ContentIn(v, p), ![o] = ContentIn(v, o)]
  BY <1>1, <1>2, TwoChange
<1>4. ContentOf(p) = ContentIn(world, p) /\ ContentOf(o) = ContentIn(world, o)
      /\ v.thrown = FALSE /\ NoContent = Promised!Empty
  BY <1>1, <1>2, CalledGood, ContentKinds DEF OptionalInv, Good, Worlds
<1>5. contents' = [contents EXCEPT ![p] = ContentOf(o), ![o] = ContentOf(p)]
  BY <1>1, <1>3, <1>4
<1>6. Promised!Swap(p, o)
  BY <1>3, <1>4, <1>5 DEF Promised!Swap
<1> QED
  BY <1>3, <1>6 DEF Promised!Next

-------------------------------------------------------------------------------
(* The theorems. Containers that keep apart from each other's blocks are     *)
(* not swapped: the standard leaves undefined what that does.               *)

LEMMA OptionalStarts ==
  ASSUME HolderAssumption
  PROVE  InitOptionals => OptionalInv /\ Promised!Init
<1> SUFFICES ASSUME InitOptionals PROVE OptionalInv /\ Promised!Init
  OBVIOUS
<1>1. world = EmptyWorld /\ traits \in AllocatorTypes /\ onHeap \in BOOLEAN /\ call.operation = "none"
  BY DEF InitOptionals, InitWorld
<1>2. /\ world \in Worlds /\ world.thrown = FALSE /\ world.misused = FALSE
      /\ \A p \in Places : world.objects[p] = Nothing
      /\ \A b \in Blocks : world.heap[b] = Free
  BY <1>1 DEF EmptyWorld, Worlds, Places
<1>3. ~Nothing.exists /\ ~Free.live /\ Tmp \in Places /\ Slots \subseteq Places
  BY DEF Nothing, Free, Places
<1>4. \A p \in Slots : BlockOf(world, p) = Null /\ ~world.objects[p].exists
  BY <1>2, <1>3 DEF BlockOf
<1>5. Good(world)
  BY <1>2, <1>3, <1>4 DEF Good
<1>6. \A p \in Slots : ContentOf(p) = Promised!NotThere
  BY <1>4 DEF ContentOf, Exists, Promised!NotThere
<1>7. Promised!Init
  BY <1>1, <1>6 DEF Promised!Init
<1> QED
  BY <1>1, <1>2, <1>5, <1>7 DEF OptionalInv, HolderAssumption

LEMMA OptionalSteps ==
  ASSUME HolderAssumption, ~SwapsUnequal
  PROVE  OptionalInv /\ [NextOptionals]_optionalVars => OptionalInv' /\ [Promised!Next]_(Promised!holderVars)
<1> SUFFICES ASSUME OptionalInv, [NextOptionals]_optionalVars
             PROVE  OptionalInv' /\ [Promised!Next]_(Promised!holderVars)
  OBVIOUS
<1>1. CASE NextOptionals
  BY <1>1, PutSteps, ResetSteps, CopySteps, MoveSteps, SwapSteps DEF NextOptionals
<1>2. CASE UNCHANGED optionalVars
  <2>1. world' = world /\ traits' = traits /\ call' = call /\ onHeap' = onHeap
    BY <1>2 DEF optionalVars, heldVars
  <2>2. OptionalInv'
    BY <2>1 DEF OptionalInv, Good, Worlds, Objects, Cells, Datum, BlockOf, Data, AllocatorOf
  <2>3. \A p \in Slots : ContentOf(p)' = ContentOf(p)
    BY <2>1 DEF ContentOf, Exists, has_value, valueOf, Data
  <2>4. UNCHANGED Promised!holderVars
    BY <2>1, <2>3 DEF Promised!holderVars
  <2> QED
    BY <2>2, <2>4
<1> QED
  BY <1>1, <1>2

LEMMA OptionalInvariant ==
  ASSUME HolderAssumption, ~SwapsUnequal
  PROVE  OptionalSpec => []OptionalInv
<1>1. InitOptionals => OptionalInv
  BY OptionalStarts
<1>2. OptionalInv /\ [NextOptionals]_optionalVars => OptionalInv'
  BY OptionalSteps
<1> QED
  BY <1>1, <1>2, PTL DEF OptionalSpec

LEMMA GoodInOrder ==
  ASSUME HolderAssumption, OptionalInv
  PROVE  OneOwner
<1>1. \A p \in Slots : Owned[p] = IF BlockOf(world, p) = Null THEN {} ELSE {BlockOf(world, p)}
  <2> TAKE p \in Slots
  <2>1. world.objects[p].exists /\ ~world.objects[p].engaged => Data(world, p) = Null
    BY DEF OptionalInv, Good
  <2> QED
    BY <2>1 DEF Owned, BlockOf, has_value, Exists
<1>2. \A p \in Slots : \A b \in Owned[p] : world.heap[b].allocator = AllocatorOf(world, p)
  <2> TAKE p \in Slots
  <2> TAKE b \in Owned[p]
  <2>1. b = BlockOf(world, p) /\ b # Null
    BY <1>1
  <2> QED
    BY <2>1 DEF OptionalInv, Good
<1>3. ASSUME NEW b \in Blocks
      PROVE  Cardinality({p \in Slots : b \in Owned[p]}) = IF world.heap[b].live THEN 1 ELSE 0
  <2>1. b # Null
    BY DEF HolderAssumption
  <2>2. \A p \in Slots : b \in Owned[p] <=> BlockOf(world, p) = b
    BY <1>1, <2>1
  <2>3. CASE world.heap[b].live
    <3>1. PICK p \in Slots : BlockOf(world, p) = b
      BY <2>3 DEF OptionalInv, Good
    <3>2. \A q \in Slots : BlockOf(world, q) = b => q = p
      BY <2>1, <3>1 DEF OptionalInv, Good
    <3>3. {q \in Slots : b \in Owned[q]} = {p}
      BY <2>2, <3>1, <3>2
    <3> QED
      BY <2>3, <3>3, FS_Singleton
  <2>4. CASE ~world.heap[b].live
    <3>1. \A q \in Slots : BlockOf(world, q) # b
      BY <2>1, <2>4 DEF OptionalInv, Good
    <3>2. {q \in Slots : b \in Owned[q]} = {}
      BY <2>2, <3>1
    <3> QED
      BY <2>4, <3>2, FS_EmptySet
  <2> QED
    BY <2>3, <2>4
<1> QED
  BY <1>2, <1>3 DEF OneOwner, InOrder, OptionalInv, Good

\* Every block is owned by one optional, whose allocator it is from, and returned to that one once:
\* any number of optionals, of allocators that propagate or do not, and whatever throws.
THEOREM OptionalsHaveOneOwner ==
  ASSUME HolderAssumption, ~SwapsUnequal
  PROVE  OptionalSpec => []OneOwner
<1>1. OptionalInv => OneOwner
  BY GoodInOrder
<1>2. OptionalSpec => []OptionalInv
  BY OptionalInvariant
<1> QED
  BY <1>1, <1>2, PTL

\* Every call on an optional does to the values what ValueHolder says of it: the one that is copied,
\* moved or swapped is there, the others are as they were, and behind a throw there is none.
THEOREM OptionalsImplementHolder ==
  ASSUME HolderAssumption, ~SwapsUnequal
  PROVE  OptionalSpec => ImplementsHolder
<1>1. InitOptionals => Promised!Init
  BY OptionalStarts
<1>2. OptionalInv /\ [NextOptionals]_optionalVars => [Promised!Next]_(Promised!holderVars)
  BY OptionalSteps
<1>3. OptionalSpec => []OptionalInv
  BY OptionalInvariant
<1> QED
  BY <1>1, <1>2, <1>3, PTL DEF OptionalSpec, ImplementsHolder, Promised!Spec
===============================================================================
