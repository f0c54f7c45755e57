----------------------------- MODULE VariantProofs -----------------------------
(***************************************************************************)
(* Proofs about variants, for any number of them, of alternatives and of   *)
(* allocators, whatever throws: every block has at most one owner          *)
(* (OneOwner), only a call that throws loses one (KeepsOrder), and a call  *)
(* does what it says (ImplementsHolder).                                   *)
(***************************************************************************)
EXTENDS Variant, NaturalsInduction, WellFoundedInduction, TLAPS

Places == Slots \union {Tmp}

Types == {AlternativeTypes[i] : i \in Index} \union {"none"}

\* What is held in place or in a block, with a value or without.
Holders == [type : Types, value : Values \union {NoValue}]

Objects ==
    [exists : {TRUE}, allocator : Allocators, isInPlace : BOOLEAN, heap : Blocks \union {Null, Wild},
     inPlace : Holders, index : Index]

Cells == [live : {TRUE}, allocator : Allocators, content : Holders]

Worlds ==
    [objects : [Places -> Objects \union {Nothing}],
     heap : [Blocks -> Cells \union {Free}],
     thrown : BOOLEAN, misused : BOOLEAN]

\* The block a container owns, or Null.
BlockOf(w, p) == IF w.objects[p].exists /\ OnHeap(w, p) THEN w.objects[p].heap ELSE Null

HolderOf(w, p) == getUntypedHolder(w, p)

\* A block that is owned is in use, and has one owner. It may be from another allocator than its
\* owner's, and a block may have no owner.
Good(w) ==
    /\ w \in Worlds
    /\ \A p \in Places : BlockOf(w, p) # Null => w.heap[BlockOf(w, p)].live
    /\ \A p, q \in Places : BlockOf(w, p) = BlockOf(w, q) /\ BlockOf(w, p) # Null => p = q

\* Those that have none.
LostIn(w) == {b \in Blocks : w.heap[b].live /\ \A p \in Places : BlockOf(w, p) # b}

LosesOne(w, v) == \E b \in Blocks : LostIn(v) = LostIn(w) \union {b}

Astray(w, p) == Foreign(w, p) \/ (w.objects[p].exists /\ IsWild(w, p))

\* There is a container, and nothing is in it.
Vacant(w, p) == w.objects[p].exists /\ ~w.objects[p].isInPlace /\ w.objects[p].heap = Null

\* What p of v has is what o of w has.
Carries(w, o, v, p) ==
    /\ HolderOf(v, p) = HolderOf(w, o)
    /\ IsWild(v, p) <=> IsWild(w, o)
    /\ Foreign(v, p) => Foreign(w, o)

\* The container and what it has are the same.
Same(w, v, q) ==
    /\ v.objects[q] = w.objects[q]
    /\ w.objects[q].exists => HolderOf(v, q) = HolderOf(w, q)
    /\ Foreign(v, q) <=> Foreign(w, q)

\* The containers but p are the same.
OthersKept(w, v, p) == \A q \in Places \ {p} : Same(w, v, q)

BothKept(w, v, p, o) == \A q \in Places \ {p, o} : Same(w, v, q)

\* The container is the same one, with whatever holder.
SameAny(w, v, p) ==
    v.objects[p].exists /\ AllocatorOf(v, p) = AllocatorOf(w, p) /\ IndexOf(v, p) = IndexOf(w, p)

-------------------------------------------------------------------------------
(* The next block.                                                         *)

\* A set of natural numbers that is not empty has a least element.
LEMMA LeastNatural ==
  ASSUME NEW T, T \subseteq Nat, T # {}
  PROVE  \E n \in T : \A m \in T : ~(m < n)
<1> DEFINE R == OpToRel(<, Nat)
<1>1. IsWellFoundedOn(R, Nat)
  BY NatLessThanWellFounded
<1>2. \A i, j \in Nat : i < j => <<i, j>> \in R
  BY DEF OpToRel
<1> HIDE DEF R
<1>3. \E x \in T : \A y \in T : ~(<<y, x>> \in R)
  BY ONLY T \subseteq Nat, T # {}, <1>1, WFMin, Zenon
<1> QED
  BY <1>2, <1>3

\* The next block is one that is free, if there is memory.
LEMMA NextBlockIsFree ==
  ASSUME HolderAssumption, NEW w, ~NoMemory(w)
  PROVE  NextBlock(w) \in Blocks /\ NextBlock(w) # Null /\ ~w.heap[NextBlock(w)].live
<1> DEFINE T == {b \in Blocks : ~w.heap[b].live}
<1>1. T # {}
  BY DEF NoMemory
<1>2. PICK b \in T : \A c \in T : ~(c < b)
  <2>1. T \subseteq Nat
    BY DEF HolderAssumption
  <2> HIDE DEF T
  <2> QED
    BY <1>1, <2>1, LeastNatural
<1>3. b \in Blocks /\ ~w.heap[b].live /\ \A c \in Blocks : c < b => w.heap[c].live
  BY <1>2
<1>4. NextBlock(w) \in Blocks /\ ~w.heap[NextBlock(w)].live
  BY <1>3 DEF NextBlock
<1> QED
  BY <1>4 DEF HolderAssumption

-------------------------------------------------------------------------------
(* What the functions of an any do.                                        *)

\* What is at a place and in a block.
LEMMA WorldFields ==
  ASSUME HolderAssumption, NEW w, w \in Worlds
  PROVE  /\ \A p \in Places : w.objects[p].exists => w.objects[p] \in Objects
         /\ \A p \in Places : ~w.objects[p].exists => w.objects[p] = Nothing
         /\ \A p \in Places : BlockOf(w, p) \in Blocks \union {Null}
         /\ \A b \in Blocks : w.heap[b].live => w.heap[b] \in Cells
         /\ \A b \in Blocks : ~w.heap[b].live => w.heap[b] = Free
<1>1. /\ w.heap \in [Blocks -> Cells \union {Free}]
      /\ w.objects \in [Places -> Objects \union {Nothing}]
  BY DEF Worlds
<1>2. \A p \in Places : w.objects[p] \in Objects \/ w.objects[p] = Nothing
  BY <1>1
<1>3. ~Nothing.exists /\ \A object \in Objects : object.exists /\ object.heap \in Blocks \union {Null, Wild}
  BY DEF Nothing, Objects
<1>4. ~Free.live /\ \A cell \in Cells : cell.live
  BY DEF Free, Cells
<1>5. \A b \in Blocks : w.heap[b] \in Cells \/ w.heap[b] = Free
  BY <1>1
<1>6. \A p \in Places : BlockOf(w, p) \in Blocks \union {Null}
  BY <1>2, <1>3 DEF BlockOf, OnHeap, HasHeap, IsWild
<1> QED
  BY <1>2, <1>3, <1>4, <1>5, <1>6

\* What is at a place on the heap, or not.
LEMMA OnHeapIsBlock ==
  ASSUME HolderAssumption, NEW w, Good(w), NEW p \in Places, w.objects[p].exists, OnHeap(w, p)
  PROVE  /\ w.objects[p].heap \in Blocks /\ BlockOf(w, p) = w.objects[p].heap /\ BlockOf(w, p) # Null
         /\ w.heap[w.objects[p].heap].live /\ w.heap[w.objects[p].heap] \in Cells
<1>1. w \in Worlds
  BY DEF Good
<1>2. BlockOf(w, p) = w.objects[p].heap /\ BlockOf(w, p) # Null
  BY DEF BlockOf, OnHeap, HasHeap
<1>3. w.objects[p].heap \in Blocks
  BY <1>1, <1>2, WorldFields
<1>4. w.heap[w.objects[p].heap].live
  BY <1>2 DEF Good
<1> QED
  BY <1>1, <1>2, <1>3, <1>4, WorldFields

LEMMA VacantHolder ==
  ASSUME NEW w, NEW p, Vacant(w, p)
  PROVE  /\ HolderOf(w, p) = NoHolder /\ HolderOf(w, p).value = NoValue /\ BlockOf(w, p) = Null
         /\ ~OnHeap(w, p) /\ ~hasHolder(w, p) /\ ~IsWild(w, p) /\ ~Foreign(w, p) /\ ~Astray(w, p)
<1>1. ~OnHeap(w, p) /\ ~IsWild(w, p) /\ ~w.objects[p].isInPlace
  BY DEF Vacant, OnHeap, HasHeap, IsWild, Null, Wild
<1> QED
  BY <1>1 DEF Vacant, HolderOf, getUntypedHolder, BlockOf, hasHolder, Foreign, Astray, NoHolder, Holder

\* A place whose container and block are the same.
LEMMA SameIfKept ==
  ASSUME NEW w, NEW v, NEW q, v.objects[q] = w.objects[q],
         BlockOf(w, q) # Null => v.heap[BlockOf(w, q)] = w.heap[BlockOf(w, q)]
  PROVE  Same(w, v, q) /\ BlockOf(v, q) = BlockOf(w, q)
<1>1. (OnHeap(v, q) <=> OnHeap(w, q)) /\ AllocatorOf(v, q) = AllocatorOf(w, q)
  BY DEF OnHeap, HasHeap, IsWild, AllocatorOf
<1>2. BlockOf(v, q) = BlockOf(w, q)
  BY <1>1 DEF BlockOf
<1>3. CASE w.objects[q].exists /\ OnHeap(w, q)
  <2>1. v.heap[w.objects[q].heap] = w.heap[w.objects[q].heap]
    BY <1>3 DEF BlockOf, OnHeap, HasHeap
  <2>2. HolderOf(v, q) = HolderOf(w, q)
    BY <1>1, <1>3, <2>1 DEF HolderOf, getUntypedHolder
  <2>3. Foreign(v, q) <=> Foreign(w, q)
    BY <1>1, <1>3, <2>1 DEF Foreign
  <2> QED
    BY <1>2, <2>2, <2>3 DEF Same
<1>4. CASE ~(w.objects[q].exists /\ OnHeap(w, q))
  <2>1. ~Foreign(v, q) /\ ~Foreign(w, q)
    BY <1>1, <1>4 DEF Foreign
  <2>2. w.objects[q].exists => HolderOf(v, q) = HolderOf(w, q)
    BY <1>1, <1>4 DEF HolderOf, getUntypedHolder
  <2> QED
    BY <1>2, <2>1, <2>2 DEF Same
<1> QED
  BY <1>3, <1>4

\* A place that is the same goes on being so.
LEMMA SameAgain ==
  ASSUME NEW w, NEW u, NEW v, NEW q, Same(w, u, q), Same(u, v, q)
  PROVE  Same(w, v, q)
BY DEF Same

LEMMA SameCarries ==
  ASSUME NEW w, NEW v, NEW q, Same(w, v, q), w.objects[q].exists
  PROVE  Carries(w, q, v, q) /\ SameAny(w, v, q) /\ (Astray(v, q) <=> Astray(w, q)) /\ (Vacant(w, q) => Vacant(v, q))
BY DEF Same, Carries, IsWild, SameAny, AllocatorOf, IndexOf, Astray, Vacant

LEMMA KeptAgain ==
  ASSUME NEW w, NEW u, NEW v, NEW p, OthersKept(w, u, p), OthersKept(u, v, p)
  PROVE  OthersKept(w, v, p)
BY SameAgain DEF OthersKept

\* A container is replaced, with its block: the one it had before is free, and the one it has was
\* nobody else's.
LEMMA Replaced ==
  ASSUME HolderAssumption, NEW w, Good(w), NEW p \in Places, NEW v \in Worlds,
         \A q \in Places \ {p} : v.objects[q] = w.objects[q],
         \A b \in Blocks : b # BlockOf(w, p) /\ b # BlockOf(v, p) => v.heap[b] = w.heap[b],
         BlockOf(v, p) # Null =>
            /\ v.heap[BlockOf(v, p)].live
            /\ BlockOf(v, p) = BlockOf(w, p) \/ ~w.heap[BlockOf(v, p)].live,
         BlockOf(w, p) # Null /\ BlockOf(w, p) # BlockOf(v, p) => ~v.heap[BlockOf(w, p)].live
  PROVE  Good(v) /\ OthersKept(w, v, p) /\ LostIn(v) = LostIn(w)
<1>1. \A q \in Places : BlockOf(w, q) \in Blocks \union {Null}
  BY WorldFields DEF Good
<1>2. ASSUME NEW q \in Places \ {p}, BlockOf(w, q) # Null
      PROVE  BlockOf(w, q) # BlockOf(v, p) /\ v.heap[BlockOf(w, q)] = w.heap[BlockOf(w, q)]
  <2>1. BlockOf(w, q) \in Blocks /\ w.heap[BlockOf(w, q)].live /\ BlockOf(w, q) # BlockOf(w, p)
    BY <1>1, <1>2 DEF Good
  <2>2. BlockOf(w, q) # BlockOf(v, p)
    BY <1>2, <2>1
  <2> QED
    BY <2>1, <2>2
<1>3. \A q \in Places \ {p} : Same(w, v, q) /\ BlockOf(v, q) = BlockOf(w, q)
  BY <1>2, SameIfKept
<1>4. ASSUME NEW q \in Places, BlockOf(v, q) # Null
      PROVE  v.heap[BlockOf(v, q)].live
  <2>1. CASE q = p
    BY <1>4, <2>1
  <2>2. CASE q # p
    BY <1>2, <1>3, <1>4, <2>2 DEF Good
  <2> QED
    BY <2>1, <2>2
<1>5. \A q, r \in Places : BlockOf(v, q) = BlockOf(v, r) /\ BlockOf(v, q) # Null => q = r
  <2>1. \A q, r \in Places : BlockOf(w, q) = BlockOf(w, r) /\ BlockOf(w, q) # Null => q = r
    BY DEF Good
  <2>2. \A q \in Places \ {p} : BlockOf(v, q) # Null => BlockOf(v, q) # BlockOf(v, p)
    BY <1>2, <1>3
  <2> QED
    BY <1>3, <2>1, <2>2
<1>6. Good(v)
  BY <1>4, <1>5 DEF Good
<1>7. ASSUME NEW b \in LostIn(v) PROVE b \in LostIn(w)
  <2>1. b \in Blocks /\ v.heap[b].live /\ \A q \in Places : BlockOf(v, q) # b
    BY DEF LostIn
  <2>2. b # Null /\ b # BlockOf(w, p)
    BY <2>1 DEF HolderAssumption
  <2>3. w.heap[b].live
    BY <2>1, <2>2
  <2> QED
    BY <1>3, <2>1, <2>2, <2>3 DEF LostIn
<1>8. ASSUME NEW b \in LostIn(w) PROVE b \in LostIn(v)
  <2>1. b \in Blocks /\ w.heap[b].live /\ \A q \in Places : BlockOf(w, q) # b
    BY DEF LostIn
  <2>2. b # Null /\ b # BlockOf(v, p)
    BY <2>1 DEF HolderAssumption
  <2>3. v.heap[b].live
    BY <2>1, <2>2
  <2> QED
    BY <1>3, <2>1, <2>2, <2>3 DEF LostIn
<1>9. OthersKept(w, v, p) /\ LostIn(v) = LostIn(w)
  BY <1>3, <1>7, <1>8 DEF OthersKept
<1> QED
  BY <1>6, <1>9

\* Nothing but the flags of a world is another one.
LEMMA FlagChanges ==
  ASSUME HolderAssumption, NEW w, Good(w), NEW v \in Worlds, v.objects = w.objects, v.heap = w.heap
  PROVE  /\ Good(v) /\ LostIn(v) = LostIn(w)
         /\ \A q \in Places : Same(w, v, q) /\ (Vacant(w, q) <=> Vacant(v, q)) /\ HolderOf(v, q) = HolderOf(w, q)
<1>1. \A q \in Places : Same(w, v, q) /\ BlockOf(v, q) = BlockOf(w, q)
  BY SameIfKept
<1>2. Good(v)
  BY <1>1 DEF Good
<1>3. LostIn(v) = LostIn(w)
  BY <1>1 DEF LostIn
<1>4. \A q \in Places : (Vacant(w, q) <=> Vacant(v, q)) /\ HolderOf(v, q) = HolderOf(w, q)
  BY DEF Vacant, HolderOf, getUntypedHolder, OnHeap, HasHeap, IsWild
<1> QED
  BY <1>1, <1>2, <1>3, <1>4

LEMMA ThrownChanges ==
  ASSUME HolderAssumption, NEW w, Good(w)
  PROVE  LET v == Thrown(w) IN
         Good(v) /\ v \in Worlds /\ v.thrown /\ v.misused = w.misused /\ v.objects = w.objects /\ v.heap = w.heap
<1>1. LET v == Thrown(w) IN
      v \in Worlds /\ v.thrown /\ v.objects = w.objects /\ v.heap = w.heap /\ v.misused = w.misused
  BY DEF Good, Worlds, Thrown
<1> QED
  BY <1>1, FlagChanges

LEMMA UndefinedChanges ==
  ASSUME HolderAssumption, NEW w, Good(w)
  PROVE  LET v == Undefined(w) IN
         Good(v) /\ v \in Worlds /\ v.misused /\ v.thrown = w.thrown /\ v.objects = w.objects /\ v.heap = w.heap
<1>1. LET v == Undefined(w) IN
      v \in Worlds /\ v.misused /\ v.objects = w.objects /\ v.heap = w.heap /\ v.thrown = w.thrown
  BY DEF Good, Worlds, Undefined
<1> QED
  BY <1>1, FlagChanges

\* A block that its owner returns is free, and one that is allocated has what it is for.
LEMMA HeapOperations ==
  ASSUME HolderAssumption, NEW w, Good(w), NEW b \in Blocks, NEW allocator \in Allocators, NEW holder \in Holders
  PROVE  /\ w.heap[b].live =>
                LET v == deallocate(w, b, allocator) IN
                /\ v \in Worlds /\ v.objects = w.objects /\ v.thrown = w.thrown
                /\ v.misused <=> w.misused \/ w.heap[b].allocator # allocator
                /\ ~v.heap[b].live /\ \A c \in Blocks \ {b} : v.heap[c] = w.heap[c]
         /\ LET v == allocate(w, allocator, holder) IN
            b = NextBlock(w) =>
                /\ v \in Worlds /\ v.misused = w.misused /\ v.objects = w.objects /\ v.thrown = w.thrown
                /\ v.heap[b] = Block(allocator, holder) /\ \A c \in Blocks \ {b} : v.heap[c] = w.heap[c]
<1>1. ASSUME w.heap[b].live
      PROVE  LET v == deallocate(w, b, allocator) IN
             /\ v \in Worlds /\ v.objects = w.objects /\ v.thrown = w.thrown
             /\ v.misused <=> w.misused \/ w.heap[b].allocator # allocator
             /\ ~v.heap[b].live /\ \A c \in Blocks \ {b} : v.heap[c] = w.heap[c]
  <2> DEFINE misused == w.misused \/ ~w.heap[b].live \/ w.heap[b].allocator # allocator
  <2>1. misused \in BOOLEAN /\ (misused <=> w.misused \/ w.heap[b].allocator # allocator)
    BY <1>1 DEF Good, Worlds
  <2>2. deallocate(w, b, allocator) = [w EXCEPT !.heap[b] = Free, !.misused = misused]
    BY DEF deallocate
  <2> HIDE DEF misused
  <2>3. w \in Worlds /\ ~Free.live
    BY DEF Good, Free
  <2> DEFINE v == [w EXCEPT !.heap[b] = Free, !.misused = misused]
  <2>4. v.misused = misused /\ v.objects = w.objects /\ v.thrown = w.thrown /\ v.heap = [w.heap EXCEPT ![b] = Free]
        /\ v \in Worlds
    BY <2>1, <2>3 DEF Worlds
  <2>5. ~v.heap[b].live /\ \A c \in Blocks \ {b} : v.heap[c] = w.heap[c]
    BY <2>3, <2>4 DEF Worlds
  <2> HIDE DEF v
  <2> QED
    BY <2>1, <2>2, <2>4, <2>5 DEF v
<1>2. Block(allocator, holder) \in Cells
  BY DEF Block, Cells
<1>3. ASSUME b = NextBlock(w)
      PROVE  LET v == allocate(w, allocator, holder) IN
             /\ v \in Worlds /\ v.misused = w.misused /\ v.objects = w.objects /\ v.thrown = w.thrown
             /\ v.heap[b] = Block(allocator, holder) /\ \A c \in Blocks \ {b} : v.heap[c] = w.heap[c]
  BY <1>2, <1>3 DEF allocate, Good, Worlds
<1> QED
  BY <1>1, <1>3

\* A block that nobody has the address of.
LEMMA LeakChanges ==
  ASSUME HolderAssumption, NEW w, Good(w), ~NoMemory(w), NEW allocator \in Allocators, NEW holder \in Holders
  PROVE  LET v == allocate(w, allocator, holder) IN
         /\ Good(v) /\ v.misused = w.misused /\ v.objects = w.objects /\ LosesOne(w, v)
         /\ \A q \in Places : Same(w, v, q)
<1> DEFINE v == allocate(w, allocator, holder)
           b == NextBlock(w)
<1>1. b \in Blocks /\ b # Null /\ ~w.heap[b].live
  BY NextBlockIsFree
<1>2. /\ v \in Worlds /\ v.misused = w.misused /\ v.objects = w.objects
      /\ v.heap[b] = Block(allocator, holder) /\ \A c \in Blocks \ {b} : v.heap[c] = w.heap[c]
  BY <1>1, HeapOperations
<1> HIDE DEF v, b
<1>3. \A q \in Places : BlockOf(w, q) # Null => BlockOf(w, q) \in Blocks \ {b}
  BY <1>1, WorldFields DEF Good
<1>4. \A q \in Places : Same(w, v, q) /\ BlockOf(v, q) = BlockOf(w, q)
  BY <1>2, <1>3, SameIfKept
<1>5. Good(v)
  BY <1>2, <1>3, <1>4 DEF Good
<1>6. v.heap[b].live
  BY <1>2 DEF Block
<1>7. LostIn(v) = LostIn(w) \union {b}
  <2>1. \A q \in Places : BlockOf(v, q) # b
    BY <1>1, <1>3, <1>4
  <2>2. b \in LostIn(v)
    BY <1>1, <1>6, <2>1 DEF LostIn
  <2>3. \A c \in Blocks \ {b} : c \in LostIn(v) <=> c \in LostIn(w)
    BY <1>2, <1>4 DEF LostIn
  <2>4. LostIn(v) \subseteq Blocks /\ LostIn(w) \subseteq Blocks
    BY DEF LostIn
  <2> QED
    BY <2>2, <2>3, <2>4
<1>8. LosesOne(w, v)
  BY <1>1, <1>7 DEF LosesOne
<1> QED
  BY <1>2, <1>4, <1>5, <1>8 DEF v

\* Only the container is another one.
SameBut(w, v, p) ==
    /\ v \in Worlds /\ v.heap = w.heap /\ v.thrown = w.thrown /\ v.misused = w.misused
    /\ v.objects[p].exists
    /\ \A q \in Places \ {p} : v.objects[q] = w.objects[q]

\* What is set of a container.
LEMMA AnySets ==
  ASSUME HolderAssumption, NEW w \in Worlds, NEW p \in Places, w.objects[p].exists
  PROVE  /\ \A b \in Blocks \union {Null, Wild} :
                LET v == WithHeap(w, p, b) IN
                SameBut(w, v, p) /\ SameAny(w, v, p)
                /\ v.objects[p].heap = b /\ v.objects[p].isInPlace = w.objects[p].isInPlace
                /\ v.objects[p].inPlace = w.objects[p].inPlace
         /\ \A holder \in Holders :
                LET v == WithInPlace(w, p, holder) IN
                SameBut(w, v, p) /\ SameAny(w, v, p)
                /\ v.objects[p].heap = w.objects[p].heap /\ v.objects[p].isInPlace
                /\ v.objects[p].inPlace = holder
         /\ LET v == Emptied(w, p) IN SameBut(w, v, p) /\ SameAny(w, v, p) /\ Vacant(v, p)
         /\ \A i \in Index :
                LET v == WithIndex(w, p, i) IN
                SameBut(w, v, p) /\ IndexOf(v, p) = i /\ AllocatorOf(v, p) = AllocatorOf(w, p)
                /\ v.objects[p].heap = w.objects[p].heap /\ v.objects[p].isInPlace = w.objects[p].isInPlace
                /\ v.objects[p].inPlace = w.objects[p].inPlace
         /\ \A allocator \in Allocators :
                LET v == set_allocator(w, p, allocator) IN
                SameBut(w, v, p) /\ IndexOf(v, p) = IndexOf(w, p) /\ AllocatorOf(v, p) = allocator
                /\ v.objects[p].heap = w.objects[p].heap /\ v.objects[p].isInPlace = w.objects[p].isInPlace
                /\ v.objects[p].inPlace = w.objects[p].inPlace
<1>1. w.objects[p] \in Objects
  BY WorldFields
<1>2. ASSUME NEW b \in Blocks \union {Null, Wild}
      PROVE  LET v == WithHeap(w, p, b) IN
             SameBut(w, v, p) /\ SameAny(w, v, p)
             /\ v.objects[p].heap = b /\ v.objects[p].isInPlace = w.objects[p].isInPlace
             /\ v.objects[p].inPlace = w.objects[p].inPlace
  BY <1>1 DEF Worlds, Objects, WithHeap, SameBut, SameAny, AllocatorOf, IndexOf
<1>3. ASSUME NEW holder \in Holders
      PROVE  LET v == WithInPlace(w, p, holder) IN
             SameBut(w, v, p) /\ SameAny(w, v, p)
             /\ v.objects[p].heap = w.objects[p].heap /\ v.objects[p].isInPlace
             /\ v.objects[p].inPlace = holder
  BY <1>1 DEF Worlds, Objects, WithInPlace, SameBut, SameAny, AllocatorOf, IndexOf
<1>4. LET v == Emptied(w, p) IN SameBut(w, v, p) /\ SameAny(w, v, p) /\ Vacant(v, p)
  <2>1. NoHolder \in Holders
    BY DEF NoHolder, Holder, Holders, Types
  <2> QED
    BY <1>1, <2>1 DEF Worlds, Objects, Emptied, SameBut, SameAny, AllocatorOf, IndexOf, Vacant
<1>5. ASSUME NEW i \in Index
      PROVE  LET v == WithIndex(w, p, i) IN
             SameBut(w, v, p) /\ IndexOf(v, p) = i /\ AllocatorOf(v, p) = AllocatorOf(w, p)
             /\ v.objects[p].heap = w.objects[p].heap /\ v.objects[p].isInPlace = w.objects[p].isInPlace
             /\ v.objects[p].inPlace = w.objects[p].inPlace
  BY <1>1 DEF Worlds, Objects, WithIndex, SameBut, AllocatorOf, IndexOf
<1>6. ASSUME NEW allocator \in Allocators
      PROVE  LET v == set_allocator(w, p, allocator) IN
             SameBut(w, v, p) /\ IndexOf(v, p) = IndexOf(w, p) /\ AllocatorOf(v, p) = allocator
             /\ v.objects[p].heap = w.objects[p].heap /\ v.objects[p].isInPlace = w.objects[p].isInPlace
             /\ v.objects[p].inPlace = w.objects[p].inPlace
  BY <1>1 DEF Worlds, Objects, set_allocator, SameBut, AllocatorOf, IndexOf
<1> QED
  BY <1>2, <1>3, <1>4, <1>5, <1>6

\* A container is replaced by one that owns the same block or, like it, none.
LEMMA SameButReplaced ==
  ASSUME HolderAssumption, NEW w, Good(w), NEW p \in Places, NEW v, SameBut(w, v, p),
         BlockOf(v, p) = BlockOf(w, p)
  PROVE  Good(v) /\ OthersKept(w, v, p) /\ LostIn(v) = LostIn(w) /\ v.misused = w.misused /\ v.thrown = w.thrown
<1>1. v \in Worlds /\ v.heap = w.heap /\ v.thrown = w.thrown /\ v.misused = w.misused
      /\ \A q \in Places \ {p} : v.objects[q] = w.objects[q]
  BY DEF SameBut
<1>2. BlockOf(v, p) # Null => v.heap[BlockOf(v, p)].live
  BY <1>1 DEF Good
<1>3. Good(v) /\ OthersKept(w, v, p) /\ LostIn(v) = LostIn(w)
  BY <1>1, <1>2, Replaced
<1> QED
  BY <1>1, <1>3

\* The destructor of what is held, and the block is returned. It is undefined for what is astray.
LEMMA ClearChanges ==
  ASSUME HolderAssumption, NEW w, Good(w), NEW p \in Places, w.objects[p].exists
  PROVE  LET v == clearHolder(w, p) IN
         /\ Good(v) /\ v.thrown = w.thrown /\ OthersKept(w, v, p) /\ SameAny(w, v, p) /\ Vacant(v, p)
         /\ LostIn(v) = LostIn(w)
         /\ w.misused => v.misused
         /\ v.misused => w.misused \/ Astray(w, p)
<1> DEFINE v == clearHolder(w, p)
<1>1. w \in Worlds /\ w.objects[p] \in Objects
  BY WorldFields DEF Good
\* The container is emptied, and had no block.
<1>2. ASSUME NEW u, u = Emptied(w, p), BlockOf(w, p) = Null
      PROVE  /\ Good(u) /\ u.thrown = w.thrown /\ OthersKept(w, u, p) /\ SameAny(w, u, p) /\ Vacant(u, p)
             /\ LostIn(u) = LostIn(w) /\ u.misused = w.misused
  <2>1. SameBut(w, u, p) /\ SameAny(w, u, p) /\ Vacant(u, p)
    BY <1>1, <1>2, AnySets
  <2>2. BlockOf(u, p) = Null
    BY <2>1, VacantHolder
  <2> QED
    BY <1>2, <2>1, <2>2, SameButReplaced
<1>3. CASE OnHeap(w, p)
  <2> DEFINE b == w.objects[p].heap
             u == deallocate(w, b, AllocatorOf(w, p))
  <2>1. b \in Blocks /\ b = BlockOf(w, p) /\ b # Null /\ w.heap[b].live
    BY <1>3, OnHeapIsBlock
  <2>2. AllocatorOf(w, p) \in Allocators /\ NoHolder \in Holders
    BY <1>1 DEF Objects, AllocatorOf, NoHolder, Holder, Holders, Types
  <2>3. /\ u \in Worlds /\ u.objects = w.objects /\ u.thrown = w.thrown
        /\ u.misused <=> w.misused \/ w.heap[b].allocator # AllocatorOf(w, p)
        /\ ~u.heap[b].live /\ \A c \in Blocks \ {b} : u.heap[c] = w.heap[c]
    BY <2>1, <2>2, HeapOperations
  <2>4. v = Emptied(u, p)
    BY <1>3 DEF clearHolder, OnHeap, HasHeap, IsWild
  <2>5. w.heap[b].allocator # AllocatorOf(w, p) => Astray(w, p)
    BY <1>3 DEF Astray, Foreign
  <2> HIDE DEF v, u, b
  <2>6. SameBut(u, v, p) /\ SameAny(u, v, p) /\ Vacant(v, p)
    BY <2>3, <2>4, AnySets
  <2>7. BlockOf(v, p) = Null
    BY <2>6, VacantHolder
  <2>8. \A q \in Places \ {p} : v.objects[q] = w.objects[q]
    BY <2>3, <2>6 DEF SameBut
  <2>9. v.heap = u.heap /\ v.misused = u.misused /\ v \in Worlds /\ v.thrown = w.thrown
    BY <2>3, <2>6 DEF SameBut
  <2>10. Good(v) /\ OthersKept(w, v, p) /\ LostIn(v) = LostIn(w)
    BY <2>1, <2>3, <2>7, <2>8, <2>9, Replaced
  <2>11. SameAny(w, v, p)
    BY <2>3, <2>6 DEF SameAny, AllocatorOf, IndexOf
  <2> QED
    BY <2>3, <2>5, <2>6, <2>9, <2>10, <2>11 DEF v
<1>4. CASE w.objects[p].isInPlace
  <2>1. v = Emptied(w, p) /\ BlockOf(w, p) = Null
    BY <1>4 DEF clearHolder, OnHeap, HasHeap, IsWild, BlockOf
  <2> HIDE DEF v
  <2>2. /\ Good(v) /\ v.thrown = w.thrown /\ OthersKept(w, v, p) /\ SameAny(w, v, p) /\ Vacant(v, p)
        /\ LostIn(v) = LostIn(w) /\ v.misused = w.misused
    BY <1>2, <2>1
  <2> QED
    BY <2>2 DEF v
<1>5. CASE IsWild(w, p)
  <2> DEFINE u == Emptied(w, p)
  <2>1. v = Undefined(u) /\ BlockOf(w, p) = Null /\ Astray(w, p)
    BY <1>5 DEF clearHolder, OnHeap, HasHeap, IsWild, BlockOf, Astray
  <2> HIDE DEF v
  <2>2. /\ Good(u) /\ u.thrown = w.thrown /\ OthersKept(w, u, p) /\ SameAny(w, u, p) /\ Vacant(u, p)
        /\ LostIn(u) = LostIn(w) /\ u.misused = w.misused
    BY <1>2, <2>1
  <2> HIDE DEF u
  <2>3. Good(v) /\ v \in Worlds /\ v.misused /\ v.thrown = u.thrown /\ v.objects = u.objects /\ v.heap = u.heap
    BY <2>1, <2>2, UndefinedChanges
  <2>4. Vacant(v, p) /\ LostIn(v) = LostIn(u) /\ \A q \in Places : Same(u, v, q)
    BY <2>2, <2>3, FlagChanges
  <2>5. OthersKept(w, v, p) /\ SameAny(w, v, p)
    BY <2>2, <2>3, <2>4, SameAgain DEF OthersKept, SameAny, AllocatorOf, IndexOf
  <2> QED
    BY <2>1, <2>2, <2>3, <2>4, <2>5 DEF v
<1>6. CASE ~OnHeap(w, p) /\ ~w.objects[p].isInPlace /\ ~IsWild(w, p)
  <2>1. v = w /\ Vacant(w, p)
    BY <1>6 DEF clearHolder, Vacant, OnHeap, HasHeap
  <2> HIDE DEF v
  <2>2. OthersKept(w, w, p) /\ SameAny(w, w, p)
    BY DEF OthersKept, Same, SameAny
  <2> QED
    BY <2>1, <2>2 DEF v
<1> QED
  BY <1>3, <1>4, <1>5, <1>6

\* A vacant container gets a holder in place, a block of its allocator, or none if there is no memory
\* or the constructor of the value throws.
LEMMA InPlaceChanges ==
  ASSUME HolderAssumption, NEW w, Good(w), NEW p \in Places, Vacant(w, p), NEW holder \in Holders
  PROVE  LET v == WithInPlace(w, p, holder) IN
         /\ Good(v) /\ v.thrown = w.thrown /\ v.misused = w.misused /\ OthersKept(w, v, p) /\ SameAny(w, v, p)
         /\ LostIn(v) = LostIn(w)
         /\ hasHolder(v, p) /\ HolderOf(v, p) = holder /\ ~IsWild(v, p) /\ ~Foreign(v, p)
<1> DEFINE v == WithInPlace(w, p, holder)
<1>1. w \in Worlds /\ w.objects[p].exists
  BY DEF Good, Vacant
<1> HIDE DEF v
<1>2. SameBut(w, v, p) /\ SameAny(w, v, p) /\ v.objects[p].isInPlace /\ v.objects[p].inPlace = holder
  BY <1>1, AnySets DEF v
<1>3. hasHolder(v, p) /\ HolderOf(v, p) = holder /\ ~IsWild(v, p) /\ ~OnHeap(v, p)
  BY <1>2 DEF hasHolder, HolderOf, getUntypedHolder, OnHeap, HasHeap, IsWild
<1>4. BlockOf(w, p) = Null /\ BlockOf(v, p) = Null /\ ~Foreign(v, p)
  BY <1>3, VacantHolder DEF BlockOf, Foreign
<1>5. Good(v) /\ OthersKept(w, v, p) /\ LostIn(v) = LostIn(w) /\ v.misused = w.misused /\ v.thrown = w.thrown
  BY <1>2, <1>4, SameButReplaced
<1> QED
  BY <1>2, <1>3, <1>4, <1>5 DEF v

LEMMA CreateHeapChanges ==
  ASSUME HolderAssumption, NEW w, Good(w), NEW p \in Places, Vacant(w, p), ~w.thrown, NEW holder \in Holders, NEW fails
  PROVE  LET v == createHeapHolder(w, p, holder, fails) IN
         /\ Good(v) /\ OthersKept(w, v, p) /\ SameAny(w, v, p) /\ v.misused = w.misused /\ v.thrown \in BOOLEAN
         /\ LostIn(v) = LostIn(w) \/ (v.thrown /\ LosesOne(w, v))
         /\ v.thrown => Vacant(v, p)
         /\ ~v.thrown => hasHolder(v, p) /\ HolderOf(v, p) = holder
         /\ ~IsWild(v, p) /\ ~Foreign(v, p)
<1> DEFINE v == createHeapHolder(w, p, holder, fails)
           noMemory == fails = "allocation" \/ NoMemory(w)
           throws == ValueThrows(holder, fails)
\* What throws has changed nothing but a block that is nobody's.
<1>1. ASSUME NEW u, Good(u), u.objects = w.objects, u.misused = w.misused, \A q \in Places : Same(w, u, q),
             LostIn(u) = LostIn(w) \/ LosesOne(w, u), v = Thrown(u)
      PROVE  /\ Good(v) /\ OthersKept(w, v, p) /\ SameAny(w, v, p) /\ v.misused = w.misused /\ v.thrown
             /\ LostIn(v) = LostIn(w) \/ LosesOne(w, v)
             /\ Vacant(v, p)
  <2> HIDE DEF v
  <2>1. Good(v) /\ v \in Worlds /\ v.thrown /\ v.misused = u.misused /\ v.objects = u.objects /\ v.heap = u.heap
    BY <1>1, ThrownChanges
  <2>2. LostIn(v) = LostIn(u) /\ \A q \in Places : Same(u, v, q)
    BY <1>1, <2>1, FlagChanges
  <2>3. \A q \in Places : Same(w, v, q)
    BY <1>1, <2>2, SameAgain
  <2>4. Vacant(v, p) /\ SameAny(w, v, p)
    BY <2>3, SameCarries DEF Vacant
  <2> QED
    BY <1>1, <2>1, <2>2, <2>3, <2>4 DEF OthersKept, LosesOne
<1>2. CASE noMemory
  <2>1. v = Thrown(w)
    BY <1>2 DEF createHeapHolder
  <2>2. \A q \in Places : Same(w, w, q)
    BY DEF Same
  <2> HIDE DEF v
  <2>3. /\ Good(v) /\ OthersKept(w, v, p) /\ SameAny(w, v, p) /\ v.misused = w.misused /\ v.thrown
        /\ LostIn(v) = LostIn(w) \/ LosesOne(w, v)
        /\ Vacant(v, p)
    BY <1>1, <2>1, <2>2
  <2> QED
    BY <2>3, VacantHolder DEF v, Good, Worlds
<1>3. CASE ~noMemory /\ throws
  <2> DEFINE none == Holder(holder.type, NoValue)
             u == allocate(w, AllocatorOf(w, p), none)
  <2>1. v = Thrown(u)
    BY <1>3 DEF createHeapHolder
  <2>2. AllocatorOf(w, p) \in Allocators /\ none \in Holders
    BY WorldFields DEF Good, Vacant, Objects, AllocatorOf, Holder, Holders
  <2> HIDE DEF v, none
  <2>3. Good(u) /\ u.misused = w.misused /\ u.objects = w.objects /\ LosesOne(w, u) /\ \A q \in Places : Same(w, u, q)
    BY <1>3, <2>2, LeakChanges
  <2> HIDE DEF u
  <2>4. /\ Good(v) /\ OthersKept(w, v, p) /\ SameAny(w, v, p) /\ v.misused = w.misused /\ v.thrown
        /\ LostIn(v) = LostIn(w) \/ LosesOne(w, v)
        /\ Vacant(v, p)
    BY <1>1, <2>1, <2>3
  <2> QED
    BY <2>4, VacantHolder DEF v, Good, Worlds
<1>4. CASE ~noMemory /\ ~throws
  <2> DEFINE b == NextBlock(w)
             u == allocate(w, AllocatorOf(w, p), holder)
  <2>1. w \in Worlds /\ w.objects[p] \in Objects /\ ~w.objects[p].isInPlace /\ BlockOf(w, p) = Null
    BY WorldFields, VacantHolder DEF Good, Vacant
  <2>2. AllocatorOf(w, p) \in Allocators /\ b \in Blocks /\ b # Null /\ b # Wild /\ ~w.heap[b].live
    <3>1. b \in Blocks /\ b # Null /\ ~w.heap[b].live
      BY <1>4, NextBlockIsFree
    <3>2. AllocatorOf(w, p) \in Allocators
      BY <2>1 DEF Objects, AllocatorOf
    <3> HIDE DEF b
    <3>3. b \in Nat
      BY <3>1 DEF HolderAssumption
    <3>4. b # Wild
      BY <3>3 DEF Wild
    <3> QED
      BY <3>1, <3>2, <3>4
  <2>3. /\ u \in Worlds /\ u.misused = w.misused /\ u.objects = w.objects /\ u.thrown = w.thrown
        /\ u.heap[b] = Block(AllocatorOf(w, p), holder) /\ \A c \in Blocks \ {b} : u.heap[c] = w.heap[c]
    BY <2>2, HeapOperations
  <2>4. v = WithHeap(u, p, b)
    BY <1>4 DEF createHeapHolder
  <2>5. u.objects[p].exists
    BY <2>3 DEF Vacant
  <2> HIDE DEF v, u, b
  <2>6. SameBut(u, v, p) /\ SameAny(u, v, p) /\ v.objects[p].heap = b /\ v.objects[p].isInPlace = u.objects[p].isInPlace
    BY <2>2, <2>3, <2>4, <2>5, AnySets
  <2>7. v \in Worlds /\ v.heap = u.heap /\ v.misused = w.misused /\ v.thrown = w.thrown /\ v.objects[p].exists
        /\ \A q \in Places \ {p} : v.objects[q] = w.objects[q]
    BY <2>3, <2>6 DEF SameBut
  <2>8. ~v.objects[p].isInPlace /\ OnHeap(v, p) /\ ~IsWild(v, p) /\ BlockOf(v, p) = b /\ SameAny(w, v, p)
    BY <2>1, <2>2, <2>3, <2>6, <2>7 DEF OnHeap, HasHeap, IsWild, BlockOf, SameAny, AllocatorOf, IndexOf
  <2>9. v.heap[b].live /\ v.heap[b].allocator = AllocatorOf(v, p) /\ v.heap[b].content = holder
    BY <2>3, <2>7, <2>8 DEF Block, SameAny
  <2>10. Good(v) /\ OthersKept(w, v, p) /\ LostIn(v) = LostIn(w)
    BY <2>1, <2>2, <2>3, <2>7, <2>8, <2>9, Replaced
  <2>11. hasHolder(v, p) /\ HolderOf(v, p) = holder /\ ~Foreign(v, p)
    BY <2>2, <2>6, <2>8, <2>9 DEF hasHolder, HolderOf, getUntypedHolder, Foreign
  <2> QED
    BY <2>7, <2>8, <2>10, <2>11 DEF v, Good, Worlds
<1> QED
  BY <1>2, <1>3, <1>4

\* Of a holder without a value no constructor throws.
LEMMA NoValueNoLoss ==
  ASSUME HolderAssumption, NEW w, Good(w), NEW p \in Places, Vacant(w, p), ~w.thrown, NEW holder \in Holders,
         holder.value = NoValue, NEW fails
  PROVE  LostIn(createHeapHolder(w, p, holder, fails)) = LostIn(w)
<1> DEFINE v == createHeapHolder(w, p, holder, fails)
<1>1. ~ValueThrows(holder, fails)
  BY DEF ValueThrows
<1>2. CASE fails = "allocation" \/ NoMemory(w)
  <2>1. v = Thrown(w)
    BY <1>2 DEF createHeapHolder
  <2>2. v \in Worlds /\ v.objects = w.objects /\ v.heap = w.heap
    BY <2>1, ThrownChanges
  <2> QED
    BY <2>2, FlagChanges
<1>3. CASE ~(fails = "allocation" \/ NoMemory(w))
  <2>1. v = WithHeap(allocate(w, AllocatorOf(w, p), holder), p, NextBlock(w))
    BY <1>1, <1>3 DEF createHeapHolder
  <2>2. ~v.thrown
    BY <2>1 DEF WithHeap, allocate, Good, Worlds
  <2> QED
    BY <2>2, CreateHeapChanges
<1> QED
  BY <1>2, <1>3

\* There is a holder of the type, unless there was no memory: then the container is vacant.
LEMMA CreateHolderChanges ==
  ASSUME HolderAssumption, NEW w, Good(w), NEW p \in Places, w.objects[p].exists, ~w.thrown, NEW type \in Types, NEW fails
  PROVE  LET v == createHolder(w, p, type, fails) IN
         /\ Good(v) /\ OthersKept(w, v, p) /\ SameAny(w, v, p) /\ v.thrown \in BOOLEAN
         /\ LostIn(v) = LostIn(w)
         /\ v.misused => w.misused \/ Astray(w, p)
         /\ v.thrown => Vacant(v, p)
         /\ ~v.thrown => hasHolder(v, p) /\ HolderOf(v, p).type = type
         /\ ~IsWild(v, p)
         /\ Foreign(v, p) => Foreign(w, p)
<1> DEFINE v == createHolder(w, p, type, fails)
           holder == Holder(type, NoValue)
           isType == hasHolder(w, p) /\ HolderOf(w, p).type = type /\ ~IsWild(w, p)
<1>1. holder \in Holders /\ holder.type = type /\ holder.value = NoValue
  BY DEF Holder, Holders
<1>2. CASE isType
  <2>1. v = w
    BY <1>2 DEF createHolder, HolderOf
  <2>2. OthersKept(w, w, p) /\ SameAny(w, w, p) /\ w.thrown \in BOOLEAN
    BY DEF OthersKept, Same, SameAny, Good, Worlds
  <2> QED
    BY <1>2, <2>1, <2>2
<1>3. CASE ~isType
  <2> DEFINE u == clearHolder(w, p)
  <2>1. /\ Good(u) /\ u.thrown = w.thrown /\ OthersKept(w, u, p) /\ SameAny(w, u, p) /\ Vacant(u, p)
        /\ LostIn(u) = LostIn(w) /\ (u.misused => w.misused \/ Astray(w, p))
    BY ClearChanges
  <2>2. v = IF type \in SmallTypes THEN WithInPlace(u, p, holder) ELSE createHeapHolder(u, p, holder, fails)
    BY <1>3 DEF createHolder, HolderOf
  <2> HIDE DEF u, holder, v
  <2>3. /\ Good(v) /\ OthersKept(u, v, p) /\ SameAny(u, v, p) /\ v.misused = u.misused /\ v.thrown \in BOOLEAN
        /\ LostIn(v) = LostIn(u)
        /\ v.thrown => Vacant(v, p)
        /\ ~v.thrown => hasHolder(v, p) /\ HolderOf(v, p) = holder
        /\ ~IsWild(v, p) /\ ~Foreign(v, p)
    <3>1. CASE type \in SmallTypes
      <4>1. v = WithInPlace(u, p, holder)
        BY <2>2, <3>1
      <4>2. /\ Good(v) /\ v.thrown = u.thrown /\ v.misused = u.misused /\ OthersKept(u, v, p) /\ SameAny(u, v, p)
            /\ LostIn(v) = LostIn(u)
            /\ hasHolder(v, p) /\ HolderOf(v, p) = holder /\ ~IsWild(v, p) /\ ~Foreign(v, p)
        BY <1>1, <2>1, <4>1, InPlaceChanges
      <4> QED
        BY <2>1, <4>2 DEF Good, Worlds
    <3>2. CASE type \notin SmallTypes
      <4>1. v = createHeapHolder(u, p, holder, fails)
        BY <2>2, <3>2
      <4>2. /\ Good(v) /\ OthersKept(u, v, p) /\ SameAny(u, v, p) /\ v.misused = u.misused /\ v.thrown \in BOOLEAN
            /\ v.thrown => Vacant(v, p)
            /\ ~v.thrown => hasHolder(v, p) /\ HolderOf(v, p) = holder
            /\ ~IsWild(v, p) /\ ~Foreign(v, p)
        BY <1>1, <2>1, <4>1, CreateHeapChanges
      <4>3. LostIn(v) = LostIn(u)
        BY <1>1, <2>1, <4>1, NoValueNoLoss
      <4> QED
        BY <4>2, <4>3
    <3> QED
      BY <3>1, <3>2
  <2>4. OthersKept(w, v, p) /\ SameAny(w, v, p)
    BY <2>1, <2>3, KeptAgain DEF SameAny
  <2> QED
    BY <1>1, <2>1, <2>3, <2>4 DEF v
<1> QED
  BY <1>2, <1>3

\* The value in the holder that is there.
LEMMA ValueChanges ==
  ASSUME HolderAssumption, NEW w, Good(w), NEW p \in Places, w.objects[p].exists, hasHolder(w, p), ~IsWild(w, p),
         NEW value \in Values \union {NoValue}
  PROVE  LET v == WithValue(w, p, value) IN
         /\ Good(v) /\ v.thrown = w.thrown /\ v.misused = w.misused /\ OthersKept(w, v, p) /\ SameAny(w, v, p)
         /\ LostIn(v) = LostIn(w)
         /\ HolderOf(v, p).type = HolderOf(w, p).type /\ HolderOf(v, p).value = value
         /\ ~IsWild(v, p) /\ (Foreign(v, p) => Foreign(w, p))
<1> DEFINE v == WithValue(w, p, value)
<1>1. w \in Worlds /\ w.objects[p] \in Objects
  BY WorldFields DEF Good
<1>2. CASE w.objects[p].isInPlace
  <2>1. v = [w EXCEPT !.objects[p].inPlace.value = value] /\ w.objects[p].inPlace \in Holders
    BY <1>1, <1>2 DEF WithValue, Objects
  <2> HIDE DEF v
  <2>2. /\ v \in Worlds /\ v.heap = w.heap /\ v.thrown = w.thrown /\ v.misused = w.misused
        /\ v.objects[p].exists /\ v.objects[p].isInPlace
        /\ v.objects[p].allocator = w.objects[p].allocator /\ v.objects[p].index = w.objects[p].index
        /\ v.objects[p].inPlace.type = w.objects[p].inPlace.type /\ v.objects[p].inPlace.value = value
        /\ \A q \in Places \ {p} : v.objects[q] = w.objects[q]
    BY <1>1, <1>2, <2>1 DEF Worlds, Objects, Holders
  <2>3. ~OnHeap(w, p) /\ ~OnHeap(v, p) /\ ~IsWild(v, p)
    BY <1>2, <2>2 DEF OnHeap, HasHeap, IsWild
  <2>4. BlockOf(w, p) = Null /\ BlockOf(v, p) = Null /\ ~Foreign(v, p)
    BY <2>3 DEF BlockOf, Foreign
  <2>5. Good(v) /\ OthersKept(w, v, p) /\ LostIn(v) = LostIn(w)
    BY <2>2, <2>4, Replaced
  <2>6. SameAny(w, v, p) /\ HolderOf(v, p) = v.objects[p].inPlace /\ HolderOf(w, p) = w.objects[p].inPlace
    BY <1>2, <2>2 DEF SameAny, AllocatorOf, IndexOf, HolderOf, getUntypedHolder, OnHeap, HasHeap, IsWild
  <2> QED
    BY <2>2, <2>3, <2>4, <2>5, <2>6 DEF v
<1>3. CASE ~w.objects[p].isInPlace
  <2> DEFINE b == w.objects[p].heap
  <2>1. v = [w EXCEPT !.heap[b].content.value = value]
    BY <1>3 DEF WithValue
  <2>2. OnHeap(w, p)
    BY <1>3 DEF hasHolder, OnHeap, HasHeap
  <2>3. b # Null /\ b \in Blocks /\ BlockOf(w, p) = b /\ w.heap[b].live /\ w.heap[b] \in Cells
    BY <2>2, OnHeapIsBlock
  <2>4. w.heap[b].content \in Holders
    BY <2>3 DEF Cells
  <2> HIDE DEF v, b
  <2>5. /\ v \in Worlds /\ v.objects = w.objects /\ v.thrown = w.thrown /\ v.misused = w.misused
        /\ v.heap[b].live /\ v.heap[b].allocator = w.heap[b].allocator
        /\ v.heap[b].content.type = w.heap[b].content.type /\ v.heap[b].content.value = value
        /\ \A c \in Blocks \ {b} : v.heap[c] = w.heap[c]
    BY <1>1, <2>1, <2>3, <2>4 DEF Worlds, Cells, Holders
  <2>6. OnHeap(v, p) /\ ~IsWild(v, p) /\ v.objects[p].heap = b
    BY <2>2, <2>5 DEF OnHeap, HasHeap, IsWild, b
  <2>7. BlockOf(v, p) = b /\ AllocatorOf(v, p) = AllocatorOf(w, p) /\ SameAny(w, v, p)
    BY <2>3, <2>5, <2>6 DEF BlockOf, AllocatorOf, SameAny, IndexOf
  <2>8. Good(v) /\ OthersKept(w, v, p) /\ LostIn(v) = LostIn(w)
    BY <2>3, <2>5, <2>7, Replaced
  <2>9. HolderOf(v, p) = v.heap[b].content /\ HolderOf(w, p) = w.heap[b].content
    BY <1>3, <2>2, <2>5, <2>6 DEF HolderOf, getUntypedHolder, b
  <2>10. Foreign(v, p) => Foreign(w, p)
    BY <2>2, <2>5, <2>6, <2>7 DEF Foreign, b
  <2> QED
    BY <2>5, <2>6, <2>7, <2>8, <2>9, <2>10 DEF v
<1> QED
  BY <1>2, <1>3

\* What is emplaced is held afterwards, and a constructor that throws leaves no value.
LEMMA EmplaceAnyChanges ==
  ASSUME HolderAssumption, NEW w, Good(w), NEW p \in Places, w.objects[p].exists, ~w.thrown, NEW type \in Types,
         NEW value \in Values, NEW fails
  PROVE  LET v == emplaceAny(w, p, type, value, fails) IN
         /\ Good(v) /\ OthersKept(w, v, p) /\ SameAny(w, v, p) /\ v.thrown \in BOOLEAN
         /\ LostIn(v) = LostIn(w)
         /\ v.misused => w.misused \/ Astray(w, p)
         /\ v.thrown => HolderOf(v, p).value = NoValue
         /\ ~v.thrown => HolderOf(v, p).type = type /\ HolderOf(v, p).value = value
         /\ ~IsWild(v, p)
         /\ Foreign(v, p) => Foreign(w, p)
<1> DEFINE u == createHolder(w, p, type, fails)
           v == emplaceAny(w, p, type, value, fails)
           throws == fails = "construction"
<1>1. /\ Good(u) /\ OthersKept(w, u, p) /\ SameAny(w, u, p) /\ u.thrown \in BOOLEAN
      /\ LostIn(u) = LostIn(w) /\ (u.misused => w.misused \/ Astray(w, p))
      /\ u.thrown => Vacant(u, p)
      /\ ~u.thrown => hasHolder(u, p) /\ HolderOf(u, p).type = type
      /\ ~IsWild(u, p) /\ (Foreign(u, p) => Foreign(w, p))
  BY CreateHolderChanges
<1>2. v = CASE u.thrown -> u
            [] ~u.thrown /\ throws -> Thrown(WithValue(u, p, NoValue))
            [] OTHER -> WithValue(u, p, value)
  BY DEF emplaceAny
<1> HIDE DEF u, v, throws
<1>3. CASE u.thrown
  <2>1. HolderOf(u, p).value = NoValue
    BY <1>1, <1>3, VacantHolder
  <2>2. v = u
    BY <1>2, <1>3
  <2> QED
    BY <1>1, <1>3, <2>1, <2>2 DEF v
\* What is put into the holder that was made.
<1>4. ASSUME ~u.thrown, NEW t, NEW x \in Values \union {NoValue}, t = WithValue(u, p, x)
      PROVE  /\ Good(t) /\ OthersKept(w, t, p) /\ SameAny(w, t, p) /\ t.thrown = u.thrown /\ LostIn(t) = LostIn(w)
             /\ t.misused => w.misused \/ Astray(w, p)
             /\ HolderOf(t, p).type = type /\ HolderOf(t, p).value = x
             /\ ~IsWild(t, p) /\ (Foreign(t, p) => Foreign(w, p))
  <2>1. u.objects[p].exists /\ hasHolder(u, p)
    BY <1>1, <1>4 DEF SameAny
  <2>2. /\ Good(t) /\ t.thrown = u.thrown /\ t.misused = u.misused /\ OthersKept(u, t, p) /\ SameAny(u, t, p)
        /\ LostIn(t) = LostIn(u)
        /\ HolderOf(t, p).type = HolderOf(u, p).type /\ HolderOf(t, p).value = x
        /\ ~IsWild(t, p) /\ (Foreign(t, p) => Foreign(u, p))
    BY <1>1, <1>4, <2>1, ValueChanges
  <2>3. OthersKept(w, t, p) /\ SameAny(w, t, p)
    BY <1>1, <2>2, KeptAgain DEF SameAny
  <2> QED
    BY <1>1, <1>4, <2>2, <2>3
<1>5. CASE ~u.thrown /\ throws
  <2> DEFINE t == WithValue(u, p, NoValue)
  <2>1. /\ Good(t) /\ OthersKept(w, t, p) /\ SameAny(w, t, p) /\ LostIn(t) = LostIn(w)
        /\ t.misused => w.misused \/ Astray(w, p)
        /\ HolderOf(t, p).value = NoValue
        /\ ~IsWild(t, p) /\ (Foreign(t, p) => Foreign(w, p))
    BY <1>4, <1>5
  <2>2. v = Thrown(t)
    BY <1>2, <1>5
  <2> HIDE DEF t
  <2>3. Good(v) /\ v \in Worlds /\ v.thrown /\ v.misused = t.misused /\ v.objects = t.objects /\ v.heap = t.heap
    BY <2>1, <2>2, ThrownChanges
  <2>4. LostIn(v) = LostIn(t) /\ \A q \in Places : Same(t, v, q) /\ HolderOf(v, q) = HolderOf(t, q)
    BY <2>1, <2>3, FlagChanges
  <2>5. OthersKept(t, v, p) /\ SameAny(t, v, p)
    BY <2>1, <2>4, SameCarries DEF OthersKept, SameAny
  <2>6. OthersKept(w, v, p) /\ SameAny(w, v, p)
    BY <2>1, <2>5, KeptAgain DEF SameAny
  <2>7. ~IsWild(v, p) /\ (Foreign(v, p) => Foreign(w, p))
    BY <2>1, <2>3, <2>4 DEF IsWild, Same
  <2>8. v.thrown \in BOOLEAN
    BY <2>3 DEF Worlds
  <2> QED
    BY <2>1, <2>3, <2>4, <2>6, <2>7, <2>8 DEF v
<1>6. CASE ~u.thrown /\ ~throws
  <2>1. v = WithValue(u, p, value)
    BY <1>2, <1>6
  <2>2. /\ Good(v) /\ OthersKept(w, v, p) /\ SameAny(w, v, p) /\ v.thrown = u.thrown /\ LostIn(v) = LostIn(w)
        /\ v.misused => w.misused \/ Astray(w, p)
        /\ HolderOf(v, p).type = type /\ HolderOf(v, p).value = value
        /\ ~IsWild(v, p) /\ (Foreign(v, p) => Foreign(w, p))
    BY <1>4, <1>6, <2>1
  <2> QED
    BY <1>1, <1>6, <2>2 DEF v
<1> QED
  BY <1>3, <1>5, <1>6

LEMMA HolderIsKept ==
  ASSUME HolderAssumption, NEW w, Good(w), NEW p \in Places, w.objects[p].exists
  PROVE  HolderOf(w, p) \in Holders
<1>1. w.objects[p] \in Objects /\ NoHolder \in Holders
  BY WorldFields DEF Good, NoHolder, Holder, Holders, Types
<1>2. CASE w.objects[p].isInPlace
  BY <1>1, <1>2 DEF HolderOf, getUntypedHolder, Objects, OnHeap, HasHeap, IsWild
<1>3. CASE OnHeap(w, p)
  <2>1. w.heap[w.objects[p].heap] \in Cells
    BY <1>3, OnHeapIsBlock
  <2> QED
    BY <1>3, <2>1 DEF HolderOf, getUntypedHolder, Cells, OnHeap, HasHeap, IsWild
<1>4. CASE ~w.objects[p].isInPlace /\ ~OnHeap(w, p)
  BY <1>1, <1>4 DEF HolderOf, getUntypedHolder
<1> QED
  BY <1>2, <1>3, <1>4

\* A copy has the holder of the other one. One that throws has none, or what is in place of one is wild.
LEMMA CopyChanges ==
  ASSUME HolderAssumption, NEW w, Good(w), NEW p \in Places, Vacant(w, p), ~w.thrown,
         NEW o \in Places, w.objects[o].exists, NEW fails
  PROVE  LET v == copy(w, p, o, fails) IN
         /\ Good(v) /\ OthersKept(w, v, p) /\ SameAny(w, v, p) /\ v.thrown \in BOOLEAN
         /\ LostIn(v) = LostIn(w) \/ (v.thrown /\ LosesOne(w, v))
         /\ v.misused => w.misused \/ Astray(w, o)
         /\ ~Foreign(v, p)
         /\ IsWild(v, p) => v.thrown /\ ~IsWild(w, o) /\ HolderOf(w, o).value # NoValue
         /\ v.thrown => BlockOf(v, p) = Null /\ HolderOf(v, p).value = NoValue
         /\ ~v.thrown /\ ~v.misused => Carries(w, o, v, p)
<1> DEFINE v == copy(w, p, o, fails)
           holder == HolderOf(w, o)
<1>1. holder \in Holders /\ w \in Worlds /\ w.objects[p].exists /\ w.thrown = FALSE
  BY HolderIsKept DEF Good, Vacant, Worlds
<1>2. CASE w.objects[o].isInPlace /\ ValueThrows(holder, fails)
  <2> DEFINE u == WithHeap(w, p, Wild)
  <2>1. v = Thrown(u) /\ ~IsWild(w, o) /\ holder.value # NoValue
    BY <1>2 DEF copy, cloneInPlace, HolderOf, OnHeap, HasHeap, IsWild, ValueThrows
  <2> HIDE DEF v, holder
  <2>2. SameBut(w, u, p) /\ SameAny(w, u, p) /\ u.objects[p].heap = Wild /\ u.objects[p].isInPlace = w.objects[p].isInPlace
    BY <1>1, AnySets
  <2> HIDE DEF u
  <2>3. IsWild(u, p) /\ ~OnHeap(u, p) /\ HolderOf(u, p).value = NoValue
    BY <2>2 DEF Vacant, IsWild, OnHeap, HolderOf, getUntypedHolder, NoHolder, Holder
  <2>4. BlockOf(w, p) = Null /\ BlockOf(u, p) = Null /\ ~Foreign(u, p)
    BY <2>3, VacantHolder DEF BlockOf, Foreign
  <2>5. Good(u) /\ OthersKept(w, u, p) /\ LostIn(u) = LostIn(w) /\ u.misused = w.misused /\ u.thrown = w.thrown
    BY <2>2, <2>4, SameButReplaced
  <2>6. Good(v) /\ v \in Worlds /\ v.thrown /\ v.misused = u.misused /\ v.objects = u.objects /\ v.heap = u.heap
    BY <2>1, <2>5, ThrownChanges
  <2>7. LostIn(v) = LostIn(u) /\ \A q \in Places : Same(u, v, q) /\ HolderOf(v, q) = HolderOf(u, q)
    BY <2>5, <2>6, FlagChanges
  <2>8. OthersKept(u, v, p)
    BY <2>7 DEF OthersKept
  <2>9. OthersKept(w, v, p) /\ SameAny(w, v, p) /\ BlockOf(v, p) = Null /\ ~Foreign(v, p) /\ HolderOf(v, p).value = NoValue
    <3>1. ~OnHeap(v, p) /\ SameAny(w, v, p)
      BY <2>2, <2>3, <2>6 DEF OnHeap, HasHeap, IsWild, SameAny, AllocatorOf, IndexOf
    <3> QED
      BY <2>3, <2>5, <2>7, <2>8, <3>1, KeptAgain DEF BlockOf, Foreign
  <2> QED
    BY <2>1, <2>5, <2>6, <2>7, <2>9 DEF v, holder, Worlds
<1>3. CASE w.objects[o].isInPlace /\ ~ValueThrows(holder, fails)
  <2>1. v = WithInPlace(w, p, holder) /\ ~IsWild(w, o)
    BY <1>3 DEF copy, cloneInPlace, HolderOf, OnHeap, HasHeap, IsWild
  <2> HIDE DEF v, holder
  <2>2. /\ Good(v) /\ v.thrown = w.thrown /\ v.misused = w.misused /\ OthersKept(w, v, p) /\ SameAny(w, v, p)
        /\ LostIn(v) = LostIn(w)
        /\ HolderOf(v, p) = holder /\ ~IsWild(v, p) /\ ~Foreign(v, p)
    BY <1>1, <2>1, InPlaceChanges
  <2> QED
    BY <1>1, <2>1, <2>2 DEF v, holder, Carries
<1>4. CASE OnHeap(w, o)
  <2>1. v = createHeapHolder(w, p, holder, fails) /\ ~IsWild(w, o)
    BY <1>4 DEF copy, HolderOf, OnHeap, HasHeap, IsWild
  <2> HIDE DEF v, holder
  <2>2. /\ Good(v) /\ OthersKept(w, v, p) /\ SameAny(w, v, p) /\ v.misused = w.misused /\ v.thrown \in BOOLEAN
        /\ LostIn(v) = LostIn(w) \/ (v.thrown /\ LosesOne(w, v))
        /\ v.thrown => Vacant(v, p)
        /\ ~v.thrown => HolderOf(v, p) = holder
        /\ ~IsWild(v, p) /\ ~Foreign(v, p)
    BY <1>1, <2>1, CreateHeapChanges
  <2> QED
    BY <2>1, <2>2, VacantHolder DEF v, holder, Carries
<1>5. CASE IsWild(w, o)
  <2>1. v = Undefined(w) /\ Astray(w, o)
    BY <1>5 DEF copy, OnHeap, HasHeap, IsWild, Astray
  <2> HIDE DEF v, holder
  <2>2. Good(v) /\ v \in Worlds /\ v.misused /\ v.thrown = w.thrown /\ v.objects = w.objects /\ v.heap = w.heap
    BY <2>1, UndefinedChanges
  <2>3. LostIn(v) = LostIn(w) /\ Vacant(v, p) /\ \A q \in Places : Same(w, v, q)
    BY <2>2, FlagChanges
  <2>4. OthersKept(w, v, p) /\ SameAny(w, v, p)
    BY <1>1, <2>3, SameCarries DEF OthersKept
  <2> QED
    BY <1>1, <2>1, <2>2, <2>3, <2>4, VacantHolder DEF v
<1>6. CASE ~w.objects[o].isInPlace /\ ~OnHeap(w, o) /\ ~IsWild(w, o)
  <2>1. v = WithHeap(w, p, Null) /\ holder = NoHolder
    BY <1>6 DEF copy, HolderOf, getUntypedHolder
  <2> HIDE DEF v, holder
  <2>2. SameBut(w, v, p) /\ SameAny(w, v, p) /\ v.objects[p].heap = Null
          /\ v.objects[p].isInPlace = w.objects[p].isInPlace
    BY <1>1, <2>1, AnySets
  <2>3. Vacant(v, p)
    BY <2>2 DEF Vacant, SameBut
  <2>4. BlockOf(w, p) = Null /\ BlockOf(v, p) = Null /\ HolderOf(v, p) = NoHolder /\ ~IsWild(v, p) /\ ~Foreign(v, p)
    BY <2>3, VacantHolder
  <2>5. Good(v) /\ OthersKept(w, v, p) /\ LostIn(v) = LostIn(w) /\ v.misused = w.misused /\ v.thrown = w.thrown
    BY <2>2, <2>4, SameButReplaced
  <2> QED
    BY <1>1, <1>6, <2>1, <2>2, <2>4, <2>5 DEF v, holder, Carries
<1> QED
  BY <1>2, <1>3, <1>4, <1>5, <1>6

\* What p and o held is exchanged, and the others are the same.
Exchanged(w, v, p, o) ==
  /\ Good(v) /\ v.thrown = w.thrown /\ v.misused = w.misused /\ LostIn(v) = LostIn(w)
  /\ SameAny(w, v, p) /\ SameAny(w, v, o) /\ BothKept(w, v, p, o)
  /\ ~v.objects[o].isInPlace /\ v.objects[o].heap = w.objects[p].heap
  /\ Carries(w, o, v, p) /\ Carries(w, p, v, o)

\* Two containers with the same allocator and nothing in place exchange their blocks.
LEMMA ExchangeChanges ==
  ASSUME HolderAssumption, NEW w, Good(w), NEW p \in Places, w.objects[p].exists, ~w.objects[p].isInPlace,
         NEW o \in Places, w.objects[o].exists, ~w.objects[o].isInPlace, SameAllocator(w, p, o)
  PROVE  Exchanged(w, WithHeap(WithHeap(w, p, w.objects[o].heap), o, w.objects[p].heap), p, o)
<1> DEFINE a == w.objects[p].heap
           b == w.objects[o].heap
           u == WithHeap(w, p, b)
           v == WithHeap(u, o, a)
<1>1. w \in Worlds /\ a \in Blocks \union {Null, Wild} /\ b \in Blocks \union {Null, Wild}
  BY WorldFields DEF Good, Objects
<1> HIDE DEF u, v, a, b
<1>2. SameBut(w, u, p) /\ SameAny(w, u, p) /\ u.objects[p].heap = b /\ u.objects[p].isInPlace = w.objects[p].isInPlace
  BY <1>1, AnySets DEF u
<1>3. u \in Worlds /\ u.objects[o].exists
  BY <1>2 DEF SameBut
<1>4. SameBut(u, v, o) /\ SameAny(u, v, o) /\ v.objects[o].heap = a /\ v.objects[o].isInPlace = u.objects[o].isInPlace
  BY <1>1, <1>3, AnySets DEF v
<1>5. v \in Worlds /\ v.heap = w.heap /\ v.misused = w.misused /\ v.thrown = w.thrown
  BY <1>2, <1>4 DEF SameBut
<1>6. SameAny(w, v, p) /\ SameAny(w, v, o) /\ ~v.objects[p].isInPlace /\ ~v.objects[o].isInPlace
      /\ v.objects[p].heap = b /\ v.objects[o].heap = a
  <2>1. CASE p = o
    BY <1>2, <1>4, <2>1 DEF SameAny, SameBut, a, b
  <2>2. CASE p # o
    BY <1>2, <1>4, <2>2 DEF SameAny, SameBut, AllocatorOf, IndexOf
  <2> QED
    BY <2>1, <2>2
<1>7. \A q \in Places \ {p, o} : v.objects[q] = w.objects[q]
  BY <1>2, <1>4 DEF SameBut
<1>8. v.objects[p].exists /\ v.objects[o].exists
  BY <1>6 DEF SameAny
<1>9. /\ (OnHeap(v, p) <=> OnHeap(w, o)) /\ (OnHeap(v, o) <=> OnHeap(w, p))
      /\ (IsWild(v, p) <=> IsWild(w, o)) /\ (IsWild(v, o) <=> IsWild(w, p))
  BY <1>6 DEF OnHeap, HasHeap, IsWild, a, b
<1>10. BlockOf(v, p) = BlockOf(w, o) /\ BlockOf(v, o) = BlockOf(w, p)
       /\ AllocatorOf(v, p) = AllocatorOf(w, o) /\ AllocatorOf(v, o) = AllocatorOf(w, p)
  BY <1>6, <1>8, <1>9 DEF BlockOf, SameAny, SameAllocator, a, b
<1>11. \A q \in Places \ {p, o} : Same(w, v, q) /\ BlockOf(v, q) = BlockOf(w, q)
  BY <1>5, <1>7, SameIfKept
<1>12. \A q \in Places : BlockOf(v, q) # Null => v.heap[BlockOf(v, q)].live
  BY <1>5, <1>10, <1>11 DEF Good
<1>13. \A q, r \in Places : BlockOf(v, q) = BlockOf(v, r) /\ BlockOf(v, q) # Null => q = r
  BY <1>10, <1>11 DEF Good
<1>14. Good(v)
  BY <1>5, <1>12, <1>13 DEF Good
<1>15. LostIn(v) = LostIn(w)
  <2>1. \A c \in Blocks : (\A q \in Places : BlockOf(v, q) # c) <=> (\A q \in Places : BlockOf(w, q) # c)
    BY <1>10, <1>11
  <2> QED
    BY <1>5, <2>1 DEF LostIn
<1>16. Carries(w, o, v, p) /\ Carries(w, p, v, o)
  <2>1. HolderOf(v, p) = HolderOf(w, o) /\ HolderOf(v, o) = HolderOf(w, p)
    BY <1>5, <1>6, <1>9 DEF HolderOf, getUntypedHolder, a, b
  <2>2. (Foreign(v, p) => Foreign(w, o)) /\ (Foreign(v, o) => Foreign(w, p))
    BY <1>5, <1>6, <1>9, <1>10 DEF Foreign, a, b
  <2> QED
    BY <1>9, <2>1, <2>2 DEF Carries
<1>17. Exchanged(w, v, p, o)
  BY <1>5, <1>6, <1>11, <1>14, <1>15, <1>16 DEF Exchanged, BothKept, a
<1> QED
  BY <1>17 DEF v, u, a, b

\* What o held is in p, and o is vacant, or nothing was moved.
Moved(w, v, p, o) ==
  /\ Good(v) /\ SameAny(w, v, p) /\ SameAny(w, v, o) /\ BothKept(w, v, p, o) /\ v.thrown \in BOOLEAN
  /\ LostIn(v) = LostIn(w) \/ (v.thrown /\ LosesOne(w, v))
  /\ w.misused => v.misused
  /\ v.misused => w.misused \/ Astray(w, o)
  /\ SameAllocator(w, p, o) => ~v.thrown /\ (v.misused => w.misused)
  /\ IsWild(w, o) => SameAllocator(w, p, o) \/ v.misused
  /\ \/ Carries(w, o, v, p) /\ Vacant(v, o) /\ ~v.thrown
     \/ Vacant(v, p) /\ Same(w, v, o) /\ (v.thrown \/ v.misused)

\* A move takes the holder along, and one that fails takes nothing.
LEMMA MoveChanges ==
  ASSUME HolderAssumption, NEW w, Good(w), NEW p \in Places, Vacant(w, p), ~w.thrown,
         NEW o \in Places, w.objects[o].exists, NEW fails
  PROVE  Moved(w, move(w, p, o, fails), p, o)
<1> DEFINE v == move(w, p, o, fails)
           holder == HolderOf(w, o)
<1>1. holder \in Holders /\ w \in Worlds /\ w.objects[p].exists /\ w.thrown = FALSE
  BY HolderIsKept DEF Good, Vacant, Worlds
\* The holder is put into the one, and then the other one is cleared.
<1>2. ASSUME NEW u, Good(u), OthersKept(w, u, p), SameAny(w, u, p), ~u.thrown, HolderOf(u, p) = holder,
             ~IsWild(u, p), ~Foreign(u, p), u.misused = w.misused, LostIn(u) = LostIn(w), ~IsWild(w, o),
             p # o, SameAllocator(w, p, o) => ~Astray(w, o),
             v = clearHolder(u, o)
      PROVE  Moved(w, v, p, o)
  <2> HIDE DEF v, holder
  <2>1. Same(w, u, o) /\ u.objects[o].exists /\ u.objects[p].exists /\ p \in Places \ {o}
    BY <1>2 DEF OthersKept, SameAny, Same
  <2>2. /\ Good(v) /\ v.thrown = u.thrown /\ OthersKept(u, v, o) /\ SameAny(u, v, o) /\ Vacant(v, o)
        /\ LostIn(v) = LostIn(u)
        /\ u.misused => v.misused
        /\ v.misused => u.misused \/ Astray(u, o)
    BY <1>2, <2>1, ClearChanges
  <2>3. SameAny(w, u, o) /\ (Astray(u, o) <=> Astray(w, o))
    BY <2>1, SameCarries
  <2>4. Same(u, v, p)
    BY <2>1, <2>2 DEF OthersKept
  <2>5. Carries(u, p, v, p) /\ SameAny(u, v, p)
    BY <2>1, <2>4, SameCarries
  <2>6. SameAny(w, v, p) /\ SameAny(w, v, o) /\ Carries(w, o, v, p)
    BY <1>2, <2>2, <2>3, <2>5 DEF SameAny, Carries, holder
  <2>7. \A q \in Places \ {p, o} : Same(w, u, q) /\ Same(u, v, q)
    BY <1>2, <2>2 DEF OthersKept
  <2>8. BothKept(w, v, p, o)
    BY <2>7, SameAgain DEF BothKept
  <2>9. v.thrown = FALSE
    BY <1>2, <2>2 DEF Good, Worlds
  <2> QED
    BY <1>2, <2>2, <2>3, <2>6, <2>8, <2>9 DEF Moved
<1>3. CASE w.objects[o].isInPlace
  <2> DEFINE u == WithInPlace(w, p, holder)
  <2>0. ~HasHeap(w, o) /\ ~OnHeap(w, o) /\ ~IsWild(w, o) /\ ~Astray(w, o) /\ p # o
    <3>1. ~HasHeap(w, o) /\ ~OnHeap(w, o) /\ ~IsWild(w, o)
      BY <1>3 DEF OnHeap, HasHeap, IsWild
    <3> QED
      BY <1>3, <3>1 DEF Astray, Foreign, Vacant
  <2>1. v = clearHolder(u, o)
    BY <1>3, <2>0 DEF move, HolderOf
  <2> HIDE DEF v, holder, u
  <2>2. /\ Good(u) /\ u.thrown = w.thrown /\ u.misused = w.misused /\ OthersKept(w, u, p) /\ SameAny(w, u, p)
        /\ LostIn(u) = LostIn(w)
        /\ HolderOf(u, p) = holder /\ ~IsWild(u, p) /\ ~Foreign(u, p)
    BY <1>1, InPlaceChanges DEF u
  <2>3. Moved(w, v, p, o)
    BY <1>1, <1>2, <2>0, <2>1, <2>2
  <2> QED
    BY <2>3 DEF v
<1>4. CASE HasHeap(w, o) /\ SameAllocator(w, p, o)
  <2>1. v = WithHeap(WithHeap(w, p, w.objects[o].heap), o, w.objects[p].heap)
    BY <1>4 DEF move, OnHeap, HasHeap, Vacant
  <2> HIDE DEF v, holder
  <2>2. w.objects[p].exists /\ ~w.objects[p].isInPlace /\ ~w.objects[o].isInPlace
    BY <1>4 DEF Vacant, HasHeap
  <2>3. Exchanged(w, v, p, o)
    BY <1>4, <2>1, <2>2, ExchangeChanges
  <2>4. Vacant(v, o) /\ ~v.thrown
    BY <1>1, <2>3 DEF Vacant, SameAny, Exchanged
  <2>5. v.thrown \in BOOLEAN
    BY <2>3 DEF Exchanged, Good, Worlds
  <2>6. Moved(w, v, p, o)
    BY <1>4, <2>3, <2>4, <2>5 DEF Moved, Exchanged
  <2> QED
    BY <2>6 DEF v
<1>5. CASE OnHeap(w, o) /\ ~SameAllocator(w, p, o)
  <2> DEFINE u == createHeapHolder(w, p, holder, fails)
  <2>1. v = (IF u.thrown THEN u ELSE clearHolder(u, o)) /\ ~IsWild(w, o) /\ p # o
    BY <1>5 DEF move, HolderOf, OnHeap, HasHeap, IsWild, Vacant
  <2> HIDE DEF v, holder, u
  <2>2. /\ Good(u) /\ OthersKept(w, u, p) /\ SameAny(w, u, p) /\ u.misused = w.misused /\ u.thrown \in BOOLEAN
        /\ LostIn(u) = LostIn(w) \/ (u.thrown /\ LosesOne(w, u))
        /\ u.thrown => Vacant(u, p)
        /\ ~u.thrown => hasHolder(u, p) /\ HolderOf(u, p) = holder
        /\ ~IsWild(u, p) /\ ~Foreign(u, p)
    BY <1>1, CreateHeapChanges DEF u
  <2>3. CASE u.thrown
    <3>1. Same(w, u, o) /\ BothKept(w, u, p, o)
      BY <2>1, <2>2 DEF OthersKept, BothKept
    <3>2. SameAny(w, u, o)
      BY <3>1, SameCarries
    <3>3. Moved(w, u, p, o)
      BY <1>5, <2>1, <2>2, <2>3, <3>1, <3>2 DEF Moved
    <3> QED
      BY <2>1, <2>3, <3>3 DEF v
  <2>4. CASE ~u.thrown
    <3>1. v = clearHolder(u, o)
      BY <2>1, <2>4
    <3>2. Moved(w, v, p, o)
      BY <1>2, <1>5, <2>1, <2>2, <2>4, <3>1
    <3> QED
      BY <3>2 DEF v
  <2> QED
    BY <2>3, <2>4
<1>6. CASE IsWild(w, o) /\ ~SameAllocator(w, p, o)
  <2>1. v = Undefined(w) /\ Astray(w, o)
    BY <1>6 DEF move, OnHeap, HasHeap, IsWild, Astray
  <2> HIDE DEF v, holder
  <2>2. Good(v) /\ v \in Worlds /\ v.misused /\ v.thrown = w.thrown /\ v.objects = w.objects /\ v.heap = w.heap
    BY <2>1, UndefinedChanges
  <2>3. LostIn(v) = LostIn(w) /\ Vacant(v, p) /\ \A q \in Places : Same(w, v, q)
    BY <2>2, FlagChanges
  <2>4. SameAny(w, v, p) /\ SameAny(w, v, o) /\ BothKept(w, v, p, o)
    BY <1>1, <2>3, SameCarries DEF BothKept
  <2>5. Moved(w, v, p, o)
    BY <1>1, <1>6, <2>1, <2>2, <2>3, <2>4 DEF Moved
  <2> QED
    BY <2>5 DEF v
<1>7. CASE ~w.objects[o].isInPlace /\ ~HasHeap(w, o)
  <2>0. ~OnHeap(w, o) /\ ~IsWild(w, o) /\ Vacant(w, o)
    BY <1>7 DEF OnHeap, HasHeap, IsWild, Vacant, Null, Wild
  <2>1. v = WithHeap(w, p, Null)
    BY <1>7, <2>0 DEF move
  <2> HIDE DEF v, holder
  <2>2. SameBut(w, v, p) /\ SameAny(w, v, p) /\ v.objects[p].heap = Null
        /\ v.objects[p].isInPlace = w.objects[p].isInPlace
    BY <1>1, <2>1, AnySets
  <2>3. Vacant(v, p)
    BY <2>2 DEF Vacant, SameBut
  <2>4. /\ BlockOf(w, p) = Null /\ BlockOf(v, p) = Null /\ HolderOf(v, p) = NoHolder /\ ~IsWild(v, p) /\ ~Foreign(v, p)
        /\ HolderOf(w, o) = NoHolder /\ ~IsWild(w, o)
    BY <2>0, <2>3, VacantHolder
  <2>5. Good(v) /\ OthersKept(w, v, p) /\ LostIn(v) = LostIn(w) /\ v.misused = w.misused /\ v.thrown = w.thrown
    BY <2>2, <2>4, SameButReplaced
  <2>6. BothKept(w, v, p, o) /\ (p # o => Same(w, v, o))
    BY <2>5 DEF OthersKept, BothKept
  <2>7. Vacant(v, o) /\ SameAny(w, v, o) /\ Carries(w, o, v, p)
    <3>1. Carries(w, o, v, p)
      BY <2>4 DEF Carries
    <3> QED
      BY <2>0, <2>2, <2>3, <2>6, <3>1, SameCarries
  <2>8. Moved(w, v, p, o)
    BY <1>1, <2>2, <2>4, <2>5, <2>6, <2>7 DEF Moved
  <2> QED
    BY <2>8 DEF v
<1>8. HasHeap(w, o) => OnHeap(w, o) \/ IsWild(w, o)
  BY DEF OnHeap
<1> QED
  BY <1>3, <1>4, <1>5, <1>6, <1>7, <1>8

\* The index, and the allocator.
LEMMA IndexChanges ==
  ASSUME HolderAssumption, NEW w, Good(w), NEW p \in Places, w.objects[p].exists, NEW i \in Index
  PROVE  LET v == WithIndex(w, p, i) IN
         /\ Good(v) /\ v.thrown = w.thrown /\ v.misused = w.misused /\ OthersKept(w, v, p) /\ LostIn(v) = LostIn(w)
         /\ v.objects[p].exists /\ IndexOf(v, p) = i /\ Carries(w, p, v, p) /\ BlockOf(v, p) = BlockOf(w, p)
<1> DEFINE v == WithIndex(w, p, i)
<1>1. w \in Worlds
  BY DEF Good
<1> HIDE DEF v
<1>2. SameBut(w, v, p) /\ IndexOf(v, p) = i /\ AllocatorOf(v, p) = AllocatorOf(w, p)
      /\ v.objects[p].heap = w.objects[p].heap /\ v.objects[p].isInPlace = w.objects[p].isInPlace
      /\ v.objects[p].inPlace = w.objects[p].inPlace
  BY <1>1, AnySets DEF v
<1>3. v.heap = w.heap /\ v.objects[p].exists
  BY <1>2 DEF SameBut
<1>4. (OnHeap(v, p) <=> OnHeap(w, p)) /\ (IsWild(v, p) <=> IsWild(w, p))
  BY <1>2 DEF OnHeap, HasHeap, IsWild
<1>5. BlockOf(v, p) = BlockOf(w, p) /\ HolderOf(v, p) = HolderOf(w, p) /\ (Foreign(v, p) <=> Foreign(w, p))
  BY <1>2, <1>3, <1>4 DEF BlockOf, HolderOf, getUntypedHolder, Foreign
<1>6. Good(v) /\ OthersKept(w, v, p) /\ LostIn(v) = LostIn(w) /\ v.misused = w.misused /\ v.thrown = w.thrown
  BY <1>2, <1>5, SameButReplaced
<1> QED
  BY <1>2, <1>3, <1>4, <1>5, <1>6 DEF v, Carries

LEMMA AllocatorChanges ==
  ASSUME HolderAssumption, NEW w, Good(w), NEW p \in Places, w.objects[p].exists, NEW allocator \in Allocators
  PROVE  LET v == set_allocator(w, p, allocator) IN
         /\ Good(v) /\ v.thrown = w.thrown /\ v.misused = w.misused /\ OthersKept(w, v, p) /\ LostIn(v) = LostIn(w)
         /\ v.objects[p].exists /\ IndexOf(v, p) = IndexOf(w, p) /\ (Vacant(w, p) => Vacant(v, p))
         /\ HolderOf(v, p) = HolderOf(w, p) /\ (IsWild(v, p) <=> IsWild(w, p))
<1> DEFINE v == set_allocator(w, p, allocator)
<1>1. w \in Worlds
  BY DEF Good
<1> HIDE DEF v
<1>2. SameBut(w, v, p) /\ IndexOf(v, p) = IndexOf(w, p)
      /\ v.objects[p].heap = w.objects[p].heap /\ v.objects[p].isInPlace = w.objects[p].isInPlace
      /\ v.objects[p].inPlace = w.objects[p].inPlace
  BY <1>1, AnySets DEF v
<1>3. v.heap = w.heap /\ v.objects[p].exists /\ (Vacant(w, p) => Vacant(v, p))
  BY <1>2 DEF SameBut, Vacant
<1>4. (OnHeap(v, p) <=> OnHeap(w, p)) /\ (IsWild(v, p) <=> IsWild(w, p))
  BY <1>2 DEF OnHeap, HasHeap, IsWild
<1>5. BlockOf(v, p) = BlockOf(w, p) /\ HolderOf(v, p) = HolderOf(w, p)
  BY <1>2, <1>3, <1>4 DEF BlockOf, HolderOf, getUntypedHolder
<1>6. Good(v) /\ OthersKept(w, v, p) /\ LostIn(v) = LostIn(w) /\ v.misused = w.misused /\ v.thrown = w.thrown
  BY <1>2, <1>5, SameButReplaced
<1> QED
  BY <1>2, <1>3, <1>4, <1>5, <1>6 DEF v

LEMMA PropagatedChanges ==
  ASSUME HolderAssumption, NEW w, Good(w), NEW p \in Places, Vacant(w, p), NEW o \in Places, w.objects[o].exists
  PROVE  LET v == Propagated(w, p, o) IN
         /\ Good(v) /\ v.thrown = w.thrown /\ v.misused = w.misused /\ OthersKept(w, v, p) /\ LostIn(v) = LostIn(w)
         /\ Vacant(v, p) /\ IndexOf(v, p) = IndexOf(w, p)
<1>1. w.objects[p].exists /\ AllocatorOf(w, o) \in Allocators
  BY WorldFields DEF Good, Vacant, Objects, AllocatorOf
<1>2. CASE traits.assignment
  BY <1>1, <1>2, AllocatorChanges DEF Propagated
<1>3. CASE ~traits.assignment
  BY <1>3 DEF Propagated, OthersKept, Same
<1> QED
  BY <1>2, <1>3

\* A container is there, and gone.
LEMMA CreateChanges ==
  ASSUME VariantAssumption, NEW w, Good(w), NEW p \in Places, ~w.objects[p].exists, NEW allocator \in Allocators,
         NEW object \in {EmptyAny(allocator), EmptyVariant(allocator)}
  PROVE  LET v == WithObject(w, p, object) IN
         /\ Good(v) /\ v.thrown = w.thrown /\ v.misused = w.misused /\ OthersKept(w, v, p) /\ LostIn(v) = LostIn(w)
         /\ Vacant(v, p) /\ AllocatorOf(v, p) = allocator
<1> DEFINE v == WithObject(w, p, object)
<1>1. w \in Worlds /\ HolderAssumption
  BY DEF Good, VariantAssumption
<1>2. object \in Objects /\ ~object.isInPlace /\ object.heap = Null /\ object.exists /\ object.allocator = allocator
  <2>1. NoHolder \in Holders
    BY DEF NoHolder, Holder, Holders, Types
  <2>2. 0 \in Index /\ FirstIndex = 0
    BY DEF VariantAssumption, FirstIndex
  <2> DEFINE any == EmptyAny(allocator)
  <2>3. any \in Objects /\ ~any.isInPlace /\ any.heap = Null /\ any.exists /\ any.allocator = allocator
    BY <2>1, <2>2 DEF Objects, EmptyAny
  <2> HIDE DEF any
  <2>4. object \in {any, [any EXCEPT !.index = FirstIndex]}
    BY DEF EmptyVariant, any
  <2> QED
    BY <2>2, <2>3, <2>4 DEF Objects
<1>3. /\ v \in Worlds /\ v.heap = w.heap /\ v.thrown = w.thrown /\ v.misused = w.misused
      /\ v.objects[p] = object /\ \A q \in Places \ {p} : v.objects[q] = w.objects[q]
  BY <1>1, <1>2 DEF Worlds, WithObject
<1> HIDE DEF v
<1>4. Vacant(v, p) /\ BlockOf(w, p) = Null /\ AllocatorOf(v, p) = allocator
  BY <1>2, <1>3 DEF Vacant, BlockOf, AllocatorOf
<1>5. BlockOf(v, p) = Null
  BY <1>4, VacantHolder
<1>6. Good(v) /\ OthersKept(w, v, p) /\ LostIn(v) = LostIn(w)
  BY <1>1, <1>3, <1>4, <1>5, Replaced
<1> QED
  BY <1>3, <1>4, <1>6 DEF v

LEMMA RemoveChanges ==
  ASSUME HolderAssumption, NEW w, Good(w), NEW p \in Places, BlockOf(w, p) = Null
  PROVE  LET v == WithObject(w, p, Nothing) IN
         /\ Good(v) /\ v.thrown = w.thrown /\ v.misused = w.misused /\ OthersKept(w, v, p) /\ LostIn(v) = LostIn(w)
         /\ v.objects[p] = Nothing /\ ~v.objects[p].exists
<1> DEFINE v == WithObject(w, p, Nothing)
<1>1. w \in Worlds /\ ~Nothing.exists
  BY DEF Good, Nothing
<1>2. /\ v \in Worlds /\ v.heap = w.heap /\ v.thrown = w.thrown /\ v.misused = w.misused
      /\ v.objects[p] = Nothing /\ \A q \in Places \ {p} : v.objects[q] = w.objects[q]
  BY <1>1 DEF Worlds, WithObject
<1> HIDE DEF v
<1>3. BlockOf(v, p) = Null /\ ~v.objects[p].exists
  BY <1>1, <1>2 DEF BlockOf
<1>4. Good(v) /\ OthersKept(w, v, p) /\ LostIn(v) = LostIn(w)
  BY <1>2, <1>3, Replaced
<1> QED
  BY <1>2, <1>3, <1>4 DEF v

LEMMA DestroyChanges ==
  ASSUME HolderAssumption, NEW w, Good(w), NEW p \in Places, w.objects[p].exists
  PROVE  LET v == DestroyAny(w, p) IN
         /\ Good(v) /\ v.thrown = w.thrown /\ OthersKept(w, v, p) /\ LostIn(v) = LostIn(w)
         /\ w.misused => v.misused
         /\ v.misused => w.misused \/ Astray(w, p)
         /\ v.objects[p] = Nothing /\ ~v.objects[p].exists
<1> DEFINE u == clearHolder(w, p)
           v == WithObject(u, p, Nothing)
<1>1. /\ Good(u) /\ u.thrown = w.thrown /\ OthersKept(w, u, p) /\ Vacant(u, p) /\ LostIn(u) = LostIn(w)
      /\ w.misused => u.misused
      /\ u.misused => w.misused \/ Astray(w, p)
  BY ClearChanges
<1>2. DestroyAny(w, p) = v
  BY DEF DestroyAny
<1> HIDE DEF u
<1>3. BlockOf(u, p) = Null
  BY <1>1, VacantHolder
<1>4. /\ Good(v) /\ v.thrown = u.thrown /\ v.misused = u.misused /\ OthersKept(u, v, p) /\ LostIn(v) = LostIn(u)
      /\ v.objects[p] = Nothing /\ ~v.objects[p].exists
  BY <1>1, <1>3, RemoveChanges
<1> HIDE DEF v
<1> QED
  BY <1>1, <1>2, <1>4, KeptAgain

\* An allocator that is set again.
LEMMA SameAllocatorSet ==
  ASSUME HolderAssumption, NEW w \in Worlds, NEW p \in Places, w.objects[p].exists
  PROVE  set_allocator(w, p, AllocatorOf(w, p)) = w
<1>1. w.objects[p] \in Objects
  BY WorldFields
<1>2. [w.objects[p] EXCEPT !.allocator = AllocatorOf(w, p)] = w.objects[p]
  BY <1>1 DEF Objects, AllocatorOf
<1>3. [w.objects EXCEPT ![p] = w.objects[p]] = w.objects
  BY DEF Worlds
<1>4. [w EXCEPT !.objects = w.objects] = w
  BY DEF Worlds
<1> QED
  BY <1>2, <1>3, <1>4 DEF set_allocator

\* What of w is in o is in p of v.
Holds(w, o, v, p) == HolderOf(v, p) = HolderOf(w, o) /\ (IsWild(v, p) <=> IsWild(w, o))

\* Unless they exchange their allocators, too, p and o are not at odds with theirs if they were not.
SwapKeepsHome(w, v, p, o) ==
    ~traits.swap \/ SameAllocator(w, p, o) =>
        /\ Foreign(v, p) => Foreign(w, o)
        /\ Foreign(v, o) => Foreign(w, p)

\* What a swap did: both are moved, or none, or the second is in the first.
SwapDone(w, v, p, o) ==
    ~v.thrown /\ Holds(w, o, v, p) /\ Holds(w, p, v, o) /\ SwapKeepsHome(w, v, p, o)

SwapFailed(w, v, p, o) ==
    /\ v.thrown /\ p # o /\ ~IsWild(w, o)
    /\ \/ Vacant(v, p) /\ Carries(w, o, v, o)
       \/ Vacant(v, o) /\ Carries(w, o, v, p)

Swapped(w, v, p, o) ==
    /\ Good(v) /\ v.thrown \in BOOLEAN
    /\ \A q \in Slots \ {p, o} : Same(w, v, q)
    /\ v.objects[p].exists /\ v.objects[o].exists
    /\ IndexOf(v, p) = IndexOf(w, p) /\ IndexOf(v, o) = IndexOf(w, o)
    /\ LostIn(v) = LostIn(w) \/ (v.thrown /\ LosesOne(w, v))
    /\ v.misused => Astray(w, p) \/ Astray(w, o)
    /\ v.misused \/ SwapDone(w, v, p, o) \/ SwapFailed(w, v, p, o)

\* The container of the swap is destroyed.
LEMMA SwapEnds ==
  ASSUME HolderAssumption, NEW w, NEW u, NEW p \in Slots, NEW o \in Slots, Swapped(w, u, p, o),
         u.objects[Tmp].exists, Astray(u, Tmp) => Astray(w, p)
  PROVE  Swapped(w, DestroyAny(u, Tmp), p, o) /\ DestroyAny(u, Tmp).objects[Tmp] = Nothing
<1> DEFINE v == DestroyAny(u, Tmp)
<1>1. Good(u) /\ Tmp \in Places /\ \A q \in Slots : q \in Places \ {Tmp}
  BY DEF Swapped, Places, HolderAssumption
<1>2. /\ Good(v) /\ v.thrown = u.thrown /\ OthersKept(u, v, Tmp) /\ LostIn(v) = LostIn(u)
      /\ u.misused => v.misused
      /\ v.misused => u.misused \/ Astray(u, Tmp)
      /\ v.objects[Tmp] = Nothing
  BY <1>1, DestroyChanges
<1> HIDE DEF v
<1>3. \A q \in Slots : Same(u, v, q)
  BY <1>1, <1>2 DEF OthersKept
<1>4. \A q \in Slots \ {p, o} : Same(w, v, q)
  BY <1>3, SameAgain DEF Swapped
<1>5. /\ SameAny(u, v, p) /\ SameAny(u, v, o) /\ Carries(u, p, v, p) /\ Carries(u, o, v, o)
      /\ (Vacant(u, p) => Vacant(v, p)) /\ (Vacant(u, o) => Vacant(v, o))
  BY <1>3, SameCarries DEF Swapped
<1>6. SwapDone(w, u, p, o) => SwapDone(w, v, p, o)
  BY <1>2, <1>5 DEF SwapDone, Carries, Holds, SwapKeepsHome
<1>7. SwapFailed(w, u, p, o) => SwapFailed(w, v, p, o)
  BY <1>2, <1>5 DEF SwapFailed, Carries
<1>8. /\ v.objects[p].exists /\ v.objects[o].exists
      /\ IndexOf(v, p) = IndexOf(w, p) /\ IndexOf(v, o) = IndexOf(w, o)
  BY <1>5 DEF SameAny, Swapped
<1>9. /\ LostIn(v) = LostIn(w) \/ (v.thrown /\ LosesOne(w, v))
      /\ v.misused => Astray(w, p) \/ Astray(w, o)
      /\ v.misused \/ SwapDone(w, v, p, o) \/ SwapFailed(w, v, p, o)
      /\ v.thrown \in BOOLEAN
  BY <1>2, <1>6, <1>7 DEF Swapped, LosesOne
<1>10. Swapped(w, v, p, o)
  BY <1>2, <1>4, <1>8, <1>9 DEF Swapped
<1> QED
  BY <1>2, <1>10 DEF v

\* The allocators are exchanged.
LEMMA AllocatorsSwapped ==
  ASSUME HolderAssumption, NEW w, NEW u, NEW p \in Slots, NEW o \in Slots, Swapped(w, u, p, o),
         u.misused \/ SwapDone(w, u, p, o), ~u.thrown,
         AllocatorOf(u, p) = AllocatorOf(w, p), AllocatorOf(u, o) = AllocatorOf(w, o)
  PROVE  LET v == SwappedAllocators(u, p, o) IN
         Swapped(w, v, p, o) /\ Same(u, v, Tmp)
<1> DEFINE a == AllocatorOf(u, p)
           b == AllocatorOf(u, o)
           t == set_allocator(u, p, b)
           v == set_allocator(t, o, a)
<1>1. Good(u) /\ u \in Worlds /\ u.objects[p].exists /\ u.objects[o].exists /\ Slots \subseteq Places
      /\ Tmp \in Places /\ Tmp \notin Slots
  BY DEF Swapped, Good, Places, HolderAssumption
<1>2. CASE ~traits.swap
  BY <1>2 DEF SwappedAllocators, Same
<1>3. CASE traits.swap /\ SameAllocator(w, p, o)
  <2>1. a = b
    BY <1>3 DEF SameAllocator
  <2>2. t = u /\ v = u
    BY <1>1, <2>1, SameAllocatorSet
  <2> HIDE DEF t, v, a, b
  <2> QED
    BY <1>3, <2>2 DEF SwappedAllocators, Same, t, v, a, b
<1>4. CASE traits.swap /\ ~SameAllocator(w, p, o)
  <2>1. a \in Allocators /\ b \in Allocators /\ p # o
    BY <1>1, <1>4, WorldFields DEF Objects, AllocatorOf, SameAllocator
  <2> HIDE DEF t, v, a, b
  <2>2. /\ Good(t) /\ t.thrown = u.thrown /\ t.misused = u.misused /\ OthersKept(u, t, p) /\ LostIn(t) = LostIn(u)
        /\ t.objects[p].exists /\ IndexOf(t, p) = IndexOf(u, p)
        /\ HolderOf(t, p) = HolderOf(u, p) /\ (IsWild(t, p) <=> IsWild(u, p))
    BY <1>1, <2>1, AllocatorChanges DEF t
  <2>3. Same(u, t, o) /\ t.objects[o].exists
    BY <1>1, <2>1, <2>2 DEF OthersKept, Same
  <2>4. /\ Good(v) /\ v.thrown = t.thrown /\ v.misused = t.misused /\ OthersKept(t, v, o) /\ LostIn(v) = LostIn(t)
        /\ v.objects[o].exists /\ IndexOf(v, o) = IndexOf(t, o)
        /\ HolderOf(v, o) = HolderOf(t, o) /\ (IsWild(v, o) <=> IsWild(t, o))
    BY <1>1, <2>1, <2>2, <2>3, AllocatorChanges DEF v
  <2>5. Carries(u, o, t, o) /\ SameAny(u, t, o)
    BY <1>1, <2>3, SameCarries
  <2>6. Same(t, v, p)
    BY <1>1, <2>1, <2>4 DEF OthersKept
  <2>7. Carries(t, p, v, p) /\ SameAny(t, v, p)
    BY <2>2, <2>6, SameCarries
  <2>8. \A q \in Places \ {p, o} : Same(u, v, q)
    BY <2>2, <2>4, SameAgain DEF OthersKept
  <2>9. \A q \in Slots \ {p, o} : Same(w, v, q)
    BY <1>1, <2>8, SameAgain DEF Swapped
  <2>10. Holds(u, p, v, p) /\ Holds(u, o, v, o)
    BY <2>2, <2>4, <2>5, <2>7 DEF Holds, Carries
  <2>11. SwapDone(w, u, p, o) => SwapDone(w, v, p, o)
    BY <1>4, <2>2, <2>4, <2>10 DEF SwapDone, Holds, SwapKeepsHome
  <2>12. /\ v.objects[p].exists /\ v.objects[o].exists
         /\ IndexOf(v, p) = IndexOf(w, p) /\ IndexOf(v, o) = IndexOf(w, o)
    BY <2>2, <2>4, <2>5, <2>7 DEF SameAny, Swapped
  <2>13. /\ LostIn(v) = LostIn(w) \/ (v.thrown /\ LosesOne(w, v))
         /\ v.misused => Astray(w, p) \/ Astray(w, o)
         /\ v.misused \/ SwapDone(w, v, p, o) \/ SwapFailed(w, v, p, o)
         /\ v.thrown \in BOOLEAN
    BY <2>2, <2>4, <2>11 DEF Swapped, LosesOne
  <2>14. Swapped(w, v, p, o)
    BY <2>4, <2>9, <2>12, <2>13 DEF Swapped
  <2>15. Same(u, v, Tmp)
    BY <1>1, <2>8
  <2>16. SwappedAllocators(u, p, o) = v
    BY <1>4 DEF SwappedAllocators, v, t, a, b
  <2> QED
    BY <2>14, <2>15, <2>16
<1> QED
  BY <1>2, <1>3, <1>4

\* A swap is one of the holders, by way of a container of its own.
LEMMA SwapChanges ==
  ASSUME VariantAssumption, NEW w, Good(w), w.objects[Tmp] = Nothing, ~w.thrown, ~w.misused,
         NEW p \in Slots, w.objects[p].exists, NEW o \in Slots, w.objects[o].exists, NEW first, NEW second
  PROVE  LET v == swapAny(w, p, o, first, second) IN
         Swapped(w, v, p, o) /\ v.objects[Tmp] = Nothing
<1> DEFINE v == swapAny(w, p, o, first, second)
           w0 == WithObject(w, Tmp, EmptyAny(AllocatorOf(w, p)))
           w1 == move(w0, Tmp, p, "nothing")
           w2 == move(w1, p, o, first)
           w3 == move(w2, o, Tmp, second)
           exchanged == UnlessThrown(w2, w3)
           done == UnlessThrown(exchanged, SwappedAllocators(exchanged, p, o))
<1>1. HolderAssumption /\ p \in Places /\ o \in Places /\ Tmp \in Places /\ p # Tmp /\ o # Tmp
      /\ w \in Worlds /\ AllocatorOf(w, p) \in Allocators /\ ~Nothing.exists
      /\ w.thrown = FALSE /\ w.misused = FALSE
  BY WorldFields DEF VariantAssumption, HolderAssumption, Places, Good, Objects, AllocatorOf, Nothing, Worlds
<1>2. \A q \in Slots : q \in Places \ {Tmp}
  BY <1>1 DEF HolderAssumption, Places
<1>3. CASE HasHeap(w, p) /\ HasHeap(w, o) /\ SameAllocator(w, p, o)
  <2>1. v = WithHeap(WithHeap(w, p, w.objects[o].heap), o, w.objects[p].heap)
    BY <1>3 DEF swapAny
  <2> HIDE DEF v, w0, w1, w2, w3, exchanged, done
  <2>2. ~w.objects[p].isInPlace /\ ~w.objects[o].isInPlace
    BY <1>3 DEF HasHeap
  <2>3. Exchanged(w, v, p, o)
    BY <1>1, <1>3, <2>1, <2>2, ExchangeChanges
  <2>4. v.objects[Tmp] = Nothing /\ \A q \in Slots \ {p, o} : Same(w, v, q)
    BY <1>1, <1>2, <2>3 DEF Exchanged, BothKept, Same
  <2>5. SwapDone(w, v, p, o)
    BY <2>3 DEF Exchanged, SwapDone, Carries, Holds, SwapKeepsHome
  <2>6. Swapped(w, v, p, o)
    BY <1>1, <2>3, <2>4, <2>5 DEF Exchanged, Swapped, SameAny, Good, Worlds
  <2> QED
    BY <2>4, <2>6 DEF v
<1>4. CASE ~(HasHeap(w, p) /\ HasHeap(w, o) /\ SameAllocator(w, p, o))
  <2>1. v = DestroyAny(done, Tmp)
    BY <1>4 DEF swapAny
  <2> HIDE DEF v, w0, w1, w2, w3, exchanged, done
\* A container of its own, with the allocator of the first, takes what the first one holds.
  <2>2. /\ Good(w0) /\ w0.thrown = w.thrown /\ w0.misused = w.misused /\ OthersKept(w, w0, Tmp)
        /\ LostIn(w0) = LostIn(w) /\ Vacant(w0, Tmp) /\ AllocatorOf(w0, Tmp) = AllocatorOf(w, p)
    BY <1>1, CreateChanges DEF w0
  <2>3. \A q \in Slots : Same(w, w0, q)
    BY <1>2, <2>2 DEF OthersKept
  <2>4. Carries(w, p, w0, p) /\ SameAny(w, w0, p) /\ Carries(w, o, w0, o) /\ SameAny(w, w0, o)
    BY <2>3, SameCarries
  <2>5. SameAllocator(w0, Tmp, p) /\ w0.objects[p].exists
    BY <2>2, <2>4 DEF SameAllocator, SameAny
  <2>6. Moved(w0, w1, Tmp, p)
    BY <1>1, <2>2, <2>5, MoveChanges DEF w1
  <2>7. /\ Good(w1) /\ ~w1.thrown /\ ~w1.misused /\ LostIn(w1) = LostIn(w)
        /\ Carries(w0, p, w1, Tmp) /\ Vacant(w1, p) /\ SameAny(w0, w1, p) /\ SameAny(w0, w1, Tmp)
    BY <1>1, <2>2, <2>5, <2>6 DEF Moved
  <2>8. \A q \in Slots \ {p} : Same(w, w1, q)
    BY <1>2, <2>3, <2>6, SameAgain DEF Moved, BothKept
  <2>9. Carries(w, p, w1, Tmp) /\ SameAny(w, w1, p)
    BY <2>4, <2>7 DEF Carries, SameAny
  <2>10. SameAny(w, w1, o) /\ (p # o => Carries(w, o, w1, o) /\ (Astray(w1, o) <=> Astray(w, o)) /\ Same(w, w1, o))
    <3>1. CASE p = o
      BY <2>9, <3>1
    <3>2. CASE p # o
      BY <2>8, <3>2, SameCarries
    <3> QED
      BY <3>1, <3>2
  <2>11. w1.objects[o].exists /\ w1.objects[Tmp].exists
         /\ AllocatorOf(w1, p) = AllocatorOf(w, p) /\ AllocatorOf(w1, o) = AllocatorOf(w, o)
         /\ AllocatorOf(w1, Tmp) = AllocatorOf(w, p)
    BY <2>2, <2>7, <2>9, <2>10 DEF SameAny
\* The first one takes what the second one holds.
  <2>12. Moved(w1, w2, p, o)
    BY <1>1, <2>7, <2>11, MoveChanges DEF w2
  <2>13. Good(w2) /\ w2.thrown \in BOOLEAN /\ SameAny(w1, w2, p) /\ SameAny(w1, w2, o) /\ Same(w1, w2, Tmp)
         /\ \A q \in Slots \ {p, o} : Same(w, w2, q)
    BY <1>1, <1>2, <2>8, <2>12, SameAgain DEF Moved, BothKept
  <2>14. w2.objects[Tmp].exists /\ Carries(w, p, w2, Tmp) /\ (Astray(w2, Tmp) => Astray(w, p))
         /\ AllocatorOf(w2, Tmp) = AllocatorOf(w, p)
    <3>1. Carries(w1, Tmp, w2, Tmp) /\ SameAny(w1, w2, Tmp)
      BY <2>11, <2>13, SameCarries
    <3> QED
      BY <2>9, <2>11, <3>1 DEF Carries, SameAny, Astray
  <2>15. SameAny(w, w2, p) /\ SameAny(w, w2, o)
    BY <2>9, <2>10, <2>13 DEF SameAny
  <2>16. w2.misused => Astray(w, p) \/ Astray(w, o)
    <3>1. w2.misused => Astray(w1, o) /\ ~SameAllocator(w1, p, o)
      BY <2>7, <2>12 DEF Moved
    <3>2. p = o => SameAllocator(w1, p, o)
      BY DEF SameAllocator
    <3> QED
      BY <2>10, <3>1, <3>2
  <2>17. CASE w2.thrown \/ w2.misused
    <3>1. exchanged = w2 /\ done = w2
      BY <2>17 DEF exchanged, done, UnlessThrown
    <3>2. w2.misused \/ SwapFailed(w, w2, p, o)
      <4> SUFFICES ASSUME ~w2.misused PROVE SwapFailed(w, w2, p, o)
        OBVIOUS
      <4>1. w2.thrown /\ Vacant(w2, p) /\ Same(w1, w2, o) /\ ~SameAllocator(w1, p, o) /\ ~IsWild(w1, o)
        BY <2>12, <2>17 DEF Moved
      <4>2. p # o
        BY <4>1 DEF SameAllocator
      <4>3. Carries(w, o, w2, o)
        BY <2>10, <2>11, <4>1, <4>2, SameCarries DEF Carries
      <4> QED
        BY <2>10, <4>1, <4>2, <4>3 DEF SwapFailed, Carries
    <3>3. LostIn(w2) = LostIn(w) \/ (w2.thrown /\ LosesOne(w, w2))
      BY <2>7, <2>12 DEF Moved, LosesOne
    <3>4. Swapped(w, w2, p, o)
      BY <2>13, <2>15, <2>16, <3>2, <3>3 DEF Swapped, SameAny
    <3>5. Swapped(w, DestroyAny(w2, Tmp), p, o) /\ DestroyAny(w2, Tmp).objects[Tmp] = Nothing
      BY <1>1, <2>14, <3>4, SwapEnds
    <3> QED
      BY <2>1, <3>1, <3>5 DEF v
  <2>18. CASE ~w2.thrown /\ ~w2.misused
\* The second one takes what the first one held.
    <3>1. exchanged = w3
      BY <2>18 DEF exchanged, UnlessThrown
    <3>2. /\ Carries(w1, o, w2, p) /\ Vacant(w2, o) /\ LostIn(w2) = LostIn(w)
          /\ IsWild(w1, o) => SameAllocator(w1, p, o)
      BY <2>7, <2>12, <2>18 DEF Moved
    <3>3. Moved(w2, w3, o, Tmp)
      BY <1>1, <2>13, <2>14, <2>18, <3>2, MoveChanges DEF w3
    <3>4. Good(w3) /\ w3.thrown \in BOOLEAN /\ SameAny(w2, w3, o) /\ SameAny(w2, w3, Tmp)
          /\ \A q \in Slots \ {p, o} : Same(w, w3, q)
      BY <1>2, <2>13, <3>3, SameAgain DEF Moved, BothKept
    <3>5. SameAny(w, w3, o)
      BY <2>15, <3>4 DEF SameAny
    <3>6. SameAny(w, w3, p)
          /\ (p # o => Carries(w, o, w3, p))
      <4>1. CASE p = o
        BY <3>5, <4>1
      <4>2. CASE p # o
        <5>1. Same(w2, w3, p)
          BY <1>1, <3>3, <4>2 DEF Moved, BothKept
        <5>2. Carries(w2, p, w3, p) /\ SameAny(w2, w3, p)
          BY <2>15, <5>1, SameCarries DEF SameAny
        <5> QED
          BY <2>10, <2>15, <3>2, <4>2, <5>2 DEF Carries, SameAny
      <4> QED
        BY <4>1, <4>2
    <3>7. w3.misused => Astray(w, p)
      BY <2>14, <2>18, <3>3 DEF Moved
    <3>8. LostIn(w3) = LostIn(w) \/ (w3.thrown /\ LosesOne(w, w3))
      BY <3>2, <3>3 DEF Moved, LosesOne
    <3>9. SameAllocator(w, p, o) => ~w3.thrown
      <4>1. SameAllocator(w, p, o) => SameAllocator(w2, o, Tmp)
        BY <2>14, <2>15 DEF SameAllocator, SameAny
      <4> QED
        BY <3>3, <4>1 DEF Moved
    <3>10. Astray(w3, Tmp) => Astray(w, p)
      <4>1. Vacant(w3, Tmp) \/ Same(w2, w3, Tmp)
        BY <3>3 DEF Moved
      <4> QED
        BY <2>14, <4>1, VacantHolder, SameCarries
    <3>11. CASE w3.thrown \/ w3.misused
      <4>1. done = w3
        BY <3>1, <3>11 DEF done, UnlessThrown
      <4>2. w3.misused \/ SwapFailed(w, w3, p, o)
        <5> SUFFICES ASSUME ~w3.misused PROVE SwapFailed(w, w3, p, o)
          OBVIOUS
        <5>1. w3.thrown /\ Vacant(w3, o)
          BY <3>3, <3>11 DEF Moved
        <5>2. ~SameAllocator(w, p, o) /\ p # o
          BY <3>9, <5>1 DEF SameAllocator
        <5>3. ~IsWild(w, o)
          BY <2>10, <2>11, <3>2, <5>2 DEF Carries, SameAllocator
        <5> QED
          BY <3>6, <5>1, <5>2, <5>3 DEF SwapFailed
      <4>3. Swapped(w, w3, p, o)
        BY <3>4, <3>5, <3>6, <3>7, <3>8, <4>2 DEF Swapped, SameAny
      <4>4. Swapped(w, DestroyAny(w3, Tmp), p, o) /\ DestroyAny(w3, Tmp).objects[Tmp] = Nothing
        BY <1>1, <3>4, <3>10, <4>3, SwapEnds DEF SameAny
      <4> QED
        BY <2>1, <4>1, <4>4 DEF v
    <3>12. CASE ~w3.thrown /\ ~w3.misused
      <4> DEFINE w4 == SwappedAllocators(w3, p, o)
      <4>1. done = w4
        BY <3>1, <3>12 DEF done, UnlessThrown
      <4>2. Carries(w2, Tmp, w3, o)
        BY <3>3, <3>12 DEF Moved
      <4>3. Carries(w, p, w3, o)
        BY <2>14, <4>2 DEF Carries
      <4>4. SwapDone(w, w3, p, o)
        BY <3>6, <3>12, <4>3 DEF SwapDone, Carries, Holds, SwapKeepsHome
      <4>5. Swapped(w, w3, p, o)
        BY <3>4, <3>5, <3>6, <3>7, <3>8, <4>4 DEF Swapped, SameAny
      <4>6. Swapped(w, w4, p, o) /\ Same(w3, w4, Tmp)
        BY <1>1, <3>5, <3>6, <3>12, <4>4, <4>5, AllocatorsSwapped DEF SameAny
      <4> HIDE DEF w4
      <4>7. w4.objects[Tmp].exists /\ (Astray(w4, Tmp) => Astray(w, p))
        BY <3>4, <3>10, <4>6, SameCarries DEF SameAny
      <4>8. Swapped(w, DestroyAny(w4, Tmp), p, o) /\ DestroyAny(w4, Tmp).objects[Tmp] = Nothing
        BY <1>1, <4>6, <4>7, SwapEnds
      <4> QED
        BY <2>1, <4>1, <4>8 DEF v
    <3> QED
      BY <3>11, <3>12
  <2> QED
    BY <2>17, <2>18
<1> QED
  BY <1>3, <1>4

-------------------------------------------------------------------------------
(* What is in a variant.                                                   *)

\* ContentOf, of any world.
ContentIn(w, p) ==
    CASE ~w.objects[p].exists -> [holds |-> "nothing"]
      [] w.objects[p].exists /\ IsWild(w, p) -> [holds |-> "undefined"]
      [] w.objects[p].exists /\ ~IsWild(w, p) /\ HolderOf(w, p).value = NoValue -> NoContent
      [] OTHER -> [holds |-> "value", index |-> IndexOf(w, p), value |-> HolderOf(w, p)]

HasValue(w, p) == w.objects[p].exists /\ ~IsWild(w, p) /\ HolderOf(w, p).value # NoValue

\* The kinds of contents differ.
LEMMA ContentKinds ==
  ASSUME NEW w, NEW p
  PROVE  /\ ~w.objects[p].exists => ContentIn(w, p) = Promised!NotThere
         /\ w.objects[p].exists /\ IsWild(w, p) => ContentIn(w, p) = Promised!Undefined
         /\ w.objects[p].exists /\ ~IsWild(w, p) /\ HolderOf(w, p).value = NoValue => ContentIn(w, p) = Promised!Empty
         /\ HasValue(w, p) => ContentIn(w, p) = Promised!Content(IndexOf(w, p), HolderOf(w, p))
         /\ w.objects[p].exists => ContentIn(w, p) # Promised!NotThere
         /\ HasValue(w, p) <=> ContentIn(w, p).holds = "value"
         /\ NoContent = Promised!Empty /\ Promised!Empty # Promised!NotThere
<1>1. ~w.objects[p].exists => ContentIn(w, p) = Promised!NotThere
  BY DEF ContentIn, Promised!NotThere
<1>2. w.objects[p].exists /\ IsWild(w, p) => ContentIn(w, p) = Promised!Undefined
  BY DEF ContentIn, Promised!Undefined
<1>3. w.objects[p].exists /\ ~IsWild(w, p) /\ HolderOf(w, p).value = NoValue => ContentIn(w, p) = Promised!Empty
  BY DEF ContentIn, Promised!Empty, NoContent
<1>4. HasValue(w, p) => ContentIn(w, p) = Promised!Content(IndexOf(w, p), HolderOf(w, p))
  BY DEF ContentIn, Promised!Content, HasValue
<1>5. /\ Promised!NotThere.holds = "nothing" /\ Promised!Undefined.holds = "undefined" /\ Promised!Empty.holds = "empty"
      /\ Promised!Content(IndexOf(w, p), HolderOf(w, p)).holds = "value" /\ NoContent = Promised!Empty
  BY DEF Promised!NotThere, Promised!Undefined, Promised!Empty, Promised!Content, NoContent
<1> QED
  BY <1>1, <1>2, <1>3, <1>4, <1>5 DEF HasValue

\* A container that is the same has the same content, and so has one that has what another one had,
\* at its index.
LEMMA ContentsKept ==
  ASSUME NEW w, NEW v, NEW q, Same(w, v, q)
  PROVE  ContentIn(v, q) = ContentIn(w, q)
BY DEF Same, ContentIn, IsWild, IndexOf

LEMMA ContentsCarried ==
  ASSUME NEW w, NEW o, w.objects[o].exists, NEW v, NEW p, v.objects[p].exists, Holds(w, o, v, p),
         IndexOf(v, p) = IndexOf(w, o)
  PROVE  ContentIn(v, p) = ContentIn(w, o)
BY DEF Holds, ContentIn

LEMMA CarriesHolds ==
  ASSUME NEW w, NEW o, NEW v, NEW p, Carries(w, o, v, p)
  PROVE  Holds(w, o, v, p)
BY DEF Holds, Carries

\* An alternative is emplaced at its index, or there is no value.
LEMMA EmplaceVariantChanges ==
  ASSUME HolderAssumption, NEW w, Good(w), NEW p \in Places, w.objects[p].exists, ~w.thrown, NEW i \in Index,
         NEW value \in Values, NEW fails
  PROVE  LET v == emplaceVariant(w, p, i, value, fails) IN
         /\ Good(v) /\ OthersKept(w, v, p) /\ v.objects[p].exists /\ v.thrown \in BOOLEAN
         /\ LostIn(v) = LostIn(w)
         /\ v.misused => w.misused \/ Astray(w, p)
         /\ ~IsWild(v, p) /\ (Foreign(v, p) => Foreign(w, p))
         /\ v.thrown => ContentIn(v, p) = Promised!Empty
         /\ ~v.thrown /\ ~v.misused => ContentIn(v, p) = Alternative(i, value)
<1> DEFINE u == emplaceAny(w, p, AlternativeTypes[i], value, fails)
           x == WithIndex(u, p, i)
           v == emplaceVariant(w, p, i, value, fails)
<1>1. AlternativeTypes[i] \in Types
  BY DEF Types
<1>2. /\ Good(u) /\ OthersKept(w, u, p) /\ SameAny(w, u, p) /\ u.thrown \in BOOLEAN
      /\ LostIn(u) = LostIn(w)
      /\ u.misused => w.misused \/ Astray(w, p)
      /\ u.thrown => HolderOf(u, p).value = NoValue
      /\ ~u.thrown => HolderOf(u, p).type = AlternativeTypes[i] /\ HolderOf(u, p).value = value
      /\ ~IsWild(u, p)
      /\ Foreign(u, p) => Foreign(w, p)
  BY <1>1, EmplaceAnyChanges
<1>3. v = IF u.thrown \/ u.misused THEN u ELSE x
  BY DEF emplaceVariant, UnlessThrown
<1> HIDE DEF u, v
<1>4. u.objects[p].exists
  BY <1>2 DEF SameAny
<1>5. u.thrown => ContentIn(u, p) = Promised!Empty
  BY <1>2, <1>4, ContentKinds
<1>6. CASE u.thrown \/ u.misused
  <2>1. v = u
    BY <1>3, <1>6
  <2> QED
    BY <1>2, <1>4, <1>5, <1>6, <2>1 DEF v
<1>7. CASE ~(u.thrown \/ u.misused)
  <2>1. v = x
    BY <1>3, <1>7
  <2>2. /\ Good(x) /\ x.thrown = u.thrown /\ x.misused = u.misused /\ OthersKept(u, x, p) /\ LostIn(x) = LostIn(u)
        /\ x.objects[p].exists /\ IndexOf(x, p) = i /\ Carries(u, p, x, p)
    BY <1>2, <1>4, IndexChanges
  <2> HIDE DEF x
  <2>3. OthersKept(w, x, p)
    BY <1>2, <2>2, KeptAgain
  <2>4. HolderOf(x, p) = HolderOf(u, p) /\ ~IsWild(x, p) /\ (Foreign(x, p) => Foreign(w, p))
    BY <1>2, <2>2 DEF Carries
  <2>5. HolderOf(u, p) = Holder(AlternativeTypes[i], value)
    <3>1. HolderOf(u, p) \in Holders
      BY <1>2, <1>4, HolderIsKept
    <3> QED
      BY <1>2, <1>7, <3>1 DEF Holders, Holder
  <2>6. HolderOf(x, p).value # NoValue
    BY <1>2, <1>7, <2>4 DEF HolderAssumption, NoValue
  <2>7. ContentIn(x, p) = Promised!Content(i, Holder(AlternativeTypes[i], value))
    BY <2>2, <2>4, <2>5, <2>6, ContentKinds DEF HasValue
  <2>8. Promised!Content(i, Holder(AlternativeTypes[i], value)) = Alternative(i, value)
    BY DEF Promised!Content, Alternative
  <2> QED
    BY <1>2, <1>7, <2>1, <2>2, <2>3, <2>4, <2>7, <2>8 DEF v
<1> QED
  BY <1>6, <1>7

\* A copy has the content of the other one, at its index.
LEMMA CopyVariantChanges ==
  ASSUME HolderAssumption, NEW w, Good(w), NEW p \in Places, Vacant(w, p), ~w.thrown,
         NEW o \in Places, o # p, w.objects[o].exists, NEW fails
  PROVE  LET v == CopiedIndex(copy(w, p, o, fails), p, o) IN
         /\ Good(v) /\ OthersKept(w, v, p) /\ v.objects[p].exists /\ v.thrown \in BOOLEAN
         /\ LostIn(v) = LostIn(w) \/ (v.thrown /\ LosesOne(w, v))
         /\ v.misused => w.misused \/ Astray(w, o)
         /\ ~Foreign(v, p) /\ (IsWild(v, p) /\ ~v.misused => v.thrown \/ IsWild(w, o))
         /\ v.thrown => BlockOf(v, p) = Null
         /\ v.thrown => ContentIn(v, p) = Promised!Empty \/ (ContentIn(v, p) = Promised!Undefined /\ HasValue(w, o))
         /\ ~v.thrown /\ ~v.misused => ContentIn(v, p) = ContentIn(w, o)
<1> DEFINE u == copy(w, p, o, fails)
           x == WithIndex(u, p, IndexOf(u, o))
           v == CopiedIndex(u, p, o)
<1>1. /\ Good(u) /\ OthersKept(w, u, p) /\ SameAny(w, u, p) /\ u.thrown \in BOOLEAN
      /\ LostIn(u) = LostIn(w) \/ (u.thrown /\ LosesOne(w, u))
      /\ u.misused => w.misused \/ Astray(w, o)
      /\ ~Foreign(u, p)
      /\ IsWild(u, p) => u.thrown /\ ~IsWild(w, o) /\ HolderOf(w, o).value # NoValue
      /\ u.thrown => BlockOf(u, p) = Null /\ HolderOf(u, p).value = NoValue
      /\ ~u.thrown /\ ~u.misused => Carries(w, o, u, p)
  BY CopyChanges
<1>2. v = IF u.thrown \/ u.misused THEN u ELSE x
  BY DEF CopiedIndex, UnlessThrown
<1> HIDE DEF u, v
<1>3. u.objects[p].exists
  BY <1>1 DEF SameAny
<1>4. u.thrown => ContentIn(u, p) = Promised!Empty \/ (ContentIn(u, p) = Promised!Undefined /\ HasValue(w, o))
  BY <1>1, <1>3, ContentKinds DEF HasValue
<1>5. CASE u.thrown \/ u.misused
  <2>1. v = u
    BY <1>2, <1>5
  <2> QED
    BY <1>1, <1>3, <1>4, <1>5, <2>1 DEF v, u
<1>6. CASE ~(u.thrown \/ u.misused)
  <2>1. v = x
    BY <1>2, <1>6
  <2>2. Same(w, u, o)
    BY <1>1 DEF OthersKept
  <2>3. u.objects[o].exists /\ IndexOf(u, o) = IndexOf(w, o)
    BY <2>2, SameCarries DEF SameAny
  <2>4. IndexOf(u, o) \in Index
    BY <1>1, <2>3, WorldFields DEF Good, Objects, IndexOf
  <2>5. /\ Good(x) /\ x.thrown = u.thrown /\ x.misused = u.misused /\ OthersKept(u, x, p) /\ LostIn(x) = LostIn(u)
        /\ x.objects[p].exists /\ IndexOf(x, p) = IndexOf(u, o) /\ Carries(u, p, x, p)
    BY <1>1, <1>3, <2>4, IndexChanges
  <2> HIDE DEF x
  <2>6. OthersKept(w, x, p)
    BY <1>1, <2>5, KeptAgain
  <2>7. Holds(w, o, x, p) /\ ~Foreign(x, p)
    BY <1>1, <1>6, <2>5 DEF Carries, Holds
  <2>8. ContentIn(x, p) = ContentIn(w, o)
    BY <2>3, <2>5, <2>7, ContentsCarried
  <2>9. IsWild(x, p) => IsWild(w, o)
    BY <2>7 DEF Holds
  <2> QED
    BY <1>1, <1>6, <2>1, <2>5, <2>6, <2>7, <2>8, <2>9 DEF v, u
<1> QED
  BY <1>5, <1>6

\* A move takes the content along, and nothing is left, or it leaves it where it is.
LEMMA MoveVariantChanges ==
  ASSUME HolderAssumption, NEW w, Good(w), NEW p \in Places, Vacant(w, p), ~w.thrown,
         NEW o \in Places, o # p, w.objects[o].exists, NEW fails
  PROVE  LET v == CopiedIndex(move(w, p, o, fails), p, o) IN
         /\ Good(v) /\ BothKept(w, v, p, o) /\ v.objects[p].exists /\ v.objects[o].exists /\ v.thrown \in BOOLEAN
         /\ LostIn(v) = LostIn(w) \/ (v.thrown /\ LosesOne(w, v))
         /\ v.misused => w.misused \/ Astray(w, o)
         /\ v.thrown => BlockOf(v, p) = Null /\ ContentIn(v, p) = Promised!Empty /\ ~Astray(v, p) /\ Same(w, v, o)
         /\ ~v.thrown /\ ~v.misused =>
              /\ ContentIn(v, p) = ContentIn(w, o) /\ ContentIn(v, o) = Promised!Empty
              /\ (Foreign(v, p) => Foreign(w, o)) /\ (Astray(v, p) => Astray(w, o)) /\ ~Astray(v, o)
<1> DEFINE u == move(w, p, o, fails)
           x == WithIndex(u, p, IndexOf(u, o))
           v == CopiedIndex(u, p, o)
<1>1. Moved(w, u, p, o)
  BY MoveChanges
<1>2. v = IF u.thrown \/ u.misused THEN u ELSE x
  BY DEF CopiedIndex, UnlessThrown
<1> HIDE DEF u, v
<1>3. /\ Good(u) /\ SameAny(w, u, p) /\ SameAny(w, u, o) /\ BothKept(w, u, p, o) /\ u.thrown \in BOOLEAN
      /\ LostIn(u) = LostIn(w) \/ (u.thrown /\ LosesOne(w, u))
      /\ u.misused => w.misused \/ Astray(w, o)
      /\ \/ Carries(w, o, u, p) /\ Vacant(u, o) /\ ~u.thrown
         \/ Vacant(u, p) /\ Same(w, u, o) /\ (u.thrown \/ u.misused)
  BY <1>1 DEF Moved
<1>4. u.objects[p].exists /\ u.objects[o].exists
  BY <1>3 DEF SameAny
<1>5. CASE u.thrown
  <2>1. v = u
    BY <1>2, <1>5
  <2>2. Vacant(u, p) /\ Same(w, u, o)
    BY <1>3, <1>5
  <2>3. BlockOf(u, p) = Null /\ HolderOf(u, p).value = NoValue /\ ~IsWild(u, p) /\ ~Astray(u, p)
    BY <2>2, VacantHolder
  <2>4. ContentIn(u, p) = Promised!Empty
    BY <1>4, <2>3, ContentKinds
  <2> QED
    BY <1>3, <1>4, <1>5, <2>1, <2>2, <2>3, <2>4 DEF v, u
<1>6. CASE u.misused /\ ~u.thrown
  <2>1. v = u
    BY <1>2, <1>6
  <2> QED
    BY <1>3, <1>4, <1>6, <2>1 DEF v, u
<1>7. CASE ~u.thrown /\ ~u.misused
  <2>1. v = x
    BY <1>2, <1>7
  <2>2. Carries(w, o, u, p) /\ Vacant(u, o) /\ IndexOf(u, o) = IndexOf(w, o)
    BY <1>3, <1>7 DEF SameAny
  <2>3. IndexOf(u, o) \in Index
    BY <1>3, <1>4, WorldFields DEF Good, Objects, IndexOf
  <2>4. /\ Good(x) /\ x.thrown = u.thrown /\ x.misused = u.misused /\ OthersKept(u, x, p) /\ LostIn(x) = LostIn(u)
        /\ x.objects[p].exists /\ IndexOf(x, p) = IndexOf(u, o) /\ Carries(u, p, x, p)
    BY <1>3, <1>4, <2>3, IndexChanges
  <2> HIDE DEF x
  <2>5. Carries(w, o, x, p) /\ Holds(w, o, x, p)
    BY <2>2, <2>4 DEF Carries, Holds
  <2>6. ContentIn(x, p) = ContentIn(w, o)
    BY <2>2, <2>4, <2>5, ContentsCarried
  <2>7. Same(u, x, o)
    BY <2>4 DEF OthersKept
  <2>8. Vacant(x, o) /\ x.objects[o].exists
    BY <1>4, <2>2, <2>7, SameCarries DEF SameAny
  <2>9. HolderOf(x, o).value = NoValue /\ ~IsWild(x, o) /\ ~Astray(x, o)
    BY <2>8, VacantHolder
  <2>10. ContentIn(x, o) = Promised!Empty
    BY <2>8, <2>9, ContentKinds
  <2>11. BothKept(w, x, p, o)
    <3> SUFFICES ASSUME NEW q \in Places \ {p, o} PROVE Same(w, x, q)
      BY DEF BothKept
    <3> QED
      BY <1>3, <2>4, SameAgain DEF BothKept, OthersKept
  <2>12. (Foreign(x, p) => Foreign(w, o)) /\ (Astray(x, p) => Astray(w, o))
    BY <2>5 DEF Carries, Astray
  <2> QED
    BY <1>3, <1>7, <2>1, <2>4, <2>6, <2>8, <2>9, <2>10, <2>11, <2>12 DEF v, u
<1> QED
  BY <1>3, <1>5, <1>6, <1>7

-------------------------------------------------------------------------------
(* The invariant, and the end of a call.                                   *)

\* A call that ends in what is undefined leaves the world as it was before, and its mark.
VariantInv ==
    /\ Good(world)
    /\ world.objects[Tmp] = Nothing
    /\ ~world.thrown
    /\ ~traits.swap => \A p \in Slots : ~Foreign(world, p)

Stepped == VariantInv' /\ OrderKept /\ (Promised!AnyNext \/ world'.misused)

\* Why there may be a stray now.
GoneAstray(operation, p, o, v) ==
    \/ Astray(world, p) \/ Astray(world, o)
    \/ operation = "copy" /\ v.thrown
    \/ operation = "swap" /\ ~v.thrown /\ traits.swap /\ ~SameAllocator(world, p, o)

\* What any call does to the heap and to the containers it does not name.
Result(operation, p, o, v) ==
    /\ Good(v) /\ v.thrown \in BOOLEAN /\ v.objects[Tmp] = Nothing
    /\ \A q \in Slots \ {p, o} : Same(world, v, q)
    /\ v.misused => Astray(world, p) \/ Astray(world, o)
    /\ LostIn(v) = LostIn(world) \/ (v.thrown /\ operation \in {"copy", "move", "swap"} /\ LosesOne(world, v))
    /\ ~v.misused => \A q \in {p, o} :
          /\ Astray(v, q) => GoneAstray(operation, p, o, v)
          /\ ~traits.swap => ~Foreign(v, q)

VariantContents == [p \in Slots |-> ContentOf(p)]

\* The contents now are those of v.
Becomes(p, o, v) ==
    /\ \A q \in Slots : ContentOf(q)' = ContentIn(v, q) /\ ContentOf(q) = ContentIn(world, q)
    /\ \A q \in Slots \ {p, o} : ContentIn(v, q) = ContentIn(world, q)

\* No value is left.
Gone(p, v) == ContentIn(v, p) = IF world.objects[p].exists THEN Promised!Empty ELSE Promised!NotThere

\* What OneOwner says of slots, of places.
LEMMA OwnedBlocks ==
  ASSUME HolderAssumption, NEW w, Good(w)
  PROVE  /\ \A p \in Slots : OwnedByAny(w)[p] = IF BlockOf(w, p) = Null THEN {} ELSE {BlockOf(w, p)}
         /\ w.objects[Tmp] = Nothing => Lost(w) = LostIn(w)
         /\ Stray(w) = {p \in Slots : Astray(w, p)}
<1>1. ASSUME NEW p \in Slots
      PROVE  OwnedByAny(w)[p] = IF BlockOf(w, p) = Null THEN {} ELSE {BlockOf(w, p)}
  <2>1. w.objects[p].exists /\ OnHeap(w, p) => w.objects[p].heap # Null
    BY DEF OnHeap, HasHeap
  <2> QED
    BY <2>1 DEF OwnedByAny, BlockOf
<1>2. ASSUME w.objects[Tmp] = Nothing
      PROVE  Lost(w) = LostIn(w)
  <2>1. BlockOf(w, Tmp) = Null
    BY <1>2 DEF BlockOf, Nothing
  <2>2. \A b \in Blocks : b # Null
    BY DEF HolderAssumption
  <2>3. \A b \in Blocks, p \in Slots : b \in OwnedByAny(w)[p] <=> BlockOf(w, p) = b
    BY <1>1, <2>2
  <2>4. \A b \in Blocks : (\A p \in Slots : b \notin OwnedByAny(w)[p]) <=> \A p \in Places : BlockOf(w, p) # b
    BY <2>1, <2>2, <2>3 DEF Places
  <2> QED
    BY <2>4 DEF Lost, LostIn
<1>3. Stray(w) = {p \in Slots : Astray(w, p)}
  BY DEF Stray, Astray
<1> QED
  BY <1>1, <1>2, <1>3

\* How a call ends: the contents now are those of v, unless something is undefined.
LEMMA CalledGood ==
  ASSUME VariantAssumption, VariantInv, ~world.misused, NEW operation, NEW p \in Slots, NEW o \in Slots, NEW content, NEW v,
         Result(operation, p, o, v), Called(operation, p, o, content, v)
  PROVE  /\ VariantInv' /\ OrderKept
         /\ v.misused => world'.misused
         /\ call' = Promised!Call(operation, p, o, content, v.thrown)
         /\ ~v.misused => Becomes(p, o, v)
<1>1. HolderAssumption /\ Tmp \in Places /\ Slots \subseteq Places
  BY DEF VariantAssumption, Places
<1>2. call' = [operation |-> operation, to |-> p, from |-> o, content |-> content, thrown |-> v.thrown]
      /\ traits' = traits
      /\ world' = IF v.misused THEN [world EXCEPT !.misused = TRUE] ELSE [v EXCEPT !.thrown = FALSE]
  BY DEF Called
<1>3. call' = Promised!Call(operation, p, o, content, v.thrown)
  BY <1>2 DEF Promised!Call
<1>4. \A q \in Slots : ContentOf(q) = ContentIn(world, q) /\ ContentOf(q)' = ContentIn(world', q)
  BY DEF ContentOf, ContentIn, HolderOf, Exists
<1>5. \A q \in Slots \ {p, o} : ContentIn(v, q) = ContentIn(world, q)
  BY ContentsKept DEF Result
<1>6. Good(world) /\ world \in Worlds /\ Good(v) /\ v \in Worlds
  BY DEF VariantInv, Result, Good
<1> DEFINE named == {call'.to, call'.from}
<1>7. named = {p, o} /\ call'.operation = operation /\ call'.thrown = v.thrown /\ call'.to = p /\ call'.from = o
  BY <1>2
<1>8. CASE v.misused
  <2>1. world' = [world EXCEPT !.misused = TRUE]
    BY <1>2, <1>8
  <2>2. world' \in Worlds /\ world'.objects = world.objects /\ world'.heap = world.heap /\ world'.thrown = world.thrown
        /\ world'.misused
    BY <1>6, <2>1 DEF Worlds
  <2>3. Good(world') /\ \A q \in Places : Same(world, world', q)
    BY <1>1, <1>6, <2>2, FlagChanges
  <2>4. \A q \in Slots : Foreign(world', q) <=> Foreign(world, q)
    BY <1>1, <2>3 DEF Same
  <2>5. VariantInv'
    BY <1>2, <2>2, <2>3, <2>4 DEF VariantInv
  <2>6. Astray(world, p) \/ Astray(world, o)
    BY <1>8 DEF Result
  <2>7. named \intersect Stray(world) # {}
    BY <1>1, <1>6, <1>7, <2>6, OwnedBlocks
  <2>8. OrderKept
    BY <2>2, <2>7 DEF OrderKept
  <2> QED
    BY <1>3, <1>4, <1>5, <1>8, <2>2, <2>5, <2>8
<1>9. CASE ~v.misused
  <2>1. world' = [v EXCEPT !.thrown = FALSE]
    BY <1>2, <1>9
  <2>2. world' \in Worlds /\ world'.objects = v.objects /\ world'.heap = v.heap /\ world'.thrown = FALSE
        /\ world'.misused = v.misused
    BY <1>6, <2>1 DEF Worlds
  <2>3. Good(world') /\ LostIn(world') = LostIn(v) /\ \A q \in Places : Same(v, world', q)
    BY <1>1, <1>6, <2>2, FlagChanges
  <2>4. \A q \in Slots : (Foreign(world', q) <=> Foreign(v, q)) /\ (Astray(world', q) <=> Astray(v, q))
                         /\ ContentIn(world', q) = ContentIn(v, q)
    <3> TAKE q \in Slots
    <3>1. Same(v, world', q)
      BY <1>1, <2>3
    <3>2. ContentIn(world', q) = ContentIn(v, q)
      BY <3>1, ContentsKept
    <3> QED
      BY <3>1, <3>2 DEF Same, Astray, IsWild
  <2>5. \A q \in Slots \ {p, o} : (Foreign(v, q) <=> Foreign(world, q)) /\ (Astray(v, q) <=> Astray(world, q))
    BY DEF Result, Same, Astray, IsWild
  <2>6. world'.objects[Tmp] = Nothing
    BY <2>2 DEF Result
  <2>7. ~traits.swap => \A q \in Slots : ~Foreign(world', q)
    BY <1>9, <2>4, <2>5 DEF VariantInv, Result
  <2>8. VariantInv'
    BY <1>2, <2>2, <2>3, <2>6, <2>7 DEF VariantInv
  <2>9. Lost(world') = LostIn(v) /\ Lost(world) = LostIn(world)
    BY <1>1, <1>6, <2>3, <2>6, OwnedBlocks DEF VariantInv
  <2>10. \/ Lost(world') = Lost(world)
         \/ /\ call'.thrown /\ call'.operation \in {"copy", "move", "swap"}
            /\ \E b \in Blocks : Lost(world') = Lost(world) \union {b}
    BY <1>7, <2>9 DEF Result, LosesOne
  <2>11. ASSUME NEW q \in Stray(world') \ Stray(world)
         PROVE  q \in named /\ GoneAstray(operation, p, o, v)
    <3>1. q \in Slots /\ Astray(world', q) /\ ~Astray(world, q)
      BY <1>1, <1>6, <2>3, OwnedBlocks
    <3>2. q \in {p, o} /\ Astray(v, q)
      BY <2>4, <2>5, <3>1
    <3> QED
      BY <1>7, <1>9, <3>2 DEF Result
  <2>12. Astray(world, p) \/ Astray(world, o) => named \intersect Stray(world) # {}
    BY <1>1, <1>6, <1>7, OwnedBlocks
  <2>13. ASSUME NEW q \in Stray(world') \ Stray(world)
         PROVE  /\ q \in named
                /\ \/ call'.operation = "copy" /\ call'.thrown
                   \/ call'.operation = "swap" /\ ~call'.thrown /\ traits.swap /\ ~SameAllocator(world, call'.to, call'.from)
                   \/ named \intersect Stray(world) # {}
    BY <1>7, <2>11, <2>12 DEF GoneAstray
  <2> HIDE DEF named
  <2>14. OrderKept
    BY <1>9, <2>2, <2>10, <2>13 DEF OrderKept, named
  <2> QED
    BY <1>3, <1>4, <1>5, <1>9, <2>4, <2>8, <2>14 DEF Becomes
<1> QED
  BY <1>8, <1>9

\* The contents behind a call that is defined.
LEMMA ContentsNow ==
  ASSUME NEW p \in Slots, NEW o \in Slots, NEW v, Becomes(p, o, v)
  PROVE  /\ VariantContents[p] = ContentIn(world, p) /\ VariantContents[o] = ContentIn(world, o)
         /\ VariantContents' = [VariantContents EXCEPT ![p] = ContentIn(v, p), ![o] = ContentIn(v, o)]
         /\ p = o \/ ContentIn(v, o) = ContentIn(world, o) =>
                VariantContents' = [VariantContents EXCEPT ![p] = ContentIn(v, p)]
BY DEF VariantContents, Becomes

\* A call that throws and leaves no value.
LEMMA ThrowStep ==
  ASSUME NEW p \in Slots, NEW o \in Slots, NEW v, NEW content \in Promised!Contents \union {Promised!Empty},
         NEW operation \in {"put", "copy", "move"}, v.thrown = TRUE,
         call' = Promised!Call(operation, p, o, content, v.thrown),
         Becomes(p, o, v), Gone(p, v), p = o \/ ContentIn(v, o) = ContentIn(world, o)
  PROVE  Promised!AnyNext
<1>1. VariantContents[p] = ContentIn(world, p) /\ VariantContents' = [VariantContents EXCEPT ![p] = ContentIn(v, p)]
  BY ContentsNow
<1>2. VariantContents[p] = Promised!NotThere <=> ~world.objects[p].exists
  BY <1>1, ContentKinds
<1>3. VariantContents' = [VariantContents EXCEPT
                              ![p] = IF VariantContents[p] = Promised!NotThere THEN Promised!NotThere ELSE Promised!Empty]
  BY <1>1, <1>2 DEF Gone
<1>4. Promised!Throw(p, o)
  BY <1>3 DEF Promised!Throw, Promised!With, VariantContents
<1> QED
  BY <1>4 DEF Promised!Next, Promised!AnyNext

-------------------------------------------------------------------------------
(* The operations.                                                         *)

LEMMA SlotsArePlaces ==
  ASSUME VariantAssumption, NEW p \in Slots
  PROVE  HolderAssumption /\ p \in Places /\ Tmp \in Places /\ p # Tmp
BY DEF VariantAssumption, Places, HolderAssumption

\* What a call did that kept all but one variant.
LEMMA OneChanged ==
  ASSUME VariantAssumption, VariantInv, NEW p \in Slots, NEW o \in Slots, NEW operation, NEW v,
         Good(v), v.thrown \in BOOLEAN, OthersKept(world, v, p),
         v.misused => Astray(world, p) \/ Astray(world, o),
         LostIn(v) = LostIn(world) \/ (v.thrown /\ operation \in {"copy", "move", "swap"} /\ LosesOne(world, v)),
         ~v.misused => (Astray(v, p) => GoneAstray(operation, p, o, v)) /\ (~traits.swap => ~Foreign(v, p))
  PROVE  Result(operation, p, o, v)
<1>1. p \in Places /\ o \in Places /\ Tmp \in Places \ {p, o} /\ Slots \subseteq Places
  BY SlotsArePlaces DEF Places
<1>2. \A q \in Places \ {p} : Same(world, v, q)
  BY DEF OthersKept
<1>3. v.objects[Tmp] = Nothing
  BY <1>1, <1>2 DEF Same, VariantInv
<1>4. o # p => (Astray(v, o) => Astray(world, o)) /\ (Foreign(v, o) => Foreign(world, o))
  BY <1>1, <1>2 DEF Same, Astray, IsWild
<1>5. ~v.misused => \A q \in {p, o} : (Astray(v, q) => GoneAstray(operation, p, o, v)) /\ (~traits.swap => ~Foreign(v, q))
  BY <1>4 DEF GoneAstray, VariantInv
<1> QED
  BY <1>1, <1>2, <1>3, <1>5 DEF Result

\* What a constructor begins with.
LEMMA WithVariantChanges ==
  ASSUME VariantAssumption, VariantInv, ~world.misused, NEW p \in Slots, ~Exists(p), NEW allocator \in Allocators
  PROVE  LET w == WithVariant(p, allocator) IN
         /\ Good(w) /\ ~w.thrown /\ ~w.misused /\ OthersKept(world, w, p) /\ LostIn(w) = LostIn(world) /\ Vacant(w, p)
<1>1. p \in Places /\ ~world.objects[p].exists /\ Good(world) /\ ~world.thrown
  BY SlotsArePlaces DEF Exists, VariantInv
<1> QED
  BY <1>1, CreateChanges DEF WithVariant

\* A constructor or emplace.
LEMMA PutSteps ==
  ASSUME VariantAssumption, VariantInv, ~world.misused, NEW p \in Slots
  PROVE  Construct(p) \/ Emplace(p) => Stepped
<1>1. HolderAssumption /\ p \in Places /\ Good(world) /\ ~world.thrown
  BY SlotsArePlaces DEF VariantInv
<1>2. ASSUME NEW v, NEW i \in Index, NEW value \in Values, Called("put", p, p, Alternative(i, value), v),
             Good(v), v.thrown \in BOOLEAN, OthersKept(world, v, p), LostIn(v) = LostIn(world),
             v.misused => Astray(world, p),
             ~IsWild(v, p) \/ ~v.objects[p].exists, Foreign(v, p) => Foreign(world, p),
             v.thrown => ContentIn(v, p) = IF Exists(p) THEN Promised!Empty ELSE Promised!NotThere,
             ~v.thrown /\ ~v.misused => ContentIn(v, p) = Alternative(i, value)
      PROVE  Stepped
  <2>1. (Astray(v, p) => Astray(world, p)) /\ (~traits.swap => ~Foreign(v, p))
    BY <1>2 DEF Astray, VariantInv
  <2>2. Result("put", p, p, v)
    BY <1>2, <2>1, OneChanged DEF GoneAstray
  <2>3. /\ VariantInv' /\ OrderKept
        /\ v.misused => world'.misused
        /\ call' = Promised!Call("put", p, p, Alternative(i, value), v.thrown)
        /\ ~v.misused => Becomes(p, p, v)
    BY <1>2, <2>2, CalledGood
  <2>4. Alternative(i, value) \in Promised!Contents
    BY DEF Alternative, Promised!Contents, Promised!Content
  <2>5. CASE v.misused
    BY <2>3, <2>5 DEF Stepped
  <2>6. CASE ~v.misused /\ v.thrown
    <3>1. Gone(p, v) /\ v.thrown = TRUE
      BY <1>2, <2>6 DEF Exists, Gone
    <3>2. Alternative(i, value) \in Promised!Contents \union {Promised!Empty}
      BY <2>4
    <3>3. Promised!AnyNext
      BY <2>3, <2>6, <3>1, <3>2, ThrowStep
    <3> QED
      BY <2>3, <3>3 DEF Stepped
  <2>7. CASE ~v.misused /\ ~v.thrown
    <3>1. VariantContents' = [VariantContents EXCEPT ![p] = ContentIn(v, p)]
      BY <2>3, <2>7, ContentsNow
    <3>2. ContentIn(v, p) = Alternative(i, value) /\ v.thrown = FALSE
      BY <1>2, <2>7
    <3>3. Promised!Put(p, Alternative(i, value))
      BY <2>3, <3>1, <3>2 DEF Promised!Put, Promised!With, VariantContents
    <3>4. Promised!AnyNext
      BY <2>4, <3>3 DEF Promised!Next, Promised!AnyNext
    <3> QED
      BY <2>3, <3>4 DEF Stepped
  <2> QED
    BY <2>5, <2>6, <2>7
<1>3. ASSUME Construct(p) PROVE Stepped
  <2>1. PICK allocator \in Allocators, i \in Index, value \in Values, fails \in Failures :
           Called("put", p, p, Alternative(i, value),
                  Constructed(emplaceVariant(WithVariant(p, allocator), p, i, value, fails), p))
    BY <1>3 DEF Construct
  <2> DEFINE w == WithVariant(p, allocator)
             u == emplaceVariant(w, p, i, value, fails)
             v == Constructed(u, p)
  <2>2. ~Exists(p)
    BY <1>3 DEF Construct
  <2>3. /\ Good(w) /\ ~w.thrown /\ ~w.misused /\ OthersKept(world, w, p) /\ LostIn(w) = LostIn(world) /\ Vacant(w, p)
    BY <2>2, WithVariantChanges
  <2> HIDE DEF w
  <2>4. w.objects[p].exists /\ ~Foreign(w, p) /\ ~Astray(w, p)
    BY <2>3, VacantHolder DEF Vacant
  <2>5. /\ Good(u) /\ OthersKept(w, u, p) /\ u.objects[p].exists /\ u.thrown \in BOOLEAN
        /\ LostIn(u) = LostIn(w) /\ ~u.misused /\ ~IsWild(u, p) /\ ~Foreign(u, p)
        /\ ~u.thrown => ContentIn(u, p) = Alternative(i, value)
    BY <1>1, <2>3, <2>4, EmplaceVariantChanges
  <2>6. OthersKept(world, u, p) /\ ~Astray(u, p) /\ LostIn(u) = LostIn(world)
    BY <2>3, <2>5, KeptAgain DEF Astray
  <2>7. Called("put", p, p, Alternative(i, value), v)
    BY <2>1 DEF w
  <2> HIDE DEF u, v
  <2>8. CASE ~u.thrown
    <3>1. v = u
      BY <2>8 DEF Constructed, v
    <3> QED
      BY <1>2, <2>5, <2>6, <2>7, <2>8, <3>1
  <2>9. CASE u.thrown
    <3>1. v = DestroyAny(u, p)
      BY <2>9 DEF Constructed, v
    <3>2. /\ Good(v) /\ v.thrown = u.thrown /\ OthersKept(u, v, p) /\ LostIn(v) = LostIn(u)
          /\ v.misused => u.misused \/ Astray(u, p)
          /\ ~v.objects[p].exists
      BY <1>1, <2>5, <3>1, DestroyChanges
    <3>3. ~v.misused /\ OthersKept(world, v, p) /\ LostIn(v) = LostIn(world)
      BY <2>5, <2>6, <3>2, KeptAgain
    <3>4. ContentIn(v, p) = Promised!NotThere /\ ~Foreign(v, p)
      BY <3>2, ContentKinds DEF Foreign
    <3>5. v.thrown \in BOOLEAN /\ v.thrown
      BY <2>5, <2>9, <3>2
    <3> QED
      BY <1>2, <2>2, <2>7, <3>2, <3>3, <3>4, <3>5
  <2> QED
    BY <2>8, <2>9
<1>4. ASSUME Emplace(p) PROVE Stepped
  <2>1. PICK i \in Index, value \in Values, fails \in Failures :
           Called("put", p, p, Alternative(i, value), emplaceVariant(world, p, i, value, fails))
    BY <1>4 DEF Emplace
  <2> DEFINE v == emplaceVariant(world, p, i, value, fails)
  <2>2. Exists(p) /\ world.objects[p].exists
    BY <1>4 DEF Emplace, Exists
  <2>3. /\ Good(v) /\ OthersKept(world, v, p) /\ v.objects[p].exists /\ v.thrown \in BOOLEAN
        /\ LostIn(v) = LostIn(world)
        /\ v.misused => world.misused \/ Astray(world, p)
        /\ ~IsWild(v, p) /\ (Foreign(v, p) => Foreign(world, p))
        /\ v.thrown => ContentIn(v, p) = Promised!Empty
        /\ ~v.thrown /\ ~v.misused => ContentIn(v, p) = Alternative(i, value)
    BY <1>1, <2>2, EmplaceVariantChanges
  <2> HIDE DEF v
  <2>4. Called("put", p, p, Alternative(i, value), v)
    BY <2>1 DEF v
  <2> QED
    BY <1>2, <2>2, <2>3, <2>4
<1> QED
  BY <1>3, <1>4

LEMMA DestroySteps ==
  ASSUME VariantAssumption, VariantInv, ~world.misused, NEW p \in Slots
  PROVE  Destroy(p) => Stepped
<1> SUFFICES ASSUME Destroy(p) PROVE Stepped
  OBVIOUS
<1> DEFINE v == DestroyAny(world, p)
<1>1. HolderAssumption /\ p \in Places /\ Good(world) /\ world.objects[p].exists /\ ~world.thrown
      /\ Called("destroy", p, p, NoContent, v)
  BY SlotsArePlaces DEF VariantInv, Destroy, Exists
<1>2. /\ Good(v) /\ v.thrown = world.thrown /\ OthersKept(world, v, p) /\ LostIn(v) = LostIn(world)
      /\ v.misused => world.misused \/ Astray(world, p)
      /\ ~v.objects[p].exists
  BY <1>1, DestroyChanges
<1> HIDE DEF v
<1>3. v.thrown = FALSE
  BY <1>1, <1>2 DEF Good, Worlds
<1>4. ~Foreign(v, p) /\ ~Astray(v, p)
  BY <1>2 DEF Foreign, Astray
<1>5. Result("destroy", p, p, v)
  BY <1>2, <1>3, <1>4, OneChanged
<1>6. /\ VariantInv' /\ OrderKept
      /\ v.misused => world'.misused
      /\ call' = Promised!Call("destroy", p, p, NoContent, v.thrown)
      /\ ~v.misused => Becomes(p, p, v)
  <2>1. Called("destroy", p, p, NoContent, v)
    BY <1>1
  <2> QED
    BY <1>5, <2>1, CalledGood
<1>7. CASE v.misused
  BY <1>6, <1>7 DEF Stepped
<1>8. CASE ~v.misused
  <2>1. VariantContents' = [VariantContents EXCEPT ![p] = ContentIn(v, p)]
    BY <1>6, <1>8, ContentsNow
  <2>2. ContentIn(v, p) = Promised!NotThere /\ NoContent = Promised!Empty
    BY <1>2, ContentKinds
  <2>3. Promised!Destroy(p)
    BY <1>3, <1>6, <2>1, <2>2 DEF Promised!Destroy, Promised!With, VariantContents
  <2>4. Promised!AnyNext
    BY <2>3 DEF Promised!Next, Promised!AnyNext
  <2> QED
    BY <1>6, <2>4 DEF Stepped
<1> QED
  BY <1>7, <1>8

\* What a copy comes to.
LEMMA CopyStep ==
  ASSUME VariantAssumption, VariantInv, ~world.misused, NEW p \in Slots, NEW o \in Slots, Exists(o), NEW v,
         Called("copy", p, o, NoContent, v), Good(v), v.thrown \in BOOLEAN, OthersKept(world, v, p),
         v.misused => Astray(world, p) \/ Astray(world, o),
         LostIn(v) = LostIn(world) \/ (v.thrown /\ LosesOne(world, v)),
         ~v.misused => (Astray(v, p) => GoneAstray("copy", p, o, v)) /\ (~traits.swap => ~Foreign(v, p)),
         v.thrown => p # o,
         v.thrown => Gone(p, v) \/ (Exists(p) /\ HasValue(world, o) /\ ContentIn(v, p) = Promised!Undefined),
         ~v.thrown /\ ~v.misused => ContentIn(v, p) = ContentIn(world, o)
  PROVE  Stepped
<1>1. "copy" \in {"copy", "move", "swap"} /\ "copy" \in {"put", "copy", "move"}
  OBVIOUS
<1>2. Result("copy", p, o, v)
  BY <1>1, OneChanged
<1>3. /\ VariantInv' /\ OrderKept
      /\ v.misused => world'.misused
      /\ call' = Promised!Call("copy", p, o, NoContent, v.thrown)
      /\ ~v.misused => Becomes(p, o, v)
  BY <1>2, CalledGood
<1>4. CASE v.misused
  BY <1>3, <1>4 DEF Stepped
<1>5. CASE ~v.misused
  <2>1. /\ VariantContents[p] = ContentIn(world, p) /\ VariantContents[o] = ContentIn(world, o)
        /\ VariantContents' = [VariantContents EXCEPT ![p] = ContentIn(v, p)]
    <3>1. p # o => ContentIn(v, o) = ContentIn(world, o)
      BY <1>3, <1>5, SlotsArePlaces, ContentsKept DEF OthersKept
    <3> QED
      BY <1>3, <1>5, <3>1, ContentsNow
  <2>2. VariantContents[o] # Promised!NotThere /\ NoContent = Promised!Empty
    BY <2>1, ContentKinds DEF Exists
  <2>3. CASE ~v.thrown
    <3>1. v.thrown = FALSE /\ ContentIn(v, p) = VariantContents[o]
      BY <1>5, <2>1, <2>3
    <3>2. Promised!Copy(p, o)
      BY <1>3, <2>1, <2>2, <3>1 DEF Promised!Copy, Promised!With, VariantContents
    <3> QED
      BY <1>3, <3>2 DEF Promised!Next, Promised!AnyNext, Stepped
  <2>4. CASE v.thrown /\ Gone(p, v)
    <3>1. ContentIn(v, o) = ContentIn(world, o) /\ v.thrown = TRUE
      BY <2>4, SlotsArePlaces, ContentsKept DEF OthersKept
    <3>2. NoContent \in Promised!Contents \union {Promised!Empty}
      BY <2>2
    <3>3. Promised!AnyNext
      BY <1>1, <1>3, <1>5, <2>4, <3>1, <3>2, ThrowStep
    <3> QED
      BY <1>3, <3>3 DEF Stepped
  <2>5. CASE v.thrown /\ ~Gone(p, v)
    <3>1. Exists(p) /\ HasValue(world, o) /\ ContentIn(v, p) = Promised!Undefined /\ v.thrown = TRUE
      BY <2>5
    <3>2. VariantContents[p] # Promised!NotThere /\ VariantContents[o].holds = "value"
      BY <2>1, <3>1, ContentKinds DEF Exists
    <3>3. Promised!CopyThrows(p, o)
      BY <1>3, <2>1, <2>2, <3>1, <3>2 DEF Promised!CopyThrows, Promised!With, VariantContents
    <3> QED
      BY <1>3, <3>3 DEF Promised!AnyNext, Stepped
  <2> QED
    BY <2>3, <2>4, <2>5
<1> QED
  BY <1>4, <1>5

LEMMA CopyConstructs ==
  ASSUME VariantAssumption, VariantInv, ~world.misused, NEW p \in Slots, NEW o \in Slots
  PROVE  CopyConstruct(p, o) => Stepped
<1> SUFFICES ASSUME CopyConstruct(p, o) PROVE Stepped
  OBVIOUS
<1>1. PICK allocator \in Allocators, fails \in Failures :
         Called("copy", p, o, NoContent,
                CopyConstructed(CopiedIndex(copy(WithVariant(p, allocator), p, o, fails), p, o), p))
  BY DEF CopyConstruct
<1> DEFINE w == WithVariant(p, allocator)
           u == CopiedIndex(copy(w, p, o, fails), p, o)
           v == CopyConstructed(u, p)
<1>2. HolderAssumption /\ p \in Places /\ o \in Places /\ ~Exists(p) /\ Exists(o) /\ p # o
  BY SlotsArePlaces DEF CopyConstruct
<1>3. /\ Good(w) /\ ~w.thrown /\ ~w.misused /\ OthersKept(world, w, p) /\ LostIn(w) = LostIn(world) /\ Vacant(w, p)
  BY <1>2, WithVariantChanges
<1>4. Called("copy", p, o, NoContent, v)
  BY <1>1
<1> HIDE DEF w
<1>5. Same(world, w, o)
  BY <1>2, <1>3 DEF OthersKept
<1>6. /\ w.objects[o].exists /\ ContentIn(w, o) = ContentIn(world, o)
      /\ (Astray(w, o) <=> Astray(world, o)) /\ (IsWild(w, o) <=> IsWild(world, o)) /\ world.objects[o].exists
  BY <1>2, <1>5, SameCarries, ContentsKept DEF Exists, SameAny, Carries
<1>7. /\ Good(u) /\ OthersKept(w, u, p) /\ u.objects[p].exists /\ u.thrown \in BOOLEAN
      /\ LostIn(u) = LostIn(w) \/ (u.thrown /\ LosesOne(w, u))
      /\ u.misused => w.misused \/ Astray(w, o)
      /\ ~Foreign(u, p) /\ (IsWild(u, p) /\ ~u.misused => u.thrown \/ IsWild(w, o))
      /\ u.thrown => BlockOf(u, p) = Null
      /\ u.thrown => ContentIn(u, p) = Promised!Empty \/ (ContentIn(u, p) = Promised!Undefined /\ HasValue(w, o))
      /\ ~u.thrown /\ ~u.misused => ContentIn(u, p) = ContentIn(w, o)
  BY <1>2, <1>3, <1>6, CopyVariantChanges
<1> HIDE DEF u, v
<1>8. OthersKept(world, u, p) /\ (LostIn(u) = LostIn(world) \/ (u.thrown /\ LosesOne(world, u)))
      /\ (u.misused => Astray(world, o))
  BY <1>3, <1>6, <1>7, KeptAgain DEF LosesOne
<1>9. CASE ~u.thrown
  <2>1. v = u
    BY <1>9 DEF CopyConstructed, v
  <2>2. ~u.misused => (Astray(u, p) => GoneAstray("copy", p, o, u)) /\ (~traits.swap => ~Foreign(u, p))
    BY <1>6, <1>7, <1>9 DEF Astray, GoneAstray
  <2>3. Called("copy", p, o, NoContent, u)
    BY <1>4, <2>1
  <2> HIDE DEF Stepped
  <2> QED
    BY <1>2, <1>6, <1>7, <1>8, <1>9, <2>2, <2>3, CopyStep
<1>10. CASE u.thrown
  <2>1. v = WithObject(u, p, Nothing)
    BY <1>10 DEF CopyConstructed, v
  <2>2. /\ Good(v) /\ v.thrown = u.thrown /\ v.misused = u.misused /\ OthersKept(u, v, p) /\ LostIn(v) = LostIn(u)
        /\ ~v.objects[p].exists
    BY <1>2, <1>7, <1>10, <2>1, RemoveChanges
  <2>3. ~Foreign(v, p) /\ ~Astray(v, p) /\ Gone(p, v)
    BY <1>2, <2>2, ContentKinds DEF Foreign, Astray, Gone, Exists
  <2>4. OthersKept(world, v, p) /\ (LostIn(v) = LostIn(world) \/ (v.thrown /\ LosesOne(world, v))) /\ v.thrown
        /\ v.thrown \in BOOLEAN
        /\ (v.misused => Astray(world, o))
    BY <1>7, <1>8, <1>10, <2>2, KeptAgain DEF LosesOne
  <2> QED
    BY <1>2, <1>4, <2>2, <2>3, <2>4, CopyStep
<1> QED
  BY <1>9, <1>10

\* What an assignment begins with.
LEMMA ClearedForAssignment ==
  ASSUME VariantAssumption, VariantInv, ~world.misused, NEW p \in Slots, NEW o \in Slots, p # o, Exists(p), Exists(o)
  PROVE  LET w == Propagated(clearHolder(world, p), p, o) IN
         /\ Good(w) /\ ~w.thrown /\ OthersKept(world, w, p) /\ LostIn(w) = LostIn(world) /\ Vacant(w, p)
         /\ w.misused => Astray(world, p)
         /\ w.objects[o].exists /\ ContentIn(w, o) = ContentIn(world, o)
         /\ (Foreign(w, o) <=> Foreign(world, o)) /\ (Astray(w, o) <=> Astray(world, o))
         /\ (HasValue(w, o) <=> HasValue(world, o)) /\ (IsWild(w, o) <=> IsWild(world, o))
<1> DEFINE u == clearHolder(world, p)
           w == Propagated(u, p, o)
<1>1. HolderAssumption /\ p \in Places /\ o \in Places /\ Good(world) /\ ~world.thrown
      /\ world.objects[p].exists /\ world.objects[o].exists
  BY SlotsArePlaces DEF VariantInv, Exists
<1>2. /\ Good(u) /\ u.thrown = world.thrown /\ OthersKept(world, u, p) /\ Vacant(u, p)
      /\ LostIn(u) = LostIn(world)
      /\ u.misused => world.misused \/ Astray(world, p)
  BY <1>1, ClearChanges
<1> HIDE DEF u
<1>3. Same(world, u, o)
  BY <1>1, <1>2 DEF OthersKept
<1>4. u.objects[o].exists
  BY <1>1, <1>3, SameCarries DEF SameAny
<1>5. /\ Good(w) /\ w.thrown = u.thrown /\ w.misused = u.misused /\ OthersKept(u, w, p) /\ LostIn(w) = LostIn(u)
      /\ Vacant(w, p)
  BY <1>1, <1>2, <1>4, PropagatedChanges
<1> HIDE DEF w
<1>6. OthersKept(world, w, p)
  BY <1>2, <1>5, KeptAgain
<1>7. Same(world, w, o)
  BY <1>1, <1>6 DEF OthersKept
<1>8. w.objects[o].exists /\ ContentIn(w, o) = ContentIn(world, o) /\ (Astray(w, o) <=> Astray(world, o))
      /\ (IsWild(w, o) <=> IsWild(world, o)) /\ (Foreign(w, o) <=> Foreign(world, o))
  BY <1>1, <1>7, SameCarries, ContentsKept DEF SameAny, Carries, Same
<1>9. HasValue(w, o) <=> HasValue(world, o)
  BY <1>8, ContentKinds
<1> QED
  BY <1>1, <1>2, <1>5, <1>6, <1>8, <1>9 DEF w, u

LEMMA CopyAssigns ==
  ASSUME VariantAssumption, VariantInv, ~world.misused, NEW p \in Slots, NEW o \in Slots
  PROVE  CopyAssign(p, o) => Stepped
<1> SUFFICES ASSUME CopyAssign(p, o) PROVE Stepped
  OBVIOUS
<1>1. PICK fails \in Failures :
         Called("copy", p, o, NoContent, CopiedIndex(copyAssignAny(world, p, o, fails), p, o))
  BY DEF CopyAssign
<1>2. HolderAssumption /\ p \in Places /\ o \in Places /\ Exists(p) /\ Exists(o)
      /\ Good(world) /\ world.thrown = FALSE /\ world.objects[p].exists
  BY SlotsArePlaces DEF CopyAssign, VariantInv, Exists, Good, Worlds
<1>3. CASE p = o
  <2> DEFINE v == WithIndex(world, p, IndexOf(world, p))
  <2>1. Called("copy", p, o, NoContent, v)
    BY <1>1, <1>2, <1>3 DEF copyAssignAny, CopiedIndex, UnlessThrown
  <2>2. IndexOf(world, p) \in Index
    BY <1>2, WorldFields DEF Good, Objects, IndexOf
  <2>3. /\ Good(v) /\ v.thrown = FALSE /\ v.misused = world.misused /\ OthersKept(world, v, p)
        /\ LostIn(v) = LostIn(world)
        /\ v.objects[p].exists /\ IndexOf(v, p) = IndexOf(world, p) /\ Carries(world, p, v, p)
    BY <1>2, <2>2, IndexChanges
  <2> HIDE DEF v
  <2>4. ContentIn(v, p) = ContentIn(world, o)
    BY <1>2, <1>3, <2>3, CarriesHolds, ContentsCarried
  <2>5. (Astray(v, p) => GoneAstray("copy", p, o, v)) /\ (~traits.swap => ~Foreign(v, p))
    BY <1>2, <2>3 DEF Carries, Astray, GoneAstray, VariantInv
  <2>6. v.thrown \in BOOLEAN /\ ~v.misused /\ ~v.thrown
    BY <2>3
  <2> QED
    BY <1>2, <2>1, <2>3, <2>4, <2>5, <2>6, CopyStep
<1>4. CASE p # o
  <2> DEFINE w == Propagated(clearHolder(world, p), p, o)
             v == CopiedIndex(copy(w, p, o, fails), p, o)
  <2>1. Called("copy", p, o, NoContent, v)
    BY <1>1, <1>4 DEF copyAssignAny
  <2>2. /\ Good(w) /\ ~w.thrown /\ OthersKept(world, w, p) /\ LostIn(w) = LostIn(world) /\ Vacant(w, p)
        /\ w.misused => Astray(world, p)
        /\ w.objects[o].exists /\ ContentIn(w, o) = ContentIn(world, o)
        /\ (Astray(w, o) <=> Astray(world, o)) /\ (HasValue(w, o) <=> HasValue(world, o))
        /\ (IsWild(w, o) <=> IsWild(world, o))
    BY <1>2, <1>4, ClearedForAssignment
  <2> HIDE DEF w
  <2>3. /\ Good(v) /\ OthersKept(w, v, p) /\ v.objects[p].exists /\ v.thrown \in BOOLEAN
        /\ LostIn(v) = LostIn(w) \/ (v.thrown /\ LosesOne(w, v))
        /\ v.misused => w.misused \/ Astray(w, o)
        /\ ~Foreign(v, p) /\ (IsWild(v, p) /\ ~v.misused => v.thrown \/ IsWild(w, o))
        /\ v.thrown => ContentIn(v, p) = Promised!Empty \/ (ContentIn(v, p) = Promised!Undefined /\ HasValue(w, o))
        /\ ~v.thrown /\ ~v.misused => ContentIn(v, p) = ContentIn(w, o)
    BY <1>2, <1>4, <2>2, CopyVariantChanges
  <2> HIDE DEF v
  <2>4. /\ OthersKept(world, v, p)
        /\ LostIn(v) = LostIn(world) \/ (v.thrown /\ LosesOne(world, v))
        /\ v.misused => Astray(world, p) \/ Astray(world, o)
    BY <2>2, <2>3, KeptAgain DEF LosesOne
  <2>5. ~v.misused => (Astray(v, p) => GoneAstray("copy", p, o, v)) /\ (~traits.swap => ~Foreign(v, p))
    BY <1>2, <2>2, <2>3 DEF Astray, GoneAstray, Exists
  <2>6. /\ v.thrown => Gone(p, v) \/ (Exists(p) /\ HasValue(world, o) /\ ContentIn(v, p) = Promised!Undefined)
        /\ ~v.thrown /\ ~v.misused => ContentIn(v, p) = ContentIn(world, o)
    BY <1>2, <2>2, <2>3 DEF Gone
  <2> QED
    BY <1>2, <1>4, <2>1, <2>3, <2>4, <2>5, <2>6, CopyStep
<1> QED
  BY <1>3, <1>4

\* What a move comes to.
LEMMA MoveStep ==
  ASSUME VariantAssumption, VariantInv, ~world.misused, NEW p \in Slots, NEW o \in Slots, p # o, Exists(o), NEW v,
         Called("move", p, o, NoContent, v), Good(v), v.thrown \in BOOLEAN, BothKept(world, v, p, o),
         v.misused => Astray(world, p) \/ Astray(world, o),
         LostIn(v) = LostIn(world) \/ (v.thrown /\ LosesOne(world, v)),
         v.thrown /\ ~v.misused => Gone(p, v) /\ Same(world, v, o) /\ ~Astray(v, p) /\ ~Foreign(v, p),
         ~v.thrown /\ ~v.misused =>
            /\ ContentIn(v, p) = ContentIn(world, o) /\ ContentIn(v, o) = Promised!Empty
            /\ (Foreign(v, p) => Foreign(world, o)) /\ (Astray(v, p) => Astray(world, o)) /\ ~Astray(v, o)
  PROVE  Stepped
<1>1. Tmp \in Places \ {p, o} /\ Slots \subseteq Places /\ p \in Places /\ o \in Places
  BY SlotsArePlaces DEF Places
<1>2. v.objects[Tmp] = Nothing /\ \A q \in Slots \ {p, o} : Same(world, v, q)
  BY <1>1 DEF BothKept, Same, VariantInv
<1>3. ~v.misused => \A q \in {p, o} :
        (Astray(v, q) => GoneAstray("move", p, o, v)) /\ (~traits.swap => ~Foreign(v, q))
  <2>1. CASE v.thrown /\ ~v.misused
    BY <2>1 DEF Same, Astray, IsWild, GoneAstray, VariantInv
  <2>2. CASE ~v.thrown /\ ~v.misused
    BY <2>2 DEF Astray, GoneAstray, VariantInv
  <2> QED
    BY <2>1, <2>2
<1>4. "move" \in {"copy", "move", "swap"} /\ "move" \in {"put", "copy", "move"}
  OBVIOUS
<1>5. Result("move", p, o, v)
  BY <1>2, <1>3, <1>4 DEF Result
<1>6. /\ VariantInv' /\ OrderKept
      /\ v.misused => world'.misused
      /\ call' = Promised!Call("move", p, o, NoContent, v.thrown)
      /\ ~v.misused => Becomes(p, o, v)
  BY <1>5, CalledGood
<1>7. CASE v.misused
  BY <1>6, <1>7 DEF Stepped
<1>8. CASE ~v.misused /\ v.thrown
  <2>1. ContentIn(v, o) = ContentIn(world, o) /\ v.thrown = TRUE /\ Gone(p, v)
    BY <1>8, ContentsKept
  <2>2. NoContent \in Promised!Contents \union {Promised!Empty}
    BY ContentKinds
  <2>3. Promised!AnyNext
    BY <1>4, <1>6, <1>8, <2>1, <2>2, ThrowStep
  <2> QED
    BY <1>6, <2>3 DEF Stepped
<1>9. CASE ~v.misused /\ ~v.thrown
  <2>1. /\ VariantContents[o] = ContentIn(world, o)
        /\ VariantContents' = [VariantContents EXCEPT ![p] = ContentIn(v, p), ![o] = ContentIn(v, o)]
    BY <1>6, <1>9, ContentsNow
  <2>2. VariantContents[o] # Promised!NotThere /\ NoContent = Promised!Empty
    BY <2>1, ContentKinds DEF Exists
  <2>3. ContentIn(v, p) = VariantContents[o] /\ ContentIn(v, o) = Promised!Empty /\ v.thrown = FALSE
    BY <1>9, <2>1
  <2>4. Promised!Empty \in Promised!Left(VariantContents[o])
    BY DEF Promised!Left
  <2>5. Promised!Move(p, o)
    BY <1>6, <2>1, <2>2, <2>3, <2>4 DEF Promised!Move, VariantContents
  <2> QED
    BY <1>6, <2>5 DEF Promised!Next, Promised!AnyNext, Stepped
<1> QED
  BY <1>7, <1>8, <1>9

LEMMA MoveConstructs ==
  ASSUME VariantAssumption, VariantInv, ~world.misused, NEW p \in Slots, NEW o \in Slots
  PROVE  MoveConstruct(p, o) => Stepped
<1> SUFFICES ASSUME MoveConstruct(p, o) PROVE Stepped
  OBVIOUS
<1>1. PICK allocator \in Allocators, fails \in Failures :
         Called("move", p, o, NoContent,
                CopyConstructed(CopiedIndex(move(WithVariant(p, allocator), p, o, fails), p, o), p))
  BY DEF MoveConstruct
<1> DEFINE w == WithVariant(p, allocator)
           u == CopiedIndex(move(w, p, o, fails), p, o)
           v == CopyConstructed(u, p)
<1>2. HolderAssumption /\ p \in Places /\ o \in Places /\ ~Exists(p) /\ Exists(o) /\ p # o
  BY SlotsArePlaces DEF MoveConstruct
<1>3. /\ Good(w) /\ ~w.thrown /\ ~w.misused /\ OthersKept(world, w, p) /\ LostIn(w) = LostIn(world) /\ Vacant(w, p)
  BY <1>2, WithVariantChanges
<1>4. Called("move", p, o, NoContent, v)
  BY <1>1
<1> HIDE DEF w
<1>5. Same(world, w, o)
  BY <1>2, <1>3 DEF OthersKept
<1>6. /\ w.objects[o].exists /\ ContentIn(w, o) = ContentIn(world, o)
      /\ (Astray(w, o) <=> Astray(world, o)) /\ (Foreign(w, o) <=> Foreign(world, o))
  BY <1>2, <1>5, SameCarries, ContentsKept DEF Exists, SameAny, Same
<1>7. /\ Good(u) /\ BothKept(w, u, p, o) /\ u.objects[p].exists /\ u.objects[o].exists /\ u.thrown \in BOOLEAN
      /\ LostIn(u) = LostIn(w) \/ (u.thrown /\ LosesOne(w, u))
      /\ u.misused => w.misused \/ Astray(w, o)
      /\ u.thrown => BlockOf(u, p) = Null /\ ContentIn(u, p) = Promised!Empty /\ ~Astray(u, p) /\ Same(w, u, o)
      /\ ~u.thrown /\ ~u.misused =>
           /\ ContentIn(u, p) = ContentIn(w, o) /\ ContentIn(u, o) = Promised!Empty
           /\ (Foreign(u, p) => Foreign(w, o)) /\ (Astray(u, p) => Astray(w, o)) /\ ~Astray(u, o)
  BY <1>2, <1>3, <1>6, MoveVariantChanges
<1> HIDE DEF u, v
<1>8. BothKept(world, u, p, o) /\ (LostIn(u) = LostIn(world) \/ (u.thrown /\ LosesOne(world, u)))
      /\ (u.misused => Astray(world, o))
  BY <1>3, <1>6, <1>7, SameAgain DEF LosesOne, BothKept, OthersKept
<1>9. CASE ~u.thrown
  <2>1. v = u
    BY <1>9 DEF CopyConstructed, v
  <2>2. Called("move", p, o, NoContent, u)
    BY <1>4, <2>1
  <2>3. ~u.misused =>
           /\ ContentIn(u, p) = ContentIn(world, o) /\ ContentIn(u, o) = Promised!Empty
           /\ (Foreign(u, p) => Foreign(world, o)) /\ (Astray(u, p) => Astray(world, o)) /\ ~Astray(u, o)
    BY <1>6, <1>7, <1>9
  <2> QED
    BY <1>2, <1>7, <1>8, <1>9, <2>2, <2>3, MoveStep
<1>10. CASE u.thrown
  <2>1. v = WithObject(u, p, Nothing)
    BY <1>10 DEF CopyConstructed, v
  <2>2. /\ Good(v) /\ v.thrown = u.thrown /\ v.misused = u.misused /\ OthersKept(u, v, p) /\ LostIn(v) = LostIn(u)
        /\ ~v.objects[p].exists
    BY <1>2, <1>7, <1>10, <2>1, RemoveChanges
  <2>3. ~Foreign(v, p) /\ ~Astray(v, p) /\ Gone(p, v)
    BY <1>2, <2>2, ContentKinds DEF Foreign, Astray, Gone, Exists
  <2>4. Same(world, v, o)
    BY <1>2, <1>5, <1>7, <1>10, <2>2, SameAgain DEF OthersKept
  <2>5. BothKept(world, v, p, o)
    BY <1>8, <2>2, SameAgain DEF BothKept, OthersKept
  <2>6. (LostIn(v) = LostIn(world) \/ (v.thrown /\ LosesOne(world, v))) /\ v.thrown /\ v.thrown \in BOOLEAN
        /\ (v.misused => Astray(world, o))
    BY <1>7, <1>8, <1>10, <2>2 DEF LosesOne
  <2> QED
    BY <1>2, <1>4, <2>2, <2>3, <2>4, <2>5, <2>6, MoveStep
<1> QED
  BY <1>9, <1>10

LEMMA MoveAssigns ==
  ASSUME VariantAssumption, VariantInv, ~world.misused, NEW p \in Slots, NEW o \in Slots
  PROVE  MoveAssign(p, o) => Stepped
<1> SUFFICES ASSUME MoveAssign(p, o) PROVE Stepped
  OBVIOUS
<1>1. PICK fails \in Failures :
         Called("move", p, o, NoContent, CopiedIndex(moveAssignAny(world, p, o, fails), p, o))
  BY DEF MoveAssign
<1>2. HolderAssumption /\ p \in Places /\ o \in Places /\ Exists(p) /\ Exists(o)
      /\ Good(world) /\ world.thrown = FALSE /\ world.objects[p].exists
  BY SlotsArePlaces DEF MoveAssign, VariantInv, Exists, Good, Worlds
<1>3. CASE p = o
  <2> DEFINE v == WithIndex(world, p, IndexOf(world, p))
  <2>1. Called("move", p, p, NoContent, v)
    BY <1>1, <1>2, <1>3 DEF moveAssignAny, CopiedIndex, UnlessThrown
  <2>2. IndexOf(world, p) \in Index
    BY <1>2, WorldFields DEF Good, Objects, IndexOf
  <2>3. /\ Good(v) /\ v.thrown = FALSE /\ v.misused = world.misused /\ OthersKept(world, v, p)
        /\ LostIn(v) = LostIn(world)
        /\ v.objects[p].exists /\ IndexOf(v, p) = IndexOf(world, p) /\ Carries(world, p, v, p)
    BY <1>2, <2>2, IndexChanges
  <2> HIDE DEF v
  <2>4. ContentIn(v, p) = ContentIn(world, p)
    BY <1>2, <2>3, CarriesHolds, ContentsCarried
  <2>5. (Astray(v, p) => GoneAstray("move", p, p, v)) /\ (~traits.swap => ~Foreign(v, p))
    BY <1>2, <2>3 DEF Carries, Astray, GoneAstray, VariantInv
  <2>6. Result("move", p, p, v)
    BY <2>3, <2>5, OneChanged
  <2>7. /\ VariantInv' /\ OrderKept
        /\ call' = Promised!Call("move", p, p, NoContent, v.thrown)
        /\ ~v.misused => Becomes(p, p, v)
    BY <2>1, <2>6, CalledGood
  <2>8. /\ VariantContents[p] = ContentIn(world, p)
        /\ VariantContents' = [VariantContents EXCEPT ![p] = ContentIn(world, p)]
    BY <2>3, <2>4, <2>7, ContentsNow
  <2>9. VariantContents' = VariantContents
    BY <2>8 DEF VariantContents
  <2>10. VariantContents[p] # Promised!NotThere /\ NoContent = Promised!Empty
    BY <1>2, <2>8, ContentKinds
  <2>11. Promised!MoveToItself(p)
    BY <2>3, <2>7, <2>9, <2>10 DEF Promised!MoveToItself, VariantContents
  <2> QED
    BY <2>7, <2>11 DEF Promised!Next, Promised!AnyNext, Stepped
<1>4. CASE p # o
  <2> DEFINE w == Propagated(clearHolder(world, p), p, o)
             v == CopiedIndex(move(w, p, o, fails), p, o)
  <2>1. Called("move", p, o, NoContent, v)
    BY <1>1, <1>4 DEF moveAssignAny
  <2>2. /\ Good(w) /\ ~w.thrown /\ OthersKept(world, w, p) /\ LostIn(w) = LostIn(world) /\ Vacant(w, p)
        /\ w.misused => Astray(world, p)
        /\ w.objects[o].exists /\ ContentIn(w, o) = ContentIn(world, o)
        /\ (Foreign(w, o) <=> Foreign(world, o)) /\ (Astray(w, o) <=> Astray(world, o))
    BY <1>2, <1>4, ClearedForAssignment
  <2> HIDE DEF w
  <2>3. /\ Good(v) /\ BothKept(w, v, p, o) /\ v.objects[p].exists /\ v.objects[o].exists /\ v.thrown \in BOOLEAN
        /\ LostIn(v) = LostIn(w) \/ (v.thrown /\ LosesOne(w, v))
        /\ v.misused => w.misused \/ Astray(w, o)
        /\ v.thrown => BlockOf(v, p) = Null /\ ContentIn(v, p) = Promised!Empty /\ ~Astray(v, p) /\ Same(w, v, o)
        /\ ~v.thrown /\ ~v.misused =>
             /\ ContentIn(v, p) = ContentIn(w, o) /\ ContentIn(v, o) = Promised!Empty
             /\ (Foreign(v, p) => Foreign(w, o)) /\ (Astray(v, p) => Astray(w, o)) /\ ~Astray(v, o)
    BY <1>2, <1>4, <2>2, MoveVariantChanges
  <2> HIDE DEF v
  <2>4. BothKept(world, v, p, o)
    BY <2>2, <2>3, SameAgain DEF BothKept, OthersKept
  <2>5. /\ LostIn(v) = LostIn(world) \/ (v.thrown /\ LosesOne(world, v))
        /\ v.misused => Astray(world, p) \/ Astray(world, o)
    BY <2>2, <2>3 DEF LosesOne
  <2>6. v.thrown => Gone(p, v) /\ ~Astray(v, p) /\ ~Foreign(v, p)
    BY <1>2, <2>3 DEF Gone, Astray
  <2>7. v.thrown => Same(world, v, o)
    BY <1>2, <1>4, <2>2, <2>3, SameAgain DEF OthersKept
  <2>8. ~v.thrown /\ ~v.misused =>
           /\ ContentIn(v, p) = ContentIn(world, o) /\ ContentIn(v, o) = Promised!Empty
           /\ (Foreign(v, p) => Foreign(world, o)) /\ (Astray(v, p) => Astray(world, o)) /\ ~Astray(v, o)
    BY <2>2, <2>3
  <2> QED
    BY <1>2, <1>4, <2>1, <2>3, <2>4, <2>5, <2>6, <2>7, <2>8, MoveStep
<1> QED
  BY <1>3, <1>4

\* A swap with the indexes.
LEMMA SwapVariantChanges ==
  ASSUME VariantAssumption, VariantInv, ~world.misused, NEW p \in Slots, NEW o \in Slots, Exists(p), Exists(o),
         NEW first, NEW second
  PROVE  LET w == swapAny(world, p, o, first, second)
             v == UnlessThrown(w, WithIndex(WithIndex(w, p, IndexOf(w, o)), o, IndexOf(w, p)))
         IN  /\ Good(v) /\ v.thrown \in BOOLEAN /\ v.objects[Tmp] = Nothing
             /\ \A q \in Slots \ {p, o} : Same(world, v, q)
             /\ v.objects[p].exists /\ v.objects[o].exists
             /\ LostIn(v) = LostIn(world) \/ (v.thrown /\ LosesOne(world, v))
             /\ v.misused => Astray(world, p) \/ Astray(world, o)
             /\ v.thrown => IndexOf(v, p) = IndexOf(world, p) /\ IndexOf(v, o) = IndexOf(world, o)
             /\ ~v.thrown /\ ~v.misused => IndexOf(v, p) = IndexOf(world, o) /\ IndexOf(v, o) = IndexOf(world, p)
             /\ v.misused \/ SwapDone(world, v, p, o) \/ SwapFailed(world, v, p, o)
<1> DEFINE w == swapAny(world, p, o, first, second)
           x == WithIndex(w, p, IndexOf(w, o))
           y == WithIndex(x, o, IndexOf(w, p))
           v == UnlessThrown(w, y)
<1>1. HolderAssumption /\ p \in Places /\ o \in Places /\ Tmp \in Places \ {p, o} /\ Slots \subseteq Places
      /\ Good(world) /\ ~world.thrown /\ world.objects[Tmp] = Nothing /\ world.objects[p].exists /\ world.objects[o].exists
  BY SlotsArePlaces DEF VariantInv, Exists, Places
<1>2. Swapped(world, w, p, o) /\ w.objects[Tmp] = Nothing
  BY <1>1, SwapChanges
<1>3. v = IF w.thrown \/ w.misused THEN w ELSE y
  BY DEF UnlessThrown
<1> HIDE DEF w
<1>4. /\ Good(w) /\ w.thrown \in BOOLEAN
      /\ \A q \in Slots \ {p, o} : Same(world, w, q)
      /\ w.objects[p].exists /\ w.objects[o].exists
      /\ IndexOf(w, p) = IndexOf(world, p) /\ IndexOf(w, o) = IndexOf(world, o)
      /\ LostIn(w) = LostIn(world) \/ (w.thrown /\ LosesOne(world, w))
      /\ w.misused => Astray(world, p) \/ Astray(world, o)
      /\ w.misused \/ SwapDone(world, w, p, o) \/ SwapFailed(world, w, p, o)
  BY <1>2 DEF Swapped
<1> HIDE DEF v
<1>5. CASE w.thrown \/ w.misused
  <2>1. v = w
    BY <1>3, <1>5
  <2> QED
    BY <1>2, <1>4, <1>5, <2>1 DEF v, w
<1>6. CASE ~w.thrown /\ ~w.misused
  <2>1. IndexOf(w, p) \in Index /\ IndexOf(w, o) \in Index
    BY <1>1, <1>4, WorldFields DEF Good, Objects, IndexOf
  <2>2. /\ Good(x) /\ x.thrown = w.thrown /\ x.misused = w.misused /\ OthersKept(w, x, p) /\ LostIn(x) = LostIn(w)
        /\ x.objects[p].exists /\ IndexOf(x, p) = IndexOf(w, o) /\ Carries(w, p, x, p)
    BY <1>1, <1>4, <2>1, IndexChanges
  <2> HIDE DEF x
  <2>3. x.objects[o].exists /\ Carries(w, o, x, o)
    BY <1>1, <1>4, <2>2, SameCarries DEF OthersKept, SameAny
  <2>4. /\ Good(y) /\ y.thrown = x.thrown /\ y.misused = x.misused /\ OthersKept(x, y, o) /\ LostIn(y) = LostIn(x)
        /\ y.objects[o].exists /\ IndexOf(y, o) = IndexOf(w, p) /\ Carries(x, o, y, o)
    BY <1>1, <2>1, <2>2, <2>3, IndexChanges
  <2> HIDE DEF y
  <2>5. y.objects[p].exists /\ Carries(x, p, y, p) /\ IndexOf(y, p) = IndexOf(w, o)
    <3>1. CASE p = o
      BY <2>4, <3>1
    <3>2. CASE p # o
      BY <1>1, <2>2, <2>4, <3>2, SameCarries DEF OthersKept, SameAny
    <3> QED
      BY <3>1, <3>2
  <2>6. Carries(w, p, y, p) /\ Carries(w, o, y, o)
    BY <2>2, <2>3, <2>4, <2>5 DEF Carries
  <2>7. SwapDone(world, w, p, o)
    BY <1>4, <1>6 DEF SwapFailed
  <2>8. SwapDone(world, y, p, o)
    BY <1>6, <2>2, <2>4, <2>6, <2>7 DEF SwapDone, SwapKeepsHome, Holds, Carries
  <2>9. Same(w, y, Tmp) /\ \A q \in Slots \ {p, o} : Same(w, y, q)
    BY <1>1, <2>2, <2>4, SameAgain DEF OthersKept
  <2>10. y.objects[Tmp] = Nothing /\ \A q \in Slots \ {p, o} : Same(world, y, q)
    BY <1>2, <1>4, <2>9, SameAgain DEF Same
  <2>11. v = y /\ y.thrown = FALSE /\ ~y.misused
    BY <1>3, <1>4, <1>6, <2>2, <2>4
  <2> QED
    BY <1>4, <1>6, <2>2, <2>4, <2>5, <2>8, <2>10, <2>11 DEF v, w, x, y
<1> QED
  BY <1>5, <1>6

LEMMA SwapSteps ==
  ASSUME VariantAssumption, VariantInv, ~world.misused, NEW p \in Slots, NEW o \in Slots
  PROVE  SwapVariants(p, o) => Stepped
<1> SUFFICES ASSUME SwapVariants(p, o) PROVE Stepped
  OBVIOUS
<1>1. PICK first \in Failures, second \in Failures :
         LET w == swapAny(world, p, o, first, second)
         IN  Called("swap", p, o, NoContent,
                    UnlessThrown(w, WithIndex(WithIndex(w, p, IndexOf(w, o)), o, IndexOf(w, p))))
  BY DEF SwapVariants
<1> DEFINE w == swapAny(world, p, o, first, second)
           v == UnlessThrown(w, WithIndex(WithIndex(w, p, IndexOf(w, o)), o, IndexOf(w, p)))
<1>2. HolderAssumption /\ Exists(p) /\ Exists(o) /\ world.objects[p].exists /\ world.objects[o].exists
      /\ p \in Places /\ o \in Places /\ Called("swap", p, o, NoContent, v)
  BY <1>1, SlotsArePlaces DEF SwapVariants, Exists
<1>3. /\ Good(v) /\ v.thrown \in BOOLEAN /\ v.objects[Tmp] = Nothing
      /\ \A q \in Slots \ {p, o} : Same(world, v, q)
      /\ v.objects[p].exists /\ v.objects[o].exists
      /\ LostIn(v) = LostIn(world) \/ (v.thrown /\ LosesOne(world, v))
      /\ v.misused => Astray(world, p) \/ Astray(world, o)
      /\ v.thrown => IndexOf(v, p) = IndexOf(world, p) /\ IndexOf(v, o) = IndexOf(world, o)
      /\ ~v.thrown /\ ~v.misused => IndexOf(v, p) = IndexOf(world, o) /\ IndexOf(v, o) = IndexOf(world, p)
      /\ v.misused \/ SwapDone(world, v, p, o) \/ SwapFailed(world, v, p, o)
  BY <1>2, SwapVariantChanges
<1> HIDE DEF v
<1>4. SwapDone(world, v, p, o) => \A q \in {p, o} :
        (Astray(v, q) => GoneAstray("swap", p, o, v)) /\ (~traits.swap => ~Foreign(v, q))
  <2> SUFFICES ASSUME SwapDone(world, v, p, o)
               PROVE  \A q \in {p, o} :
                        (Astray(v, q) => GoneAstray("swap", p, o, v)) /\ (~traits.swap => ~Foreign(v, q))
    OBVIOUS
  <2>1. (IsWild(v, p) <=> IsWild(world, o)) /\ (IsWild(v, o) <=> IsWild(world, p)) /\ ~v.thrown
    BY DEF SwapDone, Holds
  <2>2. ~traits.swap \/ SameAllocator(world, p, o) =>
           (Foreign(v, p) => Foreign(world, o)) /\ (Foreign(v, o) => Foreign(world, p))
    BY DEF SwapDone, SwapKeepsHome
  <2>3. \A q \in {p, o} : Astray(v, q) => GoneAstray("swap", p, o, v)
    BY <1>2, <2>1, <2>2 DEF Astray, GoneAstray
  <2>4. ~traits.swap => \A q \in {p, o} : ~Foreign(v, q)
    BY <2>2 DEF VariantInv
  <2> QED
    BY <2>3, <2>4
<1>5. SwapFailed(world, v, p, o) => \A q \in {p, o} :
        (Astray(v, q) => GoneAstray("swap", p, o, v)) /\ (~traits.swap => ~Foreign(v, q))
  <2> SUFFICES ASSUME SwapFailed(world, v, p, o)
               PROVE  \A q \in {p, o} :
                        (Astray(v, q) => GoneAstray("swap", p, o, v)) /\ (~traits.swap => ~Foreign(v, q))
    OBVIOUS
  <2>1. \/ Vacant(v, p) /\ Carries(world, o, v, o)
        \/ Vacant(v, o) /\ Carries(world, o, v, p)
    BY DEF SwapFailed
  <2>2. \A q \in {p, o} : (Foreign(v, q) => Foreign(world, o)) /\ (Astray(v, q) => Astray(world, o))
    BY <1>2, <2>1, VacantHolder DEF Carries, Astray
  <2> QED
    BY <2>2 DEF GoneAstray, VariantInv
<1>6. Result("swap", p, o, v)
  <2>1. "swap" \in {"copy", "move", "swap"}
    OBVIOUS
  <2> QED
    BY <1>3, <1>4, <1>5, <2>1 DEF Result
<1>7. /\ VariantInv' /\ OrderKept
      /\ v.misused => world'.misused
      /\ call' = Promised!Call("swap", p, o, NoContent, v.thrown)
      /\ ~v.misused => Becomes(p, o, v)
  <2>1. Called("swap", p, o, NoContent, v)
    BY <1>2
  <2> QED
    BY <1>6, <2>1, CalledGood
<1>8. CASE v.misused
  BY <1>7, <1>8 DEF Stepped
<1>9. CASE ~v.misused
  <2>1. /\ VariantContents[p] = ContentIn(world, p) /\ VariantContents[o] = ContentIn(world, o)
        /\ VariantContents' = [VariantContents EXCEPT ![p] = ContentIn(v, p), ![o] = ContentIn(v, o)]
        /\ ContentIn(v, o) = ContentIn(world, o) =>
              VariantContents' = [VariantContents EXCEPT ![p] = ContentIn(v, p)]
    BY <1>7, <1>9, ContentsNow
  <2>2. VariantContents[p] # Promised!NotThere /\ VariantContents[o] # Promised!NotThere /\ NoContent = Promised!Empty
    BY <1>2, <2>1, ContentKinds
  <2>3. CASE SwapDone(world, v, p, o)
    <3>1. Holds(world, o, v, p) /\ Holds(world, p, v, o) /\ v.thrown = FALSE
      BY <1>3, <2>3 DEF SwapDone
    <3>2. ContentIn(v, p) = VariantContents[o] /\ ContentIn(v, o) = VariantContents[p]
      BY <1>2, <1>3, <1>9, <2>1, <3>1, ContentsCarried
    <3>3. Promised!Swap(p, o)
      BY <1>7, <2>1, <2>2, <3>1, <3>2 DEF Promised!Swap, VariantContents
    <3> QED
      BY <1>7, <3>3 DEF Promised!Next, Promised!AnyNext, Stepped
  <2>4. CASE SwapFailed(world, v, p, o)
    <3>1. v.thrown = TRUE /\ p # o /\ ~IsWild(world, o)
          /\ \/ Vacant(v, p) /\ Carries(world, o, v, o)
             \/ Vacant(v, o) /\ Carries(world, o, v, p)
      BY <1>3, <2>4 DEF SwapFailed
    <3>2. IndexOf(v, p) = IndexOf(world, p) /\ IndexOf(v, o) = IndexOf(world, o) /\ IndexOf(v, p) \in Index
      BY <1>2, <1>3, <3>1, WorldFields DEF Good, Objects, IndexOf
    <3>3. ASSUME VariantContents' = [VariantContents EXCEPT ![p] = Promised!Empty]
          PROVE  Stepped
      <4>1. Promised!SwapThrows(p, o)
        BY <1>7, <2>2, <3>1, <3>3 DEF Promised!SwapThrows, Promised!With, VariantContents
      <4> QED
        BY <1>7, <4>1 DEF Promised!AnyNext, Stepped
    <3>4. CASE Vacant(v, p) /\ Carries(world, o, v, o)
      <4>1. ContentIn(v, o) = ContentIn(world, o)
        BY <1>2, <1>3, <3>2, <3>4, CarriesHolds, ContentsCarried
      <4>2. ContentIn(v, p) = Promised!Empty
        BY <1>3, <3>4, VacantHolder, ContentKinds
      <4> QED
        BY <2>1, <3>3, <4>1, <4>2
    <3>5. CASE Vacant(v, o) /\ Carries(world, o, v, p)
      <4>1. ContentIn(v, o) = Promised!Empty
        BY <1>3, <3>5, VacantHolder, ContentKinds
      <4>2. HolderOf(v, p) = HolderOf(world, o) /\ ~IsWild(v, p)
        BY <3>1, <3>5 DEF Carries
      <4>3. CASE HolderOf(world, o).value = NoValue
        <5>1. ContentIn(v, p) = Promised!Empty /\ ContentIn(world, o) = Promised!Empty
          BY <1>2, <1>3, <3>1, <4>2, <4>3, ContentKinds
        <5> QED
          BY <2>1, <3>3, <4>1, <5>1
      <4>4. CASE HolderOf(world, o).value # NoValue
        <5> DEFINE i == IndexOf(v, p)
        <5>1. HasValue(v, p) /\ HasValue(world, o)
          BY <1>2, <1>3, <3>1, <4>2, <4>4 DEF HasValue
        <5>2. /\ ContentIn(v, p) = Promised!Content(i, HolderOf(world, o))
              /\ ContentIn(world, o) = Promised!Content(IndexOf(world, o), HolderOf(world, o))
          BY <4>2, <5>1, ContentKinds
        <5>3. VariantContents[o].holds = "value" /\ VariantContents[o].value = HolderOf(world, o)
          BY <2>1, <5>2 DEF Promised!Content
        <5>4. VariantContents[p].holds = "value" => i = VariantContents[p].index
          <6>1. VariantContents[p].holds = "value" =>
                   VariantContents[p] = Promised!Content(IndexOf(world, p), HolderOf(world, p))
            BY <2>1, ContentKinds
          <6> QED
            BY <3>2, <6>1 DEF Promised!Content
        <5>5. i \in Index
          BY <3>2
        <5> HIDE DEF i
        <5>6. VariantContents' =
                 [VariantContents EXCEPT ![p] = Promised!Content(i, VariantContents[o].value), ![o] = Promised!Empty]
          BY <2>1, <4>1, <5>2, <5>3
        <5>7. Promised!SwapThrows(p, o)
          BY <1>7, <2>2, <3>1, <5>3, <5>4, <5>5, <5>6 DEF Promised!SwapThrows, VariantContents
        <5> QED
          BY <1>7, <5>7 DEF Promised!AnyNext, Stepped
      <4> QED
        BY <4>3, <4>4
    <3> QED
      BY <3>1, <3>4, <3>5
  <2> QED
    BY <1>3, <1>9, <2>3, <2>4
<1> QED
  BY <1>8, <1>9

-------------------------------------------------------------------------------
(* The theorems.                                                           *)

LEMMA VariantStarts ==
  ASSUME VariantAssumption
  PROVE  InitVariants => VariantInv /\ Promised!Init
<1> SUFFICES ASSUME InitVariants PROVE VariantInv /\ Promised!Init
  OBVIOUS
<1>1. world = EmptyWorld /\ call.operation = "none"
  BY DEF InitVariants, InitWorld
<1>2. /\ world \in Worlds /\ world.thrown = FALSE
      /\ \A p \in Places : world.objects[p] = Nothing
  BY <1>1 DEF EmptyWorld, Worlds, Places
<1>3. ~Nothing.exists /\ Tmp \in Places /\ Slots \subseteq Places
  BY DEF Nothing, Places
<1>4. \A p \in Places : BlockOf(world, p) = Null /\ ~world.objects[p].exists
  BY <1>2, <1>3 DEF BlockOf
<1>5. Good(world)
  BY <1>2, <1>4 DEF Good
<1>6. \A p \in Slots : ContentOf(p) = Promised!NotThere /\ ~Foreign(world, p)
  BY <1>3, <1>4 DEF ContentOf, Exists, Promised!NotThere, Foreign
<1>7. Promised!Init
  BY <1>1, <1>6 DEF Promised!Init
<1> QED
  BY <1>2, <1>3, <1>5, <1>6, <1>7 DEF VariantInv

LEMMA VariantSteps ==
  ASSUME VariantAssumption
  PROVE  VariantInv /\ [NextVariants]_heldVars =>
            VariantInv' /\ [OrderKept]_heldVars /\ [Promised!AnyNext \/ world'.misused]_(Promised!holderVars)
<1> SUFFICES ASSUME VariantInv, [NextVariants]_heldVars
             PROVE  VariantInv' /\ [OrderKept]_heldVars /\ [Promised!AnyNext \/ world'.misused]_(Promised!holderVars)
  OBVIOUS
<1>1. CASE NextVariants
  <2>1. ~world.misused
    BY <1>1 DEF NextVariants
  <2>2. Stepped
    BY <1>1, <2>1, PutSteps, DestroySteps, CopyConstructs, CopyAssigns, MoveConstructs, MoveAssigns, SwapSteps
    DEF NextVariants
  <2> QED
    BY <2>2 DEF Stepped
<1>2. CASE UNCHANGED heldVars
  <2>1. world' = world /\ traits' = traits /\ call' = call
    BY <1>2 DEF heldVars
  <2>2. VariantInv'
    BY <2>1 DEF VariantInv
  <2>3. \A p \in Slots : ContentOf(p)' = ContentOf(p)
    BY <2>1 DEF ContentOf, Exists
  <2>4. UNCHANGED Promised!holderVars
    BY <2>1, <2>3 DEF Promised!holderVars
  <2> QED
    BY <1>2, <2>2, <2>4
<1> QED
  BY <1>1, <1>2

LEMMA VariantInvariant ==
  ASSUME VariantAssumption
  PROVE  VariantSpec => []VariantInv
<1>1. InitVariants => VariantInv
  BY VariantStarts
<1>2. VariantInv /\ [NextVariants]_heldVars => VariantInv'
  BY VariantSteps
<1> QED
  BY <1>1, <1>2, PTL DEF VariantSpec

\* Two variants never have the same block, the block of each is in use, and unless containers swap their
\* allocators it is from the variant's allocator: any number of variants, of alternatives and of
\* allocators, equal or not, and whatever throws in a copy, a move or a swap, up to what is undefined.
THEOREM VariantsHaveOneOwner ==
  ASSUME VariantAssumption
  PROVE  VariantSpec => []OneOwner
<1>1. VariantInv => OneOwner
  <2> SUFFICES ASSUME VariantInv PROVE OneOwner
    OBVIOUS
  <2>1. Good(world) /\ HolderAssumption /\ Slots \subseteq Places
    BY DEF VariantInv, VariantAssumption, Places
  <2>2. ASSUME NEW p \in Slots, NEW b \in OwnedByAny(world)[p]
        PROVE  world.heap[b].live /\ \A o \in Slots \ {p} : b \notin OwnedByAny(world)[o]
    <3>1. \A o \in Slots : OwnedByAny(world)[o] = IF BlockOf(world, o) = Null THEN {} ELSE {BlockOf(world, o)}
      BY <2>1, OwnedBlocks
    <3>2. b = BlockOf(world, p) /\ b # Null
      BY <3>1
    <3> QED
      BY <2>1, <3>1, <3>2 DEF Good
  <2>3. world.objects[Tmp] = Nothing /\ (~traits.swap => \A p \in Slots : ~Foreign(world, p))
    BY DEF VariantInv
  <2> QED
    BY <2>2, <2>3 DEF OneOwner
<1>2. VariantSpec => []VariantInv
  BY VariantInvariant
<1> QED
  BY <1>1, <1>2, PTL

\* A block is lost by no call but a copy, a move or a swap that throws, and then only one. A variant
\* whose destructor is undefined is there only behind a copy that throws or a swap that exchanges
\* allocators that are not equal, and nothing is undefined but of calls that name such a variant.
THEOREM VariantsKeepOrder ==
  ASSUME VariantAssumption
  PROVE  VariantSpec => KeepsOrder
<1>1. VariantInv /\ [NextVariants]_heldVars => [OrderKept]_heldVars
  BY VariantSteps
<1>2. VariantSpec => []VariantInv
  BY VariantInvariant
<1> QED
  BY <1>1, <1>2, PTL DEF VariantSpec, KeepsOrder

\* Every call on a variant does to the contents what ValueHolder says of it: the alternative that was
\* emplaced, copied, moved or swapped is there at its index and of its type, the others are as they
\* were, and what is behind a throw is what CopyThrows, SwapThrows and Throw say.
THEOREM VariantsImplementHolder ==
  ASSUME VariantAssumption
  PROVE  VariantSpec => ImplementsHolder
<1>1. InitVariants => Promised!Init
  BY VariantStarts
<1>2. VariantInv /\ [NextVariants]_heldVars => [Promised!AnyNext \/ world'.misused]_(Promised!holderVars)
  BY VariantSteps
<1>3. VariantSpec => []VariantInv
  BY VariantInvariant
<1> QED
  BY <1>1, <1>2, <1>3, PTL DEF VariantSpec, ImplementsHolder
===============================================================================
