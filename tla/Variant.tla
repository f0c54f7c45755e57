-------------------------------- MODULE Variant --------------------------------
(***************************************************************************)
(* Variant.h: one of several alternatives, kept in an Any, and the index of   *)
(* the one it is. Two alternatives may be of the same type. The operations on *)
(* the variants of a program in any order; any of them may throw. Behind what  *)
(* is undefined in C++ (misused) a program does nothing that can be told.     *)
(***************************************************************************)
EXTENDS Any

CONSTANT
    AlternativeTypes    \* a function from the indexes to the types

Index == DOMAIN AlternativeTypes

FirstIndex == 0

\* A variant has at least one alternative.
VariantAssumption == HolderAssumption /\ FirstIndex \in Index

NoContent == [holds |-> "empty"]

Alternative(i, v) == [holds |-> "value", index |-> i, value |-> Holder(AlternativeTypes[i], v)]

EmptyVariant(allocator) == [EmptyAny(allocator) EXCEPT !.index = FirstIndex]

WithIndex(w, p, i) == [w EXCEPT !.objects[p].index = i]

IndexOf(w, p) == w.objects[p].index

\* A constructor that throws leaves no variant. If it is m_data's there was none to destroy.
Constructed(w, p) == IF w.thrown THEN DestroyAny(w, p) ELSE w

CopyConstructed(w, p) == IF w.thrown THEN WithObject(w, p, Nothing) ELSE w

WithVariant(p, allocator) == WithObject(world, p, EmptyVariant(allocator))

emplaceVariant(w, p, i, v, fails) ==
    LET emplaced == emplaceAny(w, p, AlternativeTypes[i], v, fails)
    IN  UnlessThrown(emplaced, WithIndex(emplaced, p, i))

CopiedIndex(w, p, o) == UnlessThrown(w, WithIndex(w, p, IndexOf(w, o)))

Failures == {"nothing", "allocation", "construction"}

Construct(p) ==
    /\ ~Exists(p)
    /\ \E allocator \in Allocators, i \in Index, v \in Values :
          \E w \in {emplaceVariant(WithVariant(p, allocator), p, i, v, fails) : fails \in Failures} :
              Called("put", p, p, Alternative(i, v), Constructed(w, p))

Emplace(p) ==
    /\ Exists(p)
    /\ \E i \in Index, v \in Values :
          \E w \in {emplaceVariant(world, p, i, v, fails) : fails \in Failures} :
              Called("put", p, p, Alternative(i, v), w)

CopyConstruct(p, o) ==
    /\ ~Exists(p) /\ Exists(o)
    /\ \E allocator \in Allocators :
          \E w \in {copy(WithVariant(p, allocator), p, o, fails) : fails \in Failures} :
              Called("copy", p, o, NoContent, CopyConstructed(CopiedIndex(w, p, o), p))

MoveConstruct(p, o) ==
    /\ ~Exists(p) /\ Exists(o)
    /\ \E allocator \in Allocators :
          \E w \in {move(WithVariant(p, allocator), p, o, fails) : fails \in Failures} :
              Called("move", p, o, NoContent, CopyConstructed(CopiedIndex(w, p, o), p))

CopyAssign(p, o) ==
    /\ Exists(p) /\ Exists(o)
    /\ \E w \in {copyAssignAny(world, p, o, fails) : fails \in Failures} :
          Called("copy", p, o, NoContent, CopiedIndex(w, p, o))

MoveAssign(p, o) ==
    /\ Exists(p) /\ Exists(o)
    /\ \E w \in {moveAssignAny(world, p, o, fails) : fails \in Failures} :
          Called("move", p, o, NoContent, CopiedIndex(w, p, o))

\* The indexes are exchanged last, too.
SwapVariants(p, o) ==
    /\ Exists(p) /\ Exists(o)
    /\ \E w \in {swapAny(world, p, o, first, second) : first, second \in Failures} :
          Called("swap", p, o, NoContent,
                 UnlessThrown(w, WithIndex(WithIndex(w, p, IndexOf(w, o)), o, IndexOf(w, p))))

Destroy(p) == Exists(p) /\ Called("destroy", p, p, NoContent, DestroyAny(world, p))

InitVariants == InitWorld(NoContent)

NextVariants ==
    /\ ~world.misused
    /\ \E p \in Slots :
          \/ Construct(p) \/ Emplace(p) \/ Destroy(p)
          \/ \E o \in Slots :
                \/ CopyConstruct(p, o) \/ MoveConstruct(p, o)
                \/ CopyAssign(p, o) \/ MoveAssign(p, o) \/ SwapVariants(p, o)

VariantSpec == InitVariants /\ [][NextVariants]_heldVars
-----------------------------------------------------------------------------
(* Correctness.                                                            *)

\* What is held, with its type, and the index. get<I>() refuses it when the type is not the
\* alternative's.
ContentOf(p) ==
    LET holder == getUntypedHolder(world, p)
    IN  CASE ~Exists(p) -> [holds |-> "nothing"]
          [] Exists(p) /\ IsWild(world, p) -> [holds |-> "undefined"]
          [] Exists(p) /\ ~IsWild(world, p) /\ holder.value = NoValue -> NoContent
          [] OTHER -> [holds |-> "value", index |-> IndexOf(world, p), value |-> holder]

\* The blocks that nobody has the address of, and the variants whose destructor is undefined: the
\* block is another allocator's, or there is none.
Lost(w) == {b \in Blocks : w.heap[b].live /\ \A p \in Slots : b \notin OwnedByAny(w)[p]}

Foreign(w, p) == w.objects[p].exists /\ OnHeap(w, p) /\ w.heap[w.objects[p].heap].allocator # AllocatorOf(w, p)

Stray(w) == {p \in Slots : Foreign(w, p) \/ (w.objects[p].exists /\ IsWild(w, p))}

\* Two variants never have the same block, and the block of each is in use, whatever is copied, moved
\* and swapped between variants of unequal allocators and throws there. Unless containers swap their
\* allocators it is also the allocator the block is from.
OneOwner ==
    ~world.misused =>
        /\ world.objects[Tmp] = Nothing
        /\ \A p \in Slots : \A b \in OwnedByAny(world)[p] :
              /\ world.heap[b].live
              /\ \A o \in Slots \ {p} : b \notin OwnedByAny(world)[o]
        /\ ~traits.swap => \A p \in Slots : ~Foreign(world, p)

\* A block is lost only by a copy, move or swap that throws, and only one. A variant becomes a
\* stray only by a copy that throws, by a swap that exchanges allocators that are not equal, or
\* from another stray. And nothing is undefined but of calls that name a stray.
OrderKept ==
    LET named == {call'.to, call'.from}
        copyThrew == call'.operation = "copy" /\ call'.thrown
        allocatorsMixed ==
            call'.operation = "swap" /\ ~call'.thrown /\ traits.swap /\ ~SameAllocator(world, call'.to, call'.from)
    IN  /\ world'.misused => named \intersect Stray(world) # {}
        /\ ~world'.misused =>
              /\ \/ Lost(world') = Lost(world)
                 \/ /\ call'.thrown /\ call'.operation \in {"copy", "move", "swap"}
                    /\ \E b \in Blocks : Lost(world') = Lost(world) \union {b}
              /\ \A p \in Stray(world') \ Stray(world) :
                    p \in named /\ (copyThrew \/ allocatorsMixed \/ named \intersect Stray(world) # {})

KeepsOrder == [][OrderKept]_heldVars

Promised == INSTANCE ValueHolder WITH
    Indexes <- Index,
    Values <- {Holder(AlternativeTypes[i], v) : i \in Index, v \in Values},
    Moved <- NoHolder,
    contents <- [p \in Slots |-> ContentOf(p)]

\* Every call does to the contents, at the index and of the type they were emplaced with, what it
\* says, and nothing to the variants it does not name; one that throws leaves no value behind. A swap
\* that throws may leave the value of the one at the index of the other, and a copy that
\* throws something undefined.
ImplementsHolder == Promised!Init /\ [][Promised!AnyNext \/ world'.misused]_(Promised!holderVars)

\* The same of one step.
HolderStep == [Promised!AnyNext \/ world'.misused]_(Promised!holderVars)
=============================================================================
