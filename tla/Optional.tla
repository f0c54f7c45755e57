------------------------------- MODULE Optional --------------------------------
(***************************************************************************)
(* Optional.h: a value or none. A recursive type and one that is too big is   *)
(* kept in a block, and the optional holds its address, which is null after   *)
(* the value was moved on to another optional or destroyed. The operations on *)
(* the optionals of a program in any order; any of them may throw.           *)
(***************************************************************************)
EXTENDS AllocatorHolder

CONSTANT
    SwapsUnequal    \* whether optionals of unequal allocators are swapped that do not swap these, too

VARIABLE
    onHeap  \* whether the type is kept on the heap: is_optional_heap_allocated_v<T>

optionalVars == <<heldVars, onHeap>>

Moved == 0

NoContent == [holds |-> "empty"]

Value(v) == [holds |-> "value", index |-> Null, value |-> v]

\* m_data: whether it has a value, which is the address of the block or the value itself.
EmptyOptional(allocator) == [exists |-> TRUE, allocator |-> allocator, engaged |-> FALSE, data |-> Null]

Data(w, p) == w.objects[p].data

WithData(w, p, data) == [w EXCEPT !.objects[p].engaged = TRUE, !.objects[p].data = data]

has_value(w, p) == w.objects[p].engaged /\ (onHeap => Data(w, p) # Null)

valueOf(w, p) == IF onHeap THEN w.heap[Data(w, p)].content ELSE Data(w, p)

clear(w, p) ==
    IF has_value(w, p) /\ onHeap
    THEN WithData(deallocate(w, Data(w, p), AllocatorOf(w, p)), p, Null)
    ELSE w

\* std::optional::reset of m_data
Disengaged(w, p) == [w EXCEPT !.objects[p].engaged = FALSE, !.objects[p].data = Null]

reset(w, p) == Disengaged(clear(w, p), p)

\* m_data.emplace with what allocateValue returns, which frees the block if the value throws.
emplaceOnHeap(w, p, v, fails) ==
    IF fails = "nothing"
    THEN WithData(allocate(w, AllocatorOf(w, p), v), p, NextBlock(w))
    ELSE Thrown(w)

\* m_data.emplace with a value: the one before is destroyed first.
emplaceInPlace(w, p, v, fails) ==
    IF fails = "construction" THEN Thrown(Disengaged(w, p)) ELSE WithData(w, p, v)

emplaceValue(w, p, v, fails) == IF onHeap THEN emplaceOnHeap(w, p, v, fails) ELSE emplaceInPlace(w, p, v, fails)

emplace(w, p, v, fails) == emplaceValue(clear(w, p), p, v, fails)

\* "assumes this holder is cleared"
copy(w, p, o, fails) == IF has_value(w, o) THEN emplace(w, p, valueOf(w, o), fails) ELSE reset(w, p)

WithMovedOut(w, o) ==
    CASE w.thrown -> w
      [] ~w.thrown /\ onHeap -> [w EXCEPT !.heap[Data(w, o)].content = Moved]
      [] OTHER -> WithData(w, o, Moved)

\* A block of an equal allocator is taken over, and the other optional has a null address behind it.
move(w, p, o, fails) ==
    CASE ~has_value(w, o) -> reset(w, p)
      [] has_value(w, o) /\ onHeap /\ SameAllocator(w, p, o) -> WithData(WithData(w, p, Data(w, o)), o, Null)
      [] OTHER -> WithMovedOut(emplaceValue(w, p, valueOf(w, o), fails), o)

copyAssign(w, p, o, fails) == IF p = o THEN w ELSE copy(Propagated(clear(w, p), p, o), p, o, fails)

moveAssign(w, p, o, fails) == IF p = o THEN w ELSE move(Propagated(clear(w, p), p, o), p, o, fails)

ExchangedData(w, p, o) ==
    [w EXCEPT !.objects[p].engaged = w.objects[o].engaged, !.objects[p].data = Data(w, o),
              !.objects[o].engaged = w.objects[p].engaged, !.objects[o].data = Data(w, p)]

swap(w, p, o) == SwappedAllocators(ExchangedData(w, p, o), p, o)

DestroyOptional(w, p) == WithObject(clear(w, p), p, Nothing)

Constructed(w, p) == IF w.thrown THEN DestroyOptional(w, p) ELSE w

WithOptional(p, allocator) == WithObject(world, p, EmptyOptional(allocator))

Failures == {"nothing", "allocation", "construction"}

\* Moves of a value do not throw.
MoveFailures == {"nothing", "allocation"}
-----------------------------------------------------------------------------
ConstructEmpty(p) ==
    /\ ~Exists(p)
    /\ \E allocator \in Allocators : Called("reset", p, p, NoContent, WithOptional(p, allocator))

Construct(p) ==
    /\ ~Exists(p)
    /\ \E allocator \in Allocators, v \in Values, fails \in Failures :
          Called("put", p, p, Value(v), Constructed(emplaceValue(WithOptional(p, allocator), p, v, fails), p))

Emplace(p) ==
    /\ Exists(p)
    /\ \E v \in Values, fails \in Failures : Called("put", p, p, Value(v), emplace(world, p, v, fails))

Reset(p) == Exists(p) /\ Called("reset", p, p, NoContent, reset(world, p))

CopyConstruct(p, o) ==
    /\ ~Exists(p) /\ Exists(o)
    /\ \E allocator \in Allocators, fails \in Failures :
          Called("copy", p, o, NoContent, Constructed(copy(WithOptional(p, allocator), p, o, fails), p))

MoveConstruct(p, o) ==
    /\ ~Exists(p) /\ Exists(o)
    /\ \E allocator \in Allocators, fails \in MoveFailures :
          Called("move", p, o, NoContent, Constructed(move(WithOptional(p, allocator), p, o, fails), p))

CopyAssign(p, o) ==
    /\ Exists(p) /\ Exists(o)
    /\ \E fails \in Failures : Called("copy", p, o, NoContent, copyAssign(world, p, o, fails))

MoveAssign(p, o) ==
    /\ Exists(p) /\ Exists(o)
    /\ \E fails \in MoveFailures : Called("move", p, o, NoContent, moveAssign(world, p, o, fails))

SwapOptionals(p, o) ==
    /\ Exists(p) /\ Exists(o)
    /\ SwapsUnequal \/ SameAllocator(world, p, o) \/ traits.swap
    /\ Called("swap", p, o, NoContent, swap(world, p, o))

Destroy(p) == Exists(p) /\ Called("destroy", p, p, NoContent, DestroyOptional(world, p))

InitOptionals == InitWorld(NoContent) /\ onHeap \in BOOLEAN

NextOptionals ==
    /\ \E p, o \in Slots :
          \/ ConstructEmpty(p) \/ Construct(p) \/ Emplace(p) \/ Reset(p) \/ Destroy(p)
          \/ CopyConstruct(p, o) \/ MoveConstruct(p, o)
          \/ CopyAssign(p, o) \/ MoveAssign(p, o) \/ SwapOptionals(p, o)
    /\ UNCHANGED onHeap

OptionalSpec == InitOptionals /\ [][NextOptionals]_optionalVars
-----------------------------------------------------------------------------
(* Correctness.                                                            *)

ContentOf(p) ==
    CASE ~Exists(p) -> [holds |-> "nothing"]
      [] Exists(p) /\ ~has_value(world, p) -> NoContent
      [] OTHER -> Value(valueOf(world, p))

Owned == [p \in Slots |-> IF onHeap /\ Exists(p) /\ has_value(world, p) THEN {Data(world, p)} ELSE {}]

\* Every block is owned by one optional, whose allocator it is from, and returned to that one once,
\* whatever is copied, moved and swapped and throws there.
OneOwner == InOrder(world, Owned)

Promised == INSTANCE ValueHolder WITH
    Indexes <- {Null},
    contents <- [p \in Slots |-> ContentOf(p)]

\* Every call does to the values what it says, and nothing to the optionals it does not name; one
\* that throws leaves no value behind.
ImplementsHolder == Promised!Spec

\* The same of one step.
HolderStep == [Promised!Next]_(Promised!holderVars)
=============================================================================
