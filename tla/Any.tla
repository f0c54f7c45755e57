---------------------------------- MODULE Any ----------------------------------
(***************************************************************************)
(* Any.h: a container for one value of any type. The holder of the value is   *)
(* in the container itself when the type is small and is moved without an      *)
(* exception, and in a block otherwise. A holder may be without a value: the  *)
(* constructor of the value has thrown.                                     *)
(*                                                                         *)
(* Any constructor of a value may throw, a copy's and a move's, too, but for   *)
(* the move of a value that is held in place; and so may any allocation. The   *)
(* value that was to be copied or moved is as it was then.                    *)
(***************************************************************************)
EXTENDS AllocatorHolder

CONSTANT
    SmallTypes      \* the types T with has_non_heap_holder<T>

NoValue == Null

Holder(type, value) == [type |-> type, value |-> value]

NoHolder == Holder("none", NoValue)

\* m_isInPlace and the two sides of m_untypedHolder. The index is the variant's whose m_data it is.
EmptyAny(allocator) ==
    [exists |-> TRUE, allocator |-> allocator, isInPlace |-> FALSE, heap |-> Null, inPlace |-> NoHolder,
     index |-> 0]

\* What the address of a holder on the heap is when a value was to be copied in place and its
\* constructor has thrown: the two sides of m_untypedHolder share their memory.
Wild == -1

hasHolder(w, p) == w.objects[p].isInPlace \/ w.objects[p].heap # Null

HasHeap(w, p) == ~w.objects[p].isInPlace /\ w.objects[p].heap # Null

IsWild(w, p) == ~w.objects[p].isInPlace /\ w.objects[p].heap = Wild

OnHeap(w, p) == HasHeap(w, p) /\ ~IsWild(w, p)

getUntypedHolder(w, p) ==
    CASE w.objects[p].isInPlace -> w.objects[p].inPlace
      [] OnHeap(w, p) -> w.heap[w.objects[p].heap].content
      [] OTHER -> NoHolder

\* Behind an exception nothing is done, and of what is undefined nothing more can be told.
UnlessThrown(w, done) == IF w.thrown \/ w.misused THEN w ELSE done

\* A call of a virtual function of a holder that is not there.
Undefined(w) == [w EXCEPT !.misused = TRUE]

WithHeap(w, p, b) == [w EXCEPT !.objects[p].heap = b]

WithInPlace(w, p, holder) == [w EXCEPT !.objects[p].isInPlace = TRUE, !.objects[p].inPlace = holder]

Emptied(w, p) ==
    [w EXCEPT !.objects[p].isInPlace = FALSE, !.objects[p].heap = Null, !.objects[p].inPlace = NoHolder]

clearHolder(w, p) ==
    CASE w.objects[p].isInPlace -> Emptied(w, p)
      [] OnHeap(w, p) -> Emptied(deallocate(w, w.objects[p].heap, AllocatorOf(w, p)), p)
      [] IsWild(w, p) -> Undefined(Emptied(w, p))
      [] OTHER -> w

NoMemory(w) == \A b \in Blocks : w.heap[b].live

\* Whether the constructor of the value in a holder throws when it is copied or moved.
ValueThrows(holder, fails) == fails = "construction" /\ holder.value # NoValue

\* HeapHolder::create and what is put into it. The block of a value that throws is not returned,
\* and nobody has its address.
createHeapHolder(w, p, holder, fails) ==
    CASE fails = "allocation" \/ NoMemory(w) -> Thrown(w)
      [] fails # "allocation" /\ ~NoMemory(w) /\ ValueThrows(holder, fails) ->
            Thrown(allocate(w, AllocatorOf(w, p), Holder(holder.type, NoValue)))
      [] OTHER -> WithHeap(allocate(w, AllocatorOf(w, p), holder), p, NextBlock(w))

\* NonHeapHolder::clone
cloneInPlace(w, p, holder, fails) ==
    IF ValueThrows(holder, fails) THEN Thrown(WithHeap(w, p, Wild)) ELSE WithInPlace(w, p, holder)

\* clone(): the holder of another container, in this one.
copy(w, p, o, fails) ==
    CASE w.objects[o].isInPlace -> cloneInPlace(w, p, getUntypedHolder(w, o), fails)
      [] OnHeap(w, o) -> createHeapHolder(w, p, getUntypedHolder(w, o), fails)
      [] IsWild(w, o) -> Undefined(w)
      [] OTHER -> WithHeap(w, p, Null)

\* Mutant of move: the block is taken over from another allocator, too.
moveAlways(w, p, o, fails) ==
    CASE w.objects[o].isInPlace -> clearHolder(WithInPlace(w, p, getUntypedHolder(w, o)), o)
      [] OTHER -> WithHeap(WithHeap(w, p, w.objects[o].heap), o, Null)

\* The other one is empty behind it, unless there was an exception.
move(w, p, o, fails) ==
    LET unless(moved) == IF moved.thrown THEN moved ELSE clearHolder(moved, o)
    IN  CASE w.objects[o].isInPlace -> clearHolder(WithInPlace(w, p, getUntypedHolder(w, o)), o)
          [] HasHeap(w, o) /\ SameAllocator(w, p, o) -> WithHeap(WithHeap(w, p, w.objects[o].heap), o, Null)
          [] OnHeap(w, o) /\ ~SameAllocator(w, p, o) -> unless(createHeapHolder(w, p, getUntypedHolder(w, o), fails))
          [] IsWild(w, o) /\ ~SameAllocator(w, p, o) -> Undefined(w)
          [] OTHER -> WithHeap(w, p, Null)

\* createHolder<T>(): a holder of the type is used again.
createHolder(w, p, type, fails) ==
    LET create(cleared) ==
            IF type \in SmallTypes
            THEN WithInPlace(cleared, p, Holder(type, NoValue))
            ELSE createHeapHolder(cleared, p, Holder(type, NoValue), fails)
        isType == hasHolder(w, p) /\ getUntypedHolder(w, p).type = type
    IN  IF isType /\ ~IsWild(w, p) THEN w ELSE create(clearHolder(w, p))

WithValue(w, p, value) ==
    IF w.objects[p].isInPlace
    THEN [w EXCEPT !.objects[p].inPlace.value = value]
    ELSE [w EXCEPT !.heap[w.objects[p].heap].content.value = value]

\* emplace<T>(): the value before is destroyed first.
emplaceAny(w, p, type, value, fails) ==
    LET construct(created) ==
            CASE created.thrown -> created
              [] ~created.thrown /\ fails = "construction" -> Thrown(WithValue(created, p, NoValue))
              [] OTHER -> WithValue(created, p, value)
    IN  construct(createHolder(w, p, type, fails))

\* Mutant of copyAssignAny: also from itself.
copyAssignAlways(w, p, o, fails) == copy(Propagated(clearHolder(w, p), p, o), p, o, fails)

\* The assignments: cleared, then with the allocator of the other one if that propagates.
copyAssignAny(w, p, o, fails) ==
    IF p = o THEN w ELSE copy(Propagated(clearHolder(w, p), p, o), p, o, fails)

moveAssignAny(w, p, o, fails) ==
    IF p = o THEN w ELSE move(Propagated(clearHolder(w, p), p, o), p, o, fails)

DestroyAny(w, p) == WithObject(clearHolder(w, p), p, Nothing)

\* swap(): by way of a container of its own, and the allocators last. Each of the two moves
\* may throw, behind which the allocators are not swapped.
swapAny(w, p, o, first, second) ==
    LET begun == move(WithObject(w, Tmp, EmptyAny(AllocatorOf(w, p))), Tmp, p, "nothing")
        taken == move(begun, p, o, first)
        exchanged == UnlessThrown(taken, move(taken, o, Tmp, second))
        done == UnlessThrown(exchanged, SwappedAllocators(exchanged, p, o))
    IN  IF HasHeap(w, p) /\ HasHeap(w, o) /\ SameAllocator(w, p, o)
        THEN WithHeap(WithHeap(w, p, w.objects[o].heap), o, w.objects[p].heap)
        ELSE DestroyAny(done, Tmp)

OwnedByAny(w) == [p \in Slots |-> IF w.objects[p].exists /\ OnHeap(w, p) THEN {w.objects[p].heap} ELSE {}]
=============================================================================
