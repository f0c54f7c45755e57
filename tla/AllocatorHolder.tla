---------------------------- MODULE AllocatorHolder ----------------------------
(***************************************************************************)
(* AllocatorHolder.h, PropagatingPolymorphicAllocator.h and what Any and      *)
(* Optional ask of an allocator. Containers live in slots; what they keep on  *)
(* the heap is in blocks, each from the allocator of its container. Two       *)
(* allocators are equal when they are the same one.                         *)
(*                                                                         *)
(* A call is a function of a world: the containers, the heap, and whether an  *)
(* exception is on its way, behind which nothing is done any more.           *)
(***************************************************************************)
EXTENDS Integers, FiniteSets

CONSTANTS
    Slots,              \* where containers may be
    Allocators,
    AllocatorTypes,     \* the traits of the types of allocators: a subset of Traits
    Blocks,             \* the addresses, positive numbers
    Values              \* positive numbers, too

VARIABLES
    world,
    traits,     \* of the type of the allocators
    call        \* history: the last call

heldVars == <<world, traits, call>>

\* propagate_on_container_copy_assignment and ..._move_assignment, and ..._swap. A container is
\* constructed with any allocator, select_on_container_copy_construction's or one it is given.
Traits == [assignment : BOOLEAN, swap : BOOLEAN]

PropagatingPolymorphicAllocator == [assignment |-> TRUE, swap |-> TRUE]

Null == 0

\* The slot of a local variable.
Tmp == "tmp"

Nothing == [exists |-> FALSE]

Free == [live |-> FALSE]

Block(allocator, content) == [live |-> TRUE, allocator |-> allocator, content |-> content]

\* misused: a block was returned twice, or to another allocator than the one it is from.
EmptyWorld ==
    [objects |-> [p \in Slots \union {Tmp} |-> Nothing], heap |-> [b \in Blocks |-> Free],
     thrown |-> FALSE, misused |-> FALSE]

Exists(p) == world.objects[p].exists

Thrown(w) == [w EXCEPT !.thrown = TRUE]

WithObject(w, p, object) == [w EXCEPT !.objects[p] = object]

\* allocate(): the address of the next block, and the world with it.
NextBlock(w) == CHOOSE b \in Blocks : ~w.heap[b].live /\ \A c \in Blocks : c < b => w.heap[c].live

allocate(w, allocator, content) == [w EXCEPT !.heap[NextBlock(w)] = Block(allocator, content)]

deallocate(w, b, allocator) ==
    [w EXCEPT !.heap[b] = Free, !.misused = @ \/ ~w.heap[b].live \/ w.heap[b].allocator # allocator]

\* get_allocator_ref and set_allocator
AllocatorOf(w, p) == w.objects[p].allocator

SameAllocator(w, p, o) == AllocatorOf(w, p) = AllocatorOf(w, o)

set_allocator(w, p, allocator) == [w EXCEPT !.objects[p].allocator = allocator]

Propagated(w, p, o) == IF traits.assignment THEN set_allocator(w, p, AllocatorOf(w, o)) ELSE w

SwappedAllocators(w, p, o) ==
    IF traits.swap THEN set_allocator(set_allocator(w, p, AllocatorOf(w, o)), o, AllocatorOf(w, p)) ELSE w

-----------------------------------------------------------------------------
\* The end of a call. Of what was done behind a misuse nothing can be told.
Called(operation, p, o, content, w) ==
    /\ world' = IF w.misused THEN [world EXCEPT !.misused = TRUE] ELSE [w EXCEPT !.thrown = FALSE]
    /\ call' = [operation |-> operation, to |-> p, from |-> o, content |-> content, thrown |-> w.thrown]
    /\ UNCHANGED traits

InitWorld(noContent) ==
    /\ world = EmptyWorld
    /\ traits \in AllocatorTypes
    /\ call = [operation |-> "none", to |-> Tmp, from |-> Tmp, content |-> noContent, thrown |-> FALSE]

\* What the proofs take for granted: there is a block for each container, and one more. (A call
\* that gets no memory is one whose allocation throws.)
HolderAssumption ==
    /\ Tmp \notin Slots /\ IsFiniteSet(Slots)
    /\ Blocks \subseteq Nat \ {Null} /\ IsFiniteSet(Blocks) /\ Cardinality(Blocks) > Cardinality(Slots)
    /\ Values \subseteq Nat \ {Null}
    /\ AllocatorTypes \subseteq Traits

\* Whether a world is in order when a container owns the blocks it says. "Every allocation is
\* deallocated by the same allocator or its copy" (TrackingAllocator.h): no block was returned to
\* another allocator or twice, each one that is left has one owner, with the allocator it is from.
InOrder(w, owned) ==
    /\ ~w.misused
    /\ w.objects[Tmp] = Nothing
    /\ \A b \in Blocks : Cardinality({p \in Slots : b \in owned[p]}) = IF w.heap[b].live THEN 1 ELSE 0
    /\ \A p \in Slots : \A b \in owned[p] : w.heap[b].allocator = AllocatorOf(w, p)
=============================================================================
