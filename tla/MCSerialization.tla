---------------------------- MODULE MCSerialization ----------------------------
(***************************************************************************)
(* What an object is serialized with: the arrays and the generated         *)
(* structures, and what it keeps a field in: the variants and the          *)
(* optionals; one of them in every behaviour.                              *)
(*                                                                         *)
(* The structures have schemas of up to five fields which bring every kind *)
(* of field in front of and behind every other one that it can disturb.    *)
(*                                                                         *)
(* The arrays have up to three numbers, and some four, taken from the ends *)
(* and the middle of their range.  The machine word has eight bits, so     *)
(* that for the types as wide as the word the limit of the difference, six *)
(* bits, lies inside of the range; the longer arrays end the packing early *)
(* or late.  Of the narrow type every difference is admitted, and its      *)
(* elements all have the same size.                                        *)
(*                                                                         *)
(* There are two variants, with an alternative kept in place and two on    *)
(* the heap that have the same type, or two optionals, and two allocators; *)
(* a swap takes a third block.                                             *)
(***************************************************************************)
EXTENDS Structure

CONSTANTS
  Parts,  \* what is used: a subset of {"array", "structure", "variant", "optional"}
  MCSlots, MCAllocators  \* of the variants and optionals

VARIABLES
  part,  \* which of them is used
  a_element, a_type, a_packed, a_array, a_start, a_operation, a_status, a_index, a_position,
  a_context, a_bitSize, a_offsetsSize, a_offsets, a_stream, a_places, a_cut, a_rawArray,
  a_readLength, a_garbled,  \* the variables of ArrayView
  v_world, v_traits, v_call,  \* the variables of Variant
  o_world, o_traits, o_call, o_onHeap  \* the variables of Optional

arrayVars == <<a_element, a_type, a_packed, a_array, a_start, a_operation, a_status, a_index,
               a_position, a_context, a_bitSize, a_offsetsSize, a_offsets, a_stream, a_places,
               a_cut, a_rawArray, a_readLength, a_garbled>>
variantVars == <<v_world, v_traits, v_call>>
optionalVars == <<o_world, o_traits, o_call, o_onHeap>>

-------------------------------------------------------------------------------
(* Structures.                                                             *)

MCField == [extended |-> FALSE, optional |-> "no", clause |-> 0, alignment |-> 0, offset |-> 0,
            kind |-> "number", bits |-> 3, cases |-> <<>>, selector |-> 0, select |-> <<>>,
            forbidden |-> {}, values |-> {1}]
MCExtended == [MCField EXCEPT !.extended = TRUE, !.bits = 4]
MCHolder == [MCField EXCEPT !.bits = 8]

\* A value out of the range of the field, one that its constraint forbids, and the two a
\* clause tells apart.
MCTag == [MCField EXCEPT !.forbidden = {2}, !.values = {0, 1, 2, 9}]

\* Optional fields, an alignment, and an offset behind them.
MCOptionals ==
  <<MCTag,
    [MCField EXCEPT !.optional = "auto", !.bits = 5, !.values = {3}],
    [MCHolder EXCEPT !.values = {0, 200}],
    [MCField EXCEPT !.optional = "clause", !.clause = 1, !.alignment = 16, !.bits = 2, !.values = {0, 2}],
    [MCField EXCEPT !.offset = 3, !.bits = 4, !.values = {5}]>>

\* Extended fields of all three kinds.
MCExtendeds ==
  <<MCTag,
    [MCExtended EXCEPT !.values = {0, 7}],
    [MCExtended EXCEPT !.optional = "clause", !.clause = 1, !.bits = 8, !.values = {0, 128}],
    [MCExtended EXCEPT !.optional = "auto", !.bits = 2, !.values = {0, 3}]>>

\* An extended field that may take no bits behind one that always does.
MCEmptyEnd ==
  <<MCTag,
    [MCExtended EXCEPT !.optional = "auto", !.bits = 8],
    [MCExtended EXCEPT !.optional = "clause", !.clause = 1, !.bits = 6]>>

\* Offsets of extended fields, the second with an alignment of its own.
MCOffsets ==
  <<[MCHolder EXCEPT !.values = {0, 3}], [MCHolder EXCEPT !.bits = 9], MCField,
    [MCExtended EXCEPT !.offset = 1],
    [MCExtended EXCEPT !.offset = 2, !.optional = "auto", !.alignment = 32]>>

\* An offset that does not fit into the three bits of its field.
MCNarrow == <<MCField, [MCField EXCEPT !.alignment = 64, !.offset = 1]>>

\* A constraint on an offset field that its offset breaks.
MCConstraint == <<[MCHolder EXCEPT !.forbidden = {1}, !.values = {0, 2}],
                  [MCField EXCEPT !.offset = 1, !.values = {1, 6}]>>

\* Two choices by the same selector, which has a value for an empty case and one for none,
\* the second of them optional, and a number behind them.
MCChoice == [MCField EXCEPT !.kind = "choice", !.cases = <<4, 6>>, !.selector = 1,
                            !.select = <<0, 1, 2>>, !.forbidden = {6}, !.values = {5, 6}]
MCChoices == <<[MCField EXCEPT !.values = {0, 1, 2, 3}], MCChoice,
               [MCChoice EXCEPT !.optional = "auto", !.offset = 0, !.values = {5}],
               [MCField EXCEPT !.values = {3}]>>

\* A choice that may have a case without bits and one without a value, in front of a field with an
\* offset.
MCLeft == <<[MCField EXCEPT !.values = {0, 1, 2}], MCHolder,
            [MCChoice EXCEPT !.cases = <<0, 6>>, !.values = {0}],
            [MCField EXCEPT !.offset = 2]>>

\* Unions in a field that is always there and in an extended one.
MCUnion == [MCField EXCEPT !.kind = "union", !.cases = <<3, 9>>, !.values = {5}]
MCUnions == <<MCUnion, [MCHolder EXCEPT !.values = {2}],
              [MCUnion EXCEPT !.extended = TRUE, !.optional = "auto", !.offset = 2, !.forbidden = {7},
                              !.values = {5, 7}]>>

\* An offset of 256 bytes in a field of one: every field moves by 64 bits.
MCAligned == [MCField EXCEPT !.alignment = 64, !.bits = 1]
MCFar == <<MCHolder>> \o [i \in 1..31 |-> MCAligned] \o <<[MCAligned EXCEPT !.offset = 1]>>

\* An alignment of 512 bits asked for at bit 193.
MCWideSchemas == {<<MCAligned, MCAligned, MCAligned, MCAligned, [MCAligned EXCEPT !.alignment = 512]>>}

MCSchemas == {MCOptionals, MCExtendeds, MCEmptyEnd, MCOffsets, MCNarrow, MCConstraint, MCChoices, MCLeft,
              MCUnions, MCFar}

\* The proofs are of schemas like these.
ASSUME MCPlain == \A s \in MCSchemas : Plain(s)

-------------------------------------------------------------------------------
(* Arrays.                                                                 *)

Int8 == [name |-> "int8", bits |-> 8, signed |-> TRUE]
UInt8 == [name |-> "uint8", bits |-> 8, signed |-> FALSE]
Int5 == [name |-> "int5", bits |-> 5, signed |-> TRUE]
MCElementTypes == {Int8, UInt8, Int5}

\* Like a varint, the wide types have a sign or not and six bits in their first byte.
MCElementBitSize(t, v) == IF t = Int5 THEN 5 ELSE IF v \in -63..63 THEN 8 ELSE 16

MCVarSizeBits(n) == IF n < 2 THEN 8 ELSE 16

Tuples(S) == {<<>>} \cup [1..1 -> S] \cup [1..2 -> S] \cup [1..3 -> S]

MCArrays(t) ==
  CASE t = Int8 -> Tuples({-128, -64, 0, 1, 64, 127})
                   \cup {<<0, 63, 0, 127>>, <<0, 64, 65, 66>>, <<5, 5, 5, 5>>, <<-1, 0, -1, 62>>, <<-128, 127, -128, 127>>}
    [] t = UInt8 -> Tuples({0, 1, 63, 64, 255})
                        \cup {<<0, 63, 0, 255>>, <<0, 64, 65, 66>>, <<5, 5, 5, 5>>, <<255, 200, 255, 200>>}
    [] t = Int5 -> Tuples({-16, -1, 0, 15})

Array == INSTANCE ArrayProofs WITH
  WordBits <- 8,
  MAX_BIT_NUMBER_BITS <- 3,
  ElementTypes <- MCElementTypes,
  ElementBitSize <- MCElementBitSize,
  ArrayTypes <- {"NORMAL", "IMPLICIT", "ALIGNED", "AUTO", "ALIGNED_AUTO"},
  Packings <- BOOLEAN,
  Arrays <- MCArrays,
  Starts <- {0, 3},
  Cuts <- {0, 1, 9},
  VarSizeBits <- MCVarSizeBits,
  element <- a_element, type <- a_type, packed <- a_packed, array <- a_array, start <- a_start,
  operation <- a_operation, status <- a_status, index <- a_index, position <- a_position,
  context <- a_context, bitSize <- a_bitSize, offsetsSize <- a_offsetsSize,
  offsets <- a_offsets, stream <- a_stream, places <- a_places, cut <- a_cut,
  rawArray <- a_rawArray, readLength <- a_readLength, garbled <- a_garbled

ASSUME ArrayAssumption == Array!WidthAssumption /\ Array!ArrayAssumption

-------------------------------------------------------------------------------
(* Variants and optionals.                                                 *)

\* Either all traits of an allocator are set or none.
MCAllocatorTypes == {[assignment |-> b, swap |-> b] : b \in BOOLEAN}

Variants == INSTANCE VariantProofs WITH
  Slots <- MCSlots,
  Allocators <- MCAllocators,
  AllocatorTypes <- MCAllocatorTypes,
  Blocks <- 1..3,
  Values <- {1},
  SmallTypes <- {"int"},
  AlternativeTypes <- [i \in 0..2 |-> IF i = 0 THEN "int" ELSE "string"],
  world <- v_world, traits <- v_traits, call <- v_call

Optionals == INSTANCE OptionalProofs WITH
  Slots <- MCSlots,
  Allocators <- MCAllocators,
  AllocatorTypes <- MCAllocatorTypes,
  Blocks <- 1..3,
  Values <- {1, 2},
  SwapsUnequal <- FALSE,
  world <- o_world, traits <- o_traits, call <- o_call, onHeap <- o_onHeap

ASSUME HoldersAssumption == Variants!VariantAssumption /\ Optionals!HolderAssumption

\* Slots are alike, and so are allocators.
MCSymmetry == Permutations(MCSlots) \cup Permutations(MCAllocators)

-------------------------------------------------------------------------------
(* What is not used stays as it is.                                        *)

SomeAllocatorType == CHOOSE t \in MCAllocatorTypes : TRUE

IdleArray ==
  /\ a_element = Int5 /\ a_type = "NORMAL" /\ a_packed = FALSE /\ a_array = <<>> /\ a_start = 0
  /\ Array!Init

IdleStructure ==
  /\ fields = MCNarrow /\ known = Len(fields) /\ object = CHOOSE o \in Objects(known) : TRUE
  /\ Init

MCInit ==
  /\ part \in Parts
  /\ Variants!InitVariants /\ (part # "variant" => v_traits = SomeAllocatorType)
  /\ Optionals!InitOptionals /\ (part # "optional" => o_traits = SomeAllocatorType /\ ~o_onHeap)
  /\ IF part = "array" THEN Array!Init ELSE IdleArray
  /\ IF part = "structure" THEN Init ELSE IdleStructure

MCNext ==
  \/ part = "array" /\ Array!Next /\ UNCHANGED <<part, vars, variantVars, optionalVars>>
  \/ part = "structure" /\ Next /\ UNCHANGED <<part, arrayVars, variantVars, optionalVars>>
  \/ part = "variant" /\ Variants!NextVariants /\ UNCHANGED <<part, arrayVars, vars, optionalVars>>
  \/ part = "optional" /\ Optionals!NextOptionals /\ UNCHANGED <<part, arrayVars, vars, variantVars>>

MCSpec == MCInit /\ [][MCNext]_<<part, arrayVars, vars, variantVars, optionalVars>>

\* No step depends on the call before, and of the properties only what a step is called does.
MCView == <<part, arrayVars, vars, v_world, v_traits, o_world, o_traits, o_onHeap>>

-------------------------------------------------------------------------------
(* The properties of all but the structures.                               *)

\* All are of their types.
TypesOK == (part = "array" => Array!TypeOK) /\ (part = "structure" => TypeOK)

\* bitSizeOf, initializeOffsets and write move by the same number of bits and put the
\* elements of an aligned array at their offsets.
ArrayLayoutAgrees == part = "array" => Array!LayoutAgrees

\* An array is written unless bits are missing.
WriteThrowsIffCut == part = "array" => Array!WriteThrowsIffCut

\* What was written is read back, element by element; a buffer in which bits are missing is
\* not read as an array, and what is stored of it is a prefix.
ArrayRoundTrip == part = "array" => Array!RoundTrip /\ Array!CutReadsPrefix

\* Packing costs one bit at most.
PackingPays == part = "array" => Array!PackingPays

\* A block of a variant or an optional has one owner at most, and goes back where it came from; and no
\* call loses a block or leaves a variant that cannot be destroyed, but those that are known to.
\* (OneOwner of both, and Variants!KeepsOrder.)
OneOwner ==
  /\ []((part = "variant" => Variants!OneOwner) /\ (part = "optional" => Optionals!OneOwner))
  /\ [][part = "variant" => Variants!OrderKept]_variantVars

\* A call does what it says to the variants and optionals it names, and nothing to the others.
\* (Variants!ImplementsHolder and Optionals!ImplementsHolder, each of its own behaviours.)
ImplementsHolder ==
  /\ Variants!Promised!Init /\ Optionals!Promised!Init
  /\ [][/\ part = "variant" => Variants!HolderStep
        /\ part = "optional" => Optionals!HolderStep]_<<variantVars, optionalVars>>
===============================================================================
