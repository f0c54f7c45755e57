----------------------------- MODULE DeltaContext -----------------------------
(***************************************************************************)
(* zserio::detail::DeltaContext: the compression of a packed array.  The   *)
(* context is initialised with all elements, then measures, writes or      *)
(* reads them one by one; the first element carries a descriptor, which    *)
(* says whether the others are differences and how wide those are.         *)
(*                                                                         *)
(* The code computes in words of 64 bits.  The width is a constant here,   *)
(* and with it the two limits that depend on it, so that TLC can meet the  *)
(* ends of the range.                                                      *)
(***************************************************************************)
EXTENDS Integers, Sequences

CONSTANTS
  WordBits,      \* the width of uint64_t: 64
  MAX_BIT_NUMBER_BITS,   \* the width of maxBitNumber in the descriptor: 6
  ElementTypes,  \* the types of elements: their names and their ValueType's width and sign
  ElementBitSize(_, _)  \* detail::bitSizeOf of an element of a type, written as it is

\* The powers of two, as a function that proofs can expand.
Pow2[n \in Nat] == IF n = 0 THEN 1 ELSE 2 * Pow2[n - 1]

MAX_BIT_NUMBER_LIMIT == WordBits - 2

-------------------------------------------------------------------------------
(* Integers of the machine.                                                *)

UInt8(n) == n % 256

\* static_cast<uint64_t>(v)
ToWord(v) == v % Pow2[WordBits]

\* The two's complement number of n bits with the bits of w.
SignExtend(w, n) ==
  LET u == w % Pow2[n] IN IF u >= Pow2[n - 1] THEN u - Pow2[n] ELSE u

\* static_cast<typename T::ValueType>(w)
ToValue(t, w) == IF t.signed THEN SignExtend(w, t.bits) ELSE w % Pow2[t.bits]

\* static_cast<int64_t>(w)
ToSigned(w) == SignExtend(w, WordBits)

Values(t) ==
  IF t.signed THEN -(Pow2[t.bits - 1])..(Pow2[t.bits - 1] - 1) ELSE 0..(Pow2[t.bits] - 1)

\* No number is smaller than 0 in the stream, and none takes more bits than a uint8_t counts: the
\* longest is a varint of nine bytes.
WidthAssumption ==
  /\ WordBits \in 1..256
  /\ MAX_BIT_NUMBER_BITS \in Nat
  /\ Pow2[MAX_BIT_NUMBER_BITS] = WordBits
  /\ ElementTypes \subseteq [name : STRING, bits : 1..WordBits, signed : BOOLEAN]
  /\ \A t \in ElementTypes : \A v \in Values(t) :
        ElementBitSize(t, 0) \in Nat \ {0} /\ ElementBitSize(t, v) \in ElementBitSize(t, 0)..255

\* absDeltaBitLength
AbsDeltaBitLength(d) == CHOOSE n \in 0..WordBits : d < Pow2[n] /\ \A k \in 0..(n - 1) : d >= Pow2[k]

\* calcBitLength
CalcBitLength(v, w) ==
  AbsDeltaBitLength(IF v > w THEN ToWord(ToWord(v) - ToWord(w)) ELSE ToWord(ToWord(w) - ToWord(v)))

\* calcUncheckedDelta
CalcUncheckedDelta(v, w) == ToSigned(ToWord(ToWord(v) - w))

-------------------------------------------------------------------------------
(* The context.                                                            *)

NewContext ==
  [previousElement |-> 0, maxBitNumber |-> 0, firstElementBitSize |-> 0,
   numElements |-> 0, unpackedBitSize |-> 0,
   initStarted |-> FALSE, isPacked |-> FALSE, processingStarted |-> FALSE]

\* Mutant of InitElement: the context goes on comparing with the first element.
InitElementStale(t, c, v) ==
  LET size == c.unpackedBitSize + ElementBitSize(t, v)
      counted == [c EXCEPT !.numElements = @ + 1, !.unpackedBitSize = size]
      bits == CalcBitLength(v, ToValue(t, c.previousElement))
      most == IF bits > c.maxBitNumber THEN bits ELSE c.maxBitNumber
  IN  IF ~c.initStarted
      THEN [counted EXCEPT !.initStarted = TRUE, !.previousElement = ToWord(v),
                           !.firstElementBitSize = UInt8(size)]
      ELSE [counted EXCEPT !.maxBitNumber = most, !.isPacked = most =< MAX_BIT_NUMBER_LIMIT]

\* init(v).  A difference that is too wide for the descriptor ends the packing for good.
InitElement(t, c, v) ==
  LET size == c.unpackedBitSize + ElementBitSize(t, v)
      counted == [c EXCEPT !.numElements = @ + 1, !.unpackedBitSize = size]
      bits == CalcBitLength(v, ToValue(t, c.previousElement))
      most == IF bits > c.maxBitNumber THEN bits ELSE c.maxBitNumber
  IN  IF ~c.initStarted
      THEN [counted EXCEPT !.initStarted = TRUE, !.previousElement = ToWord(v),
                           !.firstElementBitSize = UInt8(size)]
      ELSE IF c.maxBitNumber =< MAX_BIT_NUMBER_LIMIT
      THEN [counted EXCEPT !.maxBitNumber = most, !.isPacked = most =< MAX_BIT_NUMBER_LIMIT,
                           !.previousElement = ToWord(v)]
      ELSE counted

\* The bits of a difference; none when all elements are equal.
DeltaBits(c) == c.maxBitNumber + (IF c.maxBitNumber > 0 THEN 1 ELSE 0)

\* Mutant of FinishInit: the descriptor is not counted.
FinishInitCheap(c) ==
  LET packed == c.firstElementBitSize + (c.numElements - 1) * DeltaBits(c)
  IN  IF c.isPacked /\ packed >= c.unpackedBitSize THEN [c EXCEPT !.isPacked = FALSE] ELSE c

\* finishInit: packing is given up unless it makes the array smaller.
FinishInit(c) ==
  LET packed == 1 + MAX_BIT_NUMBER_BITS + c.firstElementBitSize
                + (c.numElements - 1) * DeltaBits(c)
  IN  IF c.isPacked /\ packed >= 1 + c.unpackedBitSize
      THEN [c EXCEPT !.isPacked = FALSE] ELSE c

\* What bitSizeOf, read and write do before the first element.
Started(c) == [c EXCEPT !.processingStarted = TRUE]

BitSizeOfDescriptor(c) == IF c.isPacked THEN 1 + MAX_BIT_NUMBER_BITS ELSE 1

\* bitSizeOf(v), with the context it leaves
BitSizeOf(t, c, v) ==
  LET started == FinishInit(Started(c))
  IN  IF ~c.processingStarted
      THEN [context |-> started, size |-> BitSizeOfDescriptor(started) + ElementBitSize(t, v)]
      ELSE [context |-> c, size |-> IF c.isPacked THEN DeltaBits(c) ELSE ElementBitSize(t, v)]

-------------------------------------------------------------------------------
(* Writing.  A field is what one call of the writer puts into the stream;  *)
(* refused is what writeSignedBits64 does with a value that does not fit.  *)

Field(kind, value, bits) == [kind |-> kind, value |-> value, bits |-> bits]

Descriptor(c) ==
  IF c.isPacked
  THEN <<Field("flag", 1, 1), Field("number", c.maxBitNumber, MAX_BIT_NUMBER_BITS)>>
  ELSE <<Field("flag", 0, 1)>>

FitsSigned(d, n) == d \in -(Pow2[n - 1])..(Pow2[n - 1] - 1)

\* write(v)
Write(t, c, v) ==
  LET started == FinishInit(Started(c))
      delta == CalcUncheckedDelta(v, c.previousElement)
      moved == [c EXCEPT !.previousElement = ToWord(v)]
      element == Field("element", v, ElementBitSize(t, v))
  IN  IF ~c.processingStarted
      THEN [context |-> [started EXCEPT !.previousElement = ToWord(v)], refused |-> FALSE,
            fields |-> Descriptor(started) \o <<element>>]
      ELSE IF ~c.isPacked
      THEN [context |-> moved, refused |-> FALSE, fields |-> <<element>>]
      ELSE IF c.maxBitNumber = 0
      THEN [context |-> c, refused |-> FALSE, fields |-> <<>>]
      ELSE [context |-> moved, refused |-> ~FitsSigned(delta, DeltaBits(c)),
            fields |-> <<Field("delta", delta % Pow2[DeltaBits(c)], DeltaBits(c))>>]

-------------------------------------------------------------------------------
(* Reading.                                                                *)

\* readDescriptor with its first bit, and with the number that follows a bit set.
ReadPackedFlag(c, bit) == [c EXCEPT !.isPacked = bit = 1]
ReadMaxBitNumber(c, number) == [c EXCEPT !.maxBitNumber = UInt8(number)]

\* readUnpacked
ReadUnpacked(c, v) == [c EXCEPT !.previousElement = ToWord(v)]

\* Mutant of AddDelta: the difference is taken for an unsigned number.
AddDeltaUnsigned(t, c, w) == [c EXCEPT !.previousElement = ToWord(ToValue(t, @ + w))]

\* readSignedBits64 and the addition, for the bits w of a difference
AddDelta(t, c, w) ==
  [c EXCEPT !.previousElement =
     ToWord(ToValue(t, ToWord(@ + ToWord(SignExtend(w, c.maxBitNumber + 1)))))]

\* The element a packed context stands at.
Current(t, c) == ToValue(t, c.previousElement)
===============================================================================
