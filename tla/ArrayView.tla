------------------------------- MODULE ArrayView -------------------------------
(***************************************************************************)
(* The array functions of ArrayView.h, plain and packed, for the five      *)
(* kinds of arrays: bitSizeOf, initializeOffsets, write and read walk over *)
(* the same elements independently of each other and must agree on where   *)
(* each of them lies.  An array goes through the four of them, one element *)
(* per step; writing and reading may meet the end of the buffer.           *)
(*                                                                         *)
(* The stream is the sequence of the fields that were written, each with   *)
(* the bit position it is at (see BitStreamWriter for the bits).           *)
(***************************************************************************)
EXTENDS DeltaContext, SequencesExt

CONSTANTS
  ArrayTypes,    \* the kinds of arrays, a subset of AllTypes
  Packings,      \* packed or not: a subset of BOOLEAN
  Arrays(_),     \* the arrays of elements of a type
  Starts,        \* the bit positions an array starts at
  Cuts,          \* the numbers of bits the buffer is too small by
  VarSizeBits(_) \* bitSizeOf of an array length

AllTypes == {"NORMAL", "IMPLICIT", "ALIGNED", "AUTO", "ALIGNED_AUTO"}

ArrayAssumption ==
  /\ ArrayTypes \subseteq AllTypes
  /\ Packings \subseteq BOOLEAN
  /\ \A t \in ElementTypes : \A a \in Arrays(t) : a \in Seq(Values(t)) /\ VarSizeBits(Len(a)) \in Nat \ {0}
  /\ Starts \cup Cuts \subseteq Nat

VARIABLES
  element, type, packed, array, start,  \* the array and where it is put
  operation,    \* the operation in progress, or the last one
  status,       \* "busy", "done" or "thrown"
  index,        \* the number of elements processed
  position,     \* the current bit position
  context,      \* the packing context of the operation
  bitSize,      \* what bitSizeOf returned
  offsetsSize,  \* what initializeOffsets returned
  offsets,      \* the byte offsets it set, one per element
  stream,       \* the fields written
  places,       \* history: the bit positions of the elements written
  cut,          \* the number of bits missing to the operation in progress
  rawArray,     \* the vector read into
  readLength,   \* the number of elements to read
  garbled       \* history: the reader read bits that are not one field of the stream

vars == <<element, type, packed, array, start, operation, status, index, position, context, bitSize,
          offsetsSize, offsets, stream, places, cut, rawArray, readLength, garbled>>

IsAuto == type \in {"AUTO", "ALIGNED_AUTO"}
IsAligned == type \in {"ALIGNED", "ALIGNED_AUTO"}

-------------------------------------------------------------------------------

\* alignTo(8, p) of BitPositionUtil.h, and what alignTo(8) of reader and writer does
AlignTo(p) == ((p + 7) \div 8) * 8

\* Where element number index starts.
ElementPosition == IF IsAligned THEN AlignTo(position) ELSE position

\* Where the reader looks for element number index.
ReadPosition == ElementPosition

\* initContext over the array, when it is packed
InitContext ==
  LET c[k \in 0..Len(array)] == IF k = 0 THEN NewContext ELSE InitElement(element, c[k - 1], array[k])
  IN  IF packed THEN c[Len(array)] ELSE NewContext

\* The size of the hidden length of an auto array.
LengthBits == IF IsAuto THEN VarSizeBits(Len(array)) ELSE 0

\* The end of the buffer that is written to or read from.
BufferBitSize == start + bitSize - cut

\* An operation that walks over the n elements of the array starts at bit position p.
Begin(name, n, p) ==
  /\ operation' = name
  /\ status' = IF n = 0 THEN "done" ELSE "busy"
  /\ index' = 0
  /\ position' = p

Array == <<element, type, packed, array, start>>

-------------------------------------------------------------------------------
(* bitSizeOf, bitSizeOfPacked, initializeOffsets, initializeOffsetsPacked  *)

BitSizeOfArray ==
  /\ operation = "new"
  /\ Begin("bitSizeOf", Len(array), start + LengthBits)
  /\ bitSize' = LengthBits
  /\ context' = InitContext
  /\ UNCHANGED <<Array, offsetsSize, offsets, stream, places, cut, rawArray, readLength, garbled>>

InitializeOffsets ==
  /\ operation = "bitSizeOf"
  /\ status = "done"
  /\ Begin("initializeOffsets", Len(array), start + LengthBits)
  /\ offsetsSize' = LengthBits
  /\ context' = InitContext
  /\ UNCHANGED <<Array, bitSize, offsets, stream, places, cut, rawArray, readLength, garbled>>

\* Mutant of SetOffset: the offset is taken before the alignment.
SetOffsetEarly(p) == IF IsAligned THEN Append(offsets, position \div 8) ELSE offsets

\* offsetSetter.setOffset(index, p / 8), in aligned arrays
SetOffset(p) == IF IsAligned THEN Append(offsets, p \div 8) ELSE offsets

MeasureElement ==
  LET v == array[index + 1]
      p == ElementPosition
      measured == IF packed THEN BitSizeOf(element, context, v)
                  ELSE [context |-> context, size |-> ElementBitSize(element, v)]
      end == p + measured.size
  IN  /\ operation \in {"bitSizeOf", "initializeOffsets"}
      /\ status = "busy"
      /\ position' = end
      /\ context' = measured.context
      /\ index' = index + 1
      /\ status' = IF index + 1 = Len(array) THEN "done" ELSE "busy"
      /\ \/ /\ operation = "bitSizeOf"
            /\ bitSize' = end - start
            /\ UNCHANGED <<offsetsSize, offsets>>
         \/ /\ operation = "initializeOffsets"
            /\ offsetsSize' = end - start
            /\ offsets' = SetOffset(p)
            /\ UNCHANGED bitSize
      /\ UNCHANGED <<Array, operation, stream, places, cut, rawArray, readLength, garbled>>

-------------------------------------------------------------------------------
(* write, writePacked                                                      *)

\* The fields s behind each other from position p.
Placed(s, p) ==
  LET at[k \in 1..Len(s)] == IF k = 1 THEN p ELSE at[k - 1] + s[k - 1].bits
  IN  [k \in 1..Len(s) |-> [at |-> at[k], field |-> s[k]]]

EndOf(s, p) == IF s = <<>> THEN p ELSE Last(Placed(s, p)).at + Last(s).bits

\* Into a buffer that is d bits smaller than bitSizeOf says.
WriteArray(d) ==
  LET length == IF IsAuto THEN <<Field("length", Len(array), VarSizeBits(Len(array)))>> ELSE <<>>
      end == EndOf(length, start)
  IN  /\ operation = "initializeOffsets"
      /\ status = "done"
      /\ d =< bitSize
      /\ cut' = d
      /\ IF end > start + bitSize - d
         THEN operation' = "write" /\ status' = "thrown" /\ UNCHANGED <<index, position, stream>>
         ELSE Begin("write", Len(array), end) /\ stream' = Placed(length, start)
      /\ context' = InitContext
      /\ UNCHANGED <<Array, bitSize, offsetsSize, offsets, places, rawArray, readLength, garbled>>

\* alignTo(8) and the fields of one element.
WriteElement ==
  LET v == array[index + 1]
      p == ElementPosition
      written == IF packed THEN Write(element, context, v)
                 ELSE [context |-> context, refused |-> FALSE,
                       fields |-> <<Field("element", v, ElementBitSize(element, v))>>]
      end == EndOf(written.fields, p)
      fits == end =< BufferBitSize /\ ~written.refused
  IN  /\ operation = "write"
      /\ status = "busy"
      /\ \/ /\ fits
            /\ position' = end
            /\ context' = written.context
            /\ stream' = stream \o Placed(written.fields, p)
            /\ places' = Append(places, p)
            /\ index' = index + 1
            /\ status' = IF index + 1 = Len(array) THEN "done" ELSE "busy"
         \/ /\ ~fits
            /\ status' = "thrown"
            /\ UNCHANGED <<position, context, stream, places, index>>
      /\ UNCHANGED <<Array, operation, bitSize, offsetsSize, offsets, cut, rawArray, readLength,
                     garbled>>

-------------------------------------------------------------------------------
(* read, readPacked                                                        *)

\* The field of the given kind at bit position p; what a reader at a wrong position makes
\* of the bits there is not modelled, but recorded.
FieldsAt(kind, p) == {f \in Range(stream) : f.at = p /\ f.field.kind = kind}
FieldAt(kind, p) ==
  IF FieldsAt(kind, p) = {} THEN Field("none", 0, 1)
  ELSE (CHOOSE f \in FieldsAt(kind, p) : TRUE).field

\* The length of an implicit array, which takes all bits that remain of the buffer.
Remaining(bits) == bits \div ElementBitSize(element, 0)

\* Mutant of TooLong: the last element of the buffer is refused.
TooLongByOne(end, bits) == end >= bits

\* The check of read that an array that ends at end is not longer than the buffer.
TooLong(end, bits) == end > bits

\* readArrayLength, and the check that as many numbers can be left in the buffer
ReadArray(d) ==
  LET length == FieldAt("length", start)
      p == start + (IF IsAuto THEN length.bits ELSE 0)
      n == IF IsAuto THEN length.value
           ELSE IF type = "IMPLICIT" THEN Remaining(bitSize - d) ELSE Len(array)
      tooLong == ~packed /\ TooLong(p + n * ElementBitSize(element, 0), start + bitSize - d)
  IN  /\ operation = "write"
      /\ status = "done"
      /\ cut = 0
      /\ d =< bitSize
      /\ cut' = d
      /\ IF p > start + bitSize - d \/ tooLong
         THEN operation' = "read" /\ status' = "thrown" /\ UNCHANGED <<index, position, readLength>>
         ELSE Begin("read", n, p) /\ readLength' = n
      /\ rawArray' = <<>>
      /\ context' = NewContext
      /\ garbled' = (IsAuto /\ length.kind = "none")
      /\ UNCHANGED <<Array, bitSize, offsetsSize, offsets, stream, places>>

\* An element that is read as it is: its context, its value, the end of its bits.
ReadPlain(c, p) ==
  LET f == FieldAt("element", p)
  IN  [context |-> ReadUnpacked(c, f.value), value |-> f.value, end |-> p + f.bits,
       garbled |-> f.kind = "none"]

\* DeltaContext::read
ReadCompressed(c, p) ==
  LET flag == FieldAt("flag", p)
      number == FieldAt("number", p + 1)
      described == ReadPackedFlag(Started(c), flag.value)
      delta == FieldAt("delta", p)
      added == AddDelta(element, c, delta.value)
  IN  IF ~c.processingStarted
      THEN IF described.isPacked
           THEN LET r == ReadPlain(ReadMaxBitNumber(described, number.value),
                                   p + 1 + MAX_BIT_NUMBER_BITS)
                IN  [r EXCEPT !.garbled = @ \/ number.kind = "none"]
           ELSE LET r == ReadPlain(described, p + 1)
                IN  [r EXCEPT !.garbled = @ \/ flag.kind = "none"]
      ELSE IF ~c.isPacked
      THEN ReadPlain(c, p)
      ELSE IF c.maxBitNumber = 0
      THEN [context |-> c, value |-> Current(element, c), end |-> p, garbled |-> FALSE]
      ELSE [context |-> added, value |-> Current(element, added), end |-> p + c.maxBitNumber + 1,
            garbled |-> delta.bits # c.maxBitNumber + 1]

\* The default value of an element that was appended but not read.
Default == 0

\* The vector grows before its new element is read.
ReadElement ==
  LET p == ReadPosition
      r == IF packed THEN ReadCompressed(context, p) ELSE ReadPlain(context, p)
      eof == r.end > BufferBitSize
  IN  /\ operation = "read"
      /\ status = "busy"
      /\ \/ /\ ~eof
            /\ rawArray' = Append(rawArray, r.value)
            /\ position' = r.end
            /\ context' = r.context
            /\ garbled' = (garbled \/ r.garbled)
            /\ index' = index + 1
            /\ status' = IF index + 1 = readLength THEN "done" ELSE "busy"
         \/ /\ eof
            /\ rawArray' = IF IsAligned /\ p > BufferBitSize THEN rawArray
                           ELSE Append(rawArray, Default)
            /\ status' = "thrown"
            /\ UNCHANGED <<position, context, index, garbled>>
      /\ UNCHANGED <<Array, operation, bitSize, offsetsSize, offsets, stream, places, cut,
                     readLength>>

-------------------------------------------------------------------------------

\* An implicit array is not packed, and its elements have a fixed size.
Allowed(e, t, p) ==
  t = "IMPLICIT" => ~p /\ \A v \in Values(e) : ElementBitSize(e, v) = ElementBitSize(e, 0)

Fresh ==
  /\ operation = "new"
  /\ status = "done"
  /\ index = 0
  /\ position = 0
  /\ context = NewContext
  /\ bitSize = 0
  /\ offsetsSize = 0
  /\ offsets = <<>>
  /\ stream = <<>>
  /\ places = <<>>
  /\ cut = 0
  /\ rawArray = <<>>
  /\ readLength = 0
  /\ garbled = FALSE

Init ==
  /\ element \in ElementTypes
  /\ type \in ArrayTypes
  /\ packed \in Packings
  /\ Allowed(element, type, packed)
  /\ array \in Arrays(element)
  /\ start \in Starts
  /\ Fresh

Next ==
  \/ BitSizeOfArray
  \/ InitializeOffsets
  \/ MeasureElement
  \/ \E d \in Cuts : WriteArray(d) \/ ReadArray(d)
  \/ WriteElement
  \/ ReadElement

Spec == Init /\ [][Next]_vars

-------------------------------------------------------------------------------
(* Properties.                                                             *)

Did(name) == operation = name /\ status = "done"

TypeOK ==
  /\ Allowed(element, type, packed)
  /\ operation \in {"new", "bitSizeOf", "initializeOffsets", "write", "read"}
  /\ status \in {"busy", "done", "thrown"}
  /\ index \in 0..(Len(array) + 1)
  /\ {position, bitSize, offsetsSize, cut, readLength} \subseteq Nat
  /\ context.previousElement \in 0..(Pow2[WordBits] - 1)
  /\ context.maxBitNumber \in 0..WordBits
  /\ \A k \in 1..Len(rawArray) : rawArray[k] \in Values(element)
  /\ garbled \in BOOLEAN

\* bitSizeOf, initializeOffsets and write move by the same number of bits, from any
\* start, for every kind of array, and put each element of an aligned array at the byte
\* of its offset: the caller sizes the buffer with the first and lays out what follows
\* with the second.
LayoutAgrees ==
  /\ Did("initializeOffsets") => offsetsSize = bitSize
  /\ Did("write") => position = start + bitSize
  /\ Did("write") /\ IsAligned => /\ offsets = [k \in 1..Len(array) |-> places[k] \div 8]
                                  /\ \A k \in 1..Len(array) : places[k] % 8 = 0

\* The differences that init admits fit into the bits that write gives them, although
\* they are computed without a check for overflow: a write throws only for lack of space.
WriteThrowsIffCut ==
  operation = "write" => /\ status = "thrown" => cut > 0
                         /\ status = "done" => cut = 0

\* What was written is read back, wherever it starts, and on the way the reader calls for
\* the very fields the writer wrote, at their bit positions.
RoundTrip ==
  /\ Did("read") /\ cut = 0 => rawArray = array
  /\ ~garbled

\* A buffer in which bits are missing is not read as an array, except as a shorter
\* implicit one; a complete buffer is.  What a read has stored, also when it throws, is a
\* prefix of the array and at most one element that was appended but not read.
CutReadsPrefix ==
  operation = "read" =>
    /\ status = "thrown" => cut > 0 /\ type # "IMPLICIT"
    /\ status = "done" => cut = 0 \/ type = "IMPLICIT"
    /\ \E k \in {Len(rawArray) - 1, Len(rawArray)} :
         k >= 0 /\ IsPrefix(SubSeq(rawArray, 1, k), array)

\* The descriptor of a packed array that is not packed is the only thing packing costs.
PackingPays ==
  Did("bitSizeOf") /\ packed /\ ~IsAligned
  => LET plain[k \in 0..Len(array)] ==
           IF k = 0 THEN LengthBits ELSE plain[k - 1] + ElementBitSize(element, array[k])
     IN  bitSize =< plain[Len(array)] + 1
===============================================================================
