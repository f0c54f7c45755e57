-------------------------------- MODULE VarNum --------------------------------
(***************************************************************************)
(* The variable-length numbers of zserio: their size (bitSizeOf), their    *)
(* encoding byte by byte (BitStreamWriter::writeVarNum) and their decoding *)
(* byte by byte (BitStreamReader::readVarInt16 .. readVarSize).            *)
(*                                                                         *)
(* Bits are symbols, as in BitStreamReader: a number is its sign and the   *)
(* bits of its absolute value, of which only "zero or not" is inspected.   *)
(* A number has nine bytes at most.                                        *)
(***************************************************************************)
EXTENDS StreamBits, FiniteSetsExt

CONSTANTS
  FlagBit,     \* a bit that is set by the encoding itself: a sign or a continuation
  Magnitudes,  \* the absolute values of the numbers written
  Streams      \* byte strings read that need not come from the writer

AbsValue == [0..(WideBits - 1) -> Bit]
Byte == [0..7 -> Bit]

ASSUME FlagAssumption == FlagBit \in Bit \ {ZeroBit}
ASSUME NumbersAssumption == Magnitudes \subseteq AbsValue /\ Streams \subseteq Seq(Byte)

VARIABLES
  varType,   \* the type of the number that is written or read
  value,     \* the number written, or NoValue when any bytes are read
  encoded,   \* the bytes
  count,     \* the number of bytes written or read by the operation in progress
  sign,      \* readVar*: sign
  result,    \* readVar*: result, or the number returned
  varStatus  \* "writing", "reading", or how the last operation ended: "done", "thrown"

varNumVars == <<varType, value, encoded, count, sign, result, varStatus>>

-------------------------------------------------------------------------------
(* The types.                                                              *)

\* bytes: the largest number of bytes; limit: the bits of the largest absolute value;
\* width: the width of the variable that is read into.
VarTypes == [
  varint16  |-> [bytes |-> 2, limit |-> 14, width |-> 16, signed |-> TRUE],
  varint32  |-> [bytes |-> 4, limit |-> 28, width |-> 32, signed |-> TRUE],
  varint64  |-> [bytes |-> 8, limit |-> 56, width |-> 64, signed |-> TRUE],
  varint    |-> [bytes |-> 9, limit |-> 63, width |-> 64, signed |-> TRUE],
  varuint16 |-> [bytes |-> 2, limit |-> 15, width |-> 16, signed |-> FALSE],
  varuint32 |-> [bytes |-> 4, limit |-> 29, width |-> 32, signed |-> FALSE],
  varuint64 |-> [bytes |-> 8, limit |-> 57, width |-> 64, signed |-> FALSE],
  varuint   |-> [bytes |-> 9, limit |-> 64, width |-> 64, signed |-> FALSE],
  varsize   |-> [bytes |-> 5, limit |-> 31, width |-> 32, signed |-> FALSE]]

\* The payload bits of the first byte when another byte follows.
FirstBits(t) == IF VarTypes[t].signed THEN 6 ELSE 7

\* The *_MAX_VALUES tables: entry n is the number with this many bits set.
MaxBits(t, n) ==
  IF n = VarTypes[t].bytes THEN VarTypes[t].limit ELSE FirstBits(t) + 7 * (n - 1)

Zero == [p \in 0..(WideBits - 1) |-> ZeroBit]
NoValue == [negative |-> FALSE, magnitude |-> <<>>]

\* value <= maxValues[n]
FitsBits(w, n) == \A p \in n..(WideBits - 1) : w[p] = ZeroBit

\* The least value of the C++ type: its absolute value takes all of its bits. The negation of
\* convertToAbsValue overflows there; its sign bit stays set whatever comes of it.
IsLeast(t, v) ==
  LET top == VarTypes[t].width - 1
  IN  /\ v.negative
      /\ v.magnitude[top] # ZeroBit
      /\ FitsBits([v.magnitude EXCEPT ![top] = ZeroBit], 0)

\* INT64_MIN as a varint.
IsInt64Min(t, v) == t = "varint" /\ IsLeast(t, v)

\* The values of the C++ type.
IsValueOf(t, v) ==
  /\ v.negative => VarTypes[t].signed /\ ~FitsBits(v.magnitude, 0)
  /\ \/ FitsBits(v.magnitude, VarTypes[t].width - (IF VarTypes[t].signed THEN 1 ELSE 0))
     \/ VarTypes[t].signed /\ IsLeast(t, v)

\* The numbers of bytes that can hold v; empty when v is out of the range of its type.
Lengths(t, v) ==
  IF IsInt64Min(t, v) THEN {1}
  ELSE {n \in 1..VarTypes[t].bytes : FitsBits(v.magnitude, MaxBits(t, n))}

\* bitSizeOf(v) / 8, for a v in range
NumBytes(t, v) == Min(Lengths(t, v))

-------------------------------------------------------------------------------
(* Encoding.                                                               *)

\* The number of bits byte i of n leaves to the bytes behind it.
Shift(t, n, i) ==
  (n - (i + 1)) * 7 + (IF n = VarTypes[t].bytes /\ i < n - 1 THEN 1 ELSE 0)

\* The loop body of writeVarNum: byte i of n.
EncodedByte(t, v, n, i) ==
  LET hasNextByte == i < n - 1
      hasSignBit == VarTypes[t].signed /\ i = 0
      numBits == 8 - (IF hasSignBit THEN 1 ELSE 0)
                   - (IF hasNextByte \/ n # VarTypes[t].bytes THEN 1 ELSE 0)
      Data(p) == LET q == Shift(t, n, i) + p
                 IN  IF q < WideBits THEN v.magnitude[q] ELSE ZeroBit
  IN  [p \in 0..7 |->
         IF p < numBits THEN Data(p)
         ELSE IF p = numBits /\ hasNextByte THEN FlagBit
         ELSE IF p = 7 /\ hasSignBit /\ v.negative THEN FlagBit
         ELSE ZeroBit]

\* INT64_MIN is encoded as -0.
MinusZero == [p \in 0..7 |-> IF p = 7 THEN FlagBit ELSE ZeroBit]

\* writeVar*(v): bitSizeOf throws for a number out of range, before anything is written.
Write(t, v) ==
  /\ varStatus \in {"done", "thrown"}
  /\ IsValueOf(t, v)
  /\ varType' = t
  /\ value' = v
  /\ encoded' = <<>>
  /\ count' = 0
  /\ sign' = FALSE
  /\ result' = Zero
  /\ varStatus' = IF Lengths(t, v) = {} THEN "thrown" ELSE "writing"

\* The number written is then read back.
WriteByte ==
  LET n == NumBytes(varType, value)
  IN  /\ varStatus = "writing"
      /\ encoded' = Append(encoded, IF IsInt64Min(varType, value) THEN MinusZero
                                ELSE EncodedByte(varType, value, n, count))
      /\ count' = IF count + 1 = n THEN 0 ELSE count + 1
      /\ varStatus' = IF count + 1 = n THEN "reading" ELSE "writing"
      /\ UNCHANGED <<varType, value, sign, result>>

-------------------------------------------------------------------------------
(* Decoding.                                                               *)

\* Mutant of ShiftIn: the last byte is shifted in like the others.
ShiftInSeven(t, w, n, byte, numBits) ==
  [p \in 0..(WideBits - 1) |->
     IF p >= VarTypes[t].width THEN ZeroBit
     ELSE IF p < 7 THEN byte[p]
     ELSE IF p >= 7 THEN w[p - 7] ELSE ZeroBit]

\* result << n | byte, in a variable of the width of the type; the masked byte has
\* numBits bits.
ShiftIn(t, w, n, byte, numBits) ==
  [p \in 0..(WideBits - 1) |->
     IF p >= VarTypes[t].width THEN ZeroBit
     ELSE IF p < numBits THEN byte[p]
     ELSE IF p >= n THEN w[p - n] ELSE ZeroBit]

\* readVar*(): any bytes
Read(t, s) ==
  /\ varStatus \in {"done", "thrown"}
  /\ Len(s) >= VarTypes[t].bytes
  /\ varType' = t
  /\ value' = NoValue
  /\ encoded' = s
  /\ count' = 0
  /\ sign' = FALSE
  /\ result' = Zero
  /\ varStatus' = "reading"

\* The bit that says whether another byte follows byte i.
NextFlag(t, i) == IF i = 0 /\ VarTypes[t].signed THEN 6 ELSE 7

\* -0 stands for INT64_MIN, but only when it is a single byte.
Int64Min == [p \in 0..(WideBits - 1) |-> IF p = WideBits - 1 THEN FlagBit ELSE ZeroBit]

\* The check of readVarSize behind its last byte.
OutOfRange(t, i, w) == t = "varsize" /\ i = 4 /\ w[31] # ZeroBit

\* The byte that needs no bit for a successor.
IsLast(t, i) == i = VarTypes[t].bytes - 1

ReadByte ==
  LET byte == encoded[count + 1]
      isLast == IsLast(varType, count)
      next == NextFlag(varType, count)
      word == IF isLast THEN ShiftIn(varType, result, 8, byte, 8)
              ELSE ShiftIn(varType, result, 7, byte, next)
      minus == IF count = 0 THEN VarTypes[varType].signed /\ byte[7] # ZeroBit ELSE sign
      more == ~isLast /\ byte[next] # ZeroBit
  IN  /\ varStatus = "reading"
      /\ count' = count + 1
      /\ sign' = minus
      /\ result' = IF varType = "varint" /\ count = 0 /\ ~more /\ minus /\ word = Zero
                   THEN Int64Min ELSE word
      /\ varStatus' = IF more THEN "reading"
                   ELSE IF OutOfRange(varType, count, word) THEN "thrown" ELSE "done"
      /\ UNCHANGED <<varType, value, encoded>>

-------------------------------------------------------------------------------

VarNumInit ==
  /\ varType = "varsize"
  /\ value = NoValue
  /\ encoded = <<>>
  /\ count = 0
  /\ sign = FALSE
  /\ result = Zero
  /\ varStatus = "done"

VarNumNext ==
  \/ \E t \in DOMAIN VarTypes :
       \/ \E w \in Magnitudes, n \in BOOLEAN : Write(t, [negative |-> n, magnitude |-> w])
       \/ \E s \in Streams : Read(t, s)
  \/ WriteByte
  \/ ReadByte

VarNumSpec == VarNumInit /\ [][VarNumNext]_varNumVars

-------------------------------------------------------------------------------
(* Properties.                                                             *)

VarNumTypeOK ==
  /\ varType \in DOMAIN VarTypes
  /\ value = NoValue \/ value \in [negative : BOOLEAN, magnitude : AbsValue]
  /\ encoded \in Seq(Byte)
  /\ count \in 0..VarTypes[varType].bytes
  /\ sign \in BOOLEAN
  /\ result \in AbsValue
  /\ varStatus \in {"writing", "reading", "done", "thrown"}

\* Do the bits v and w name the same number, where the symbols FlagBit and a data bit both
\* stand for a bit that is set?
SameNumber(v, w) ==
  \A p \in 0..(WideBits - 1) :
    v[p] = w[p] \/ (v[p] # ZeroBit /\ w[p] = FlagBit)

\* A number that was written is read back with its sign and all of its bits, for every
\* type, every length and both ends of its range, and the reader stops behind the last byte
\* that was written: the size that bitSizeOf computes, the bytes that are written and the
\* bytes that are read are the same number.
RoundTrip ==
  varStatus = "done" /\ value # NoValue
  => /\ SameNumber(value.magnitude, result)
     /\ sign = value.negative
     /\ count = Len(encoded)
     /\ count = NumBytes(varType, value)

\* A number out of the range of its type is refused as a whole, and a number in range is
\* never refused, by the writer or by the reader.
RefusedIfOutOfRange ==
  varStatus = "thrown" /\ value # NoValue
  => encoded = <<>> /\ ~FitsBits(value.magnitude, VarTypes[varType].limit)

\* The number that the payload bits of the n bytes s stand for, the first byte's most
\* significant bits first: what the byte-by-byte shifts must add up to.
PayloadBits(t, i) == IF i = VarTypes[t].bytes - 1 THEN 8 ELSE NextFlag(t, i)
BitsBehind(t, n, i) ==
  LET bits(k) == IF k \in (i + 1)..(n - 1) THEN PayloadBits(t, k) ELSE 0
  IN  bits(1) + bits(2) + bits(3) + bits(4) + bits(5) + bits(6) + bits(7) + bits(8)
PayloadBit(t, s, n, p) ==
  LET Holds(i) == p \in BitsBehind(t, n, i)..(BitsBehind(t, n, i) + PayloadBits(t, i) - 1)
      at == {i \in 0..(n - 1) : Holds(i)}
  IN  IF at = {} THEN ZeroBit
      ELSE LET i == CHOOSE i \in at : TRUE IN s[i + 1][p - BitsBehind(t, n, i)]

\* Whatever bytes are read, the result is the number their payload stands for, also when
\* they hold it in more bytes than necessary.
DecodesPayload ==
  varStatus = "done" /\ ~(sign /\ result = Int64Min)
  => \A p \in 0..(VarTypes[varType].width - 1) : result[p] = PayloadBit(varType, encoded, count, p)

\* Encoder, sizes and decoder, which are three pieces of code, agree.
NumbersAgree == RoundTrip /\ RefusedIfOutOfRange /\ DecodesPayload

\* The test of readVarSize: everything above 2^31 - 1 is an overflow. The five bytes of a
\* varsize hold 36 bits.
VarSizeChecked ==
  varStatus = "done" /\ varType = "varsize"
  => \A p \in 31..35 : PayloadBit(varType, encoded, count, p) = ZeroBit
===============================================================================
