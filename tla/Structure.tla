------------------------------- MODULE Structure -------------------------------
(***************************************************************************)
(* The functions the generator emits for a structure (Structure.inc.ftl)   *)
(* and the way SerializeUtil.h and DataView.h call them: validate,         *)
(* initializeOffsets or bitSizeOf, write and read walk over the fields one *)
(* after the other, each with its own account of what an extended, an      *)
(* optional, an aligned field or one with an offset takes.  A field may be *)
(* a choice or a union (Choice.inc.ftl, Union.inc.ftl), whose functions    *)
(* are called by those of the structure and go by the tag of its variant.  *)
(*                                                                         *)
(* An object is validated, measured and written into a buffer of just the  *)
(* measured size, read back by a program whose schema may be older or      *)
(* newer, and written again.  One field per step, and the bits as they are.*)
(***************************************************************************)
EXTENDS Integers, FiniteSets, SequencesExt

CONSTANTS
  Schemas,  \* structures, as sequences of fields
  Cuts,     \* the numbers of bits that are lost from the end of a buffer
  Reused    \* the presence of extended fields in objects that are read into again

(***************************************************************************)
(* A field of a schema:                                                    *)
(*   extended   whether it was added to the schema later                   *)
(*   optional   "no", "auto" (a flag precedes it in the stream) or         *)
(*              "clause" (it is used if the value of field clause is 1)    *)
(*   alignment  in bits, or 0                                              *)
(*   offset     the field that holds its byte offset, or 0                 *)
(*   kind       "number", "choice" or "union"                              *)
(*   bits       the size of its value, if it is a number                   *)
(*   cases      the sizes of the cases of a choice or a union              *)
(*   selector   the field that selects the case of a choice, or 0          *)
(*   select     which case each of its values selects, 0 for an empty one  *)
(*   forbidden  the values its constraint forbids                         *)
(*   values     the values that are given to it                            *)
(***************************************************************************)
FieldType == [extended : BOOLEAN, optional : {"no", "auto", "clause"}, clause : Nat,
              alignment : Nat, offset : Nat, kind : {"number", "choice", "union"},
              bits : Nat, cases : Seq(Nat), selector : Nat, select : Seq(Nat),
              forbidden : SUBSET Nat, values : SUBSET Nat]

\* Clauses, offsets and selectors refer to earlier fields that are always there.
ASSUME SchemasAssumption ==
  \A s \in Schemas : s \in Seq(FieldType) /\ \A i \in 1..Len(s) :
    LET f == s[i]
    IN  /\ \A j \in {f.clause, f.offset, f.selector} \ {0} :
             /\ j \in 1..(i - 1)
             /\ ~s[j].extended /\ s[j].optional = "no" /\ s[j].kind = "number"
        /\ f.kind = "choice" => f.selector > 0 /\ \A k \in 1..Len(f.select) : f.select[k] =< Len(f.cases)
        /\ f.optional = "clause" => f.clause > 0
        /\ f.kind = "number" => f.cases = <<>>

\* A field that takes bits whenever it is present.
TakesBits(f) ==
  \/ f.optional = "auto" \/ f.kind = "union" \/ (f.kind = "number" /\ f.bits > 0)
  \/ f.kind = "choice" /\ (\A k \in 1..Len(f.cases) : f.cases[k] > 0)
                       /\ (\A v \in 1..Len(f.select) : f.select[v] > 0)

\* What the functions rely on: alignments and values that one call of the writer or the reader
\* moves by, an offset in a field that is of no other use, extended fields at the end, and none
\* of them that is aligned to more than a byte and takes no bits.
Plain(s) ==
  \A i, j \in 1..Len(s) :
    /\ s[i].alignment =< 64 /\ s[i].bits =< 64 /\ Len(s[i].cases) =< 256
    /\ s[i].offset # 0 => s[i].offset \notin {s[j].clause, s[j].selector}
    /\ s[i].offset # 0 /\ s[i].offset = s[j].offset => i = j
    /\ s[i].extended /\ i =< j => s[j].extended
    /\ s[i].extended => s[i].alignment \in {0, 1, 2, 4, 8} \/ TakesBits(s[i])

ASSUME CutsAssumption == Cuts \subseteq Nat /\ Reused \subseteq BOOLEAN

VARIABLES
  fields,       \* the schema
  known,        \* the number of fields the program at work knows
  object,       \* the object at work: [present, set, value, tag] for each field
  operation,    \* the function at work, or the last one
  status,       \* "busy", "done" or "thrown"
  index,        \* the number of fields done
  numExtendedFields,  \* the extended fields validate has met
  endBitPosition,     \* the bit position of bitSizeOf or initializeOffsets
  bitSize,      \* their result, the size of the buffer
  bits,         \* the bits written
  places,       \* history: the bit positions of the values written
  buffer,       \* the bits to read from
  bitPosition,  \* the bit position of the reader
  sent          \* history: what went through the buffer, and how

vars == <<fields, known, object, operation, status, index, numExtendedFields, endBitPosition,
          bitSize, bits, places, buffer, bitPosition, sent>>

Nothing == [known |-> 0, cut |-> 0, object |-> <<>>, bits |-> <<>>]

-------------------------------------------------------------------------------

\* alignTo(a, p) of BitPositionUtil.h
AlignTo(a, p) == IF p > 0 /\ a # 0 THEN ((p - 1) \div a + 1) * a ELSE p

\* The schema versions: a version lacks extended fields at the end.
Versions == {n \in 1..Len(fields) : \A i \in (n + 1)..Len(fields) : fields[i].extended}

IsPresent(o, i) == fields[i].extended => o[i].present
IsSet(o, i) == fields[i].optional = "no" \/ o[i].set
IsUsed(o, i) == o[fields[i].clause].value = 1

\* The case that the selector asks of choice i; a value without a case matches none.
NoMatch == -1
Selected(o, i) ==
  LET v == o[fields[i].selector].value
  IN  IF v < Len(fields[i].select) THEN fields[i].select[v + 1] ELSE NoMatch

\* The size of what field i holds when its tag is t, behind the tag of a union.
CaseBits(i, t) ==
  IF fields[i].kind = "number" THEN fields[i].bits ELSE IF t = 0 THEN 0 ELSE fields[i].cases[t]

\* The tag of a union is a varsize, here of one byte.
TagBits(i) == IF fields[i].kind = "union" THEN 8 ELSE 0

ValueBits(i, t) == TagBits(i) + CaseBits(i, t)

HasValue(o, i) == fields[i].kind = "number" \/ o[i].tag # 0

Pow2[n \in Nat] == IF n = 0 THEN 1 ELSE 2 * Pow2[n - 1]

\* The number with the bits s, the first of which is the highest, and the n lowest bits of v.
NumOfBits(s) == LET num[k \in 0..Len(s)] == IF k = 0 THEN 0 ELSE 2 * num[k - 1] + s[k] IN num[Len(s)]
BitsOf(v, n) == [k \in 1..n |-> (v \div Pow2[n - k]) % 2]

\* The bits s and zeros up to bit position p; no bit is taken away.
PadTo(s, p) == s \o [k \in 1..(p - Len(s)) |-> 0]

\* The function name walks over the fields.
Begin(name) ==
  /\ operation' = name
  /\ status' = "busy"
  /\ index' = 0

Continue ==
  /\ index' = index + 1
  /\ status' = IF index + 1 = known THEN "done" ELSE "busy"

Busy(name) == operation = name /\ status = "busy"
Did(name) == operation = name /\ status = "done"

-------------------------------------------------------------------------------
(* validate                                                                *)

\* An extended field that is present comes after all of the extended ones before it.
Preceding(i) == Cardinality({j \in 1..i : fields[j].extended})

Gap(i, n) == n # Preceding(i)

Mismatch(i) == fields[i].optional = "clause" /\ IsUsed(object, i) # object[i].set

OutOfRange(i) == HasValue(object, i) /\ object[i].value >= Pow2[CaseBits(i, object[i].tag)]

\* Mutant of WrongCase: an empty choice is not checked.
WrongCaseSet(i) == fields[i].kind = "choice" /\ Selected(object, i) \notin {0, object[i].tag}

\* The tag is not the one the selector asks for, or a union has none.
WrongCase(i) ==
  \/ fields[i].kind = "choice" /\ object[i].tag # Selected(object, i)
  \/ fields[i].kind = "union" /\ object[i].tag = 0

Violated(o, i) == HasValue(o, i) /\ o[i].value \in fields[i].forbidden

ValidateField ==
  LET i == index + 1
      n == numExtendedFields + 1
      counts == fields[i].extended /\ object[i].present
      refused == /\ IsPresent(object, i)
                 /\ \/ counts /\ Gap(i, n)
                    \/ Mismatch(i)
                    \/ IsSet(object, i) /\ (WrongCase(i) \/ Violated(object, i) \/ OutOfRange(i))
  IN  /\ Busy("validate")
      /\ numExtendedFields' = IF counts THEN n ELSE numExtendedFields
      /\ \/ ~refused /\ Continue
         \/ refused /\ status' = "thrown" /\ UNCHANGED index
      /\ UNCHANGED <<fields, known, object, operation, endBitPosition, bitSize, bits, places,
                     buffer, bitPosition, sent>>

-------------------------------------------------------------------------------
(* bitSizeOf and initializeOffsets                                         *)

FlagEnd(i, p) == IF fields[i].optional = "auto" THEN p + 1 ELSE p

\* Where the value of field i starts whose flag, if it has one, ends at p.
ValueStart(i, p) ==
  LET q == AlignTo(fields[i].alignment, p)
  IN  IF fields[i].offset # 0 THEN AlignTo(8, q) ELSE q

\* Mutant of MeasureStart: an extended field is not moved to a byte.
MeasureStartUnaligned(i, p) == p

\* Where field i starts that is present.
MeasureStart(i, p) == IF fields[i].extended THEN AlignTo(8, p) ELSE p

\* Mutant of Measured: the value of an optional field is counted also when it is not set.
MeasuredUnset(i, p) ==
  IF IsPresent(object, i)
  THEN ValueStart(i, FlagEnd(i, MeasureStart(i, p))) + ValueBits(i, object[i].tag)
  ELSE p

Measured(i, p) ==
  IF ~IsPresent(object, i) THEN p
  ELSE LET q == FlagEnd(i, MeasureStart(i, p))
       IN  IF IsSet(object, i) THEN ValueStart(i, q) + ValueBits(i, object[i].tag) ELSE q

\* The bits of the C++ type of a field, which the byte offset is cast to.
ValueTypeBits(i) == CHOOSE n \in {8, 16, 32, 64} :
                      n >= fields[i].bits /\ \A m \in {8, 16, 32, 64} : m < n => m < fields[i].bits

\* The offset of field i.
OffsetOf(i, p) ==
  (ValueStart(i, FlagEnd(i, MeasureStart(i, p))) \div 8) % Pow2[ValueTypeBits(fields[i].offset)]

\* offset.viewIndirectSetter = static_cast<ValueType>(endBitPosition / 8)
SetOffset(i, p) ==
  IF fields[i].offset # 0 /\ IsPresent(object, i) /\ IsSet(object, i)
  THEN [object EXCEPT ![fields[i].offset].value = OffsetOf(i, p)]
  ELSE object

MeasureField ==
  LET i == index + 1
  IN  /\ operation \in {"bitSizeOf", "initializeOffsets"}
      /\ status = "busy"
      /\ Continue
      /\ endBitPosition' = Measured(i, endBitPosition)
      /\ bitSize' = endBitPosition'
      /\ object' = IF operation = "bitSizeOf" THEN object ELSE SetOffset(i, endBitPosition)
      /\ UNCHANGED <<fields, known, operation, numExtendedFields, bits, places, buffer,
                     bitPosition, sent>>

InitializeOffsets ==
  /\ Did("validate")
  /\ Begin("initializeOffsets")
  /\ endBitPosition' = 0
  /\ UNCHANGED <<fields, known, object, numExtendedFields, bitSize, bits, places, buffer,
                 bitPosition, sent>>

-------------------------------------------------------------------------------
(* write                                                                   *)

Write ==
  /\ Did("initializeOffsets") \/ Did("bitSizeOf")
  /\ Begin("write")
  /\ bits' = <<>>
  /\ places' = [i \in 1..known |-> 0]
  /\ UNCHANGED <<fields, known, object, numExtendedFields, endBitPosition, bitSize, buffer,
                 bitPosition, sent>>

\* The bits after writer.alignTo(8) of an extended field and the flag of an auto optional.
FlagWritten(i) ==
  LET s == IF fields[i].extended THEN PadTo(bits, AlignTo(8, Len(bits))) ELSE bits
  IN  IF fields[i].optional # "auto" THEN s
      ELSE Append(s, IF object[i].set THEN 1 ELSE 0)

\* The padding that alignTo of the writer and of the reader counts in a uint8_t.
Skip(i, p) == IF fields[i].alignment = 0 THEN 0
              ELSE (AlignTo(fields[i].alignment, p) - p) % 256

\* writeUnsignedBits64 and readUnsignedBits64 refuse more than 64 bits.
CanSkip(i, p) == Skip(i, p) =< 64

\* Where alignTo and alignTo(8) take a writer or a reader in front of the value.
StreamStart(i, p) == IF fields[i].offset # 0 THEN AlignTo(8, p + Skip(i, p)) ELSE p + Skip(i, p)

AlignedToValue(i, s) == PadTo(s, StreamStart(i, Len(s)))

\* The tag of a union and the value.
ValueWritten(i) ==
  BitsOf(object[i].tag - 1, TagBits(i)) \o BitsOf(object[i].value, CaseBits(i, object[i].tag))

WriteField ==
  LET i == index + 1
      s == AlignedToValue(i, FlagWritten(i))
      written == IF ~IsPresent(object, i) THEN bits
                 ELSE IF IsSet(object, i) THEN s \o ValueWritten(i)
                 ELSE FlagWritten(i)
      refused == /\ IsPresent(object, i) /\ IsSet(object, i)
                 /\ OutOfRange(i) \/ ~CanSkip(i, Len(FlagWritten(i)))
  IN  /\ Busy("write")
      /\ \/ /\ ~refused /\ Len(written) =< bitSize
            /\ Continue
            /\ bits' = written
            /\ places' = [places EXCEPT ![i] = Len(s)]
         \/ /\ refused \/ Len(written) > bitSize
            /\ status' = "thrown"
            /\ UNCHANGED <<index, bits, places>>
      /\ UNCHANGED <<fields, known, object, operation, numExtendedFields, endBitPosition, bitSize,
                     buffer, bitPosition, sent>>

-------------------------------------------------------------------------------
(* deserialize: read                                                       *)

\* The object the constructor makes: extended fields are present by default.
Fresh(n) == [i \in 1..n |-> [present |-> TRUE, set |-> FALSE, value |-> 0, tag |-> 0]]

\* Objects that were read into before.
Used(n) == {[i \in 1..n |-> [present |-> ~fields[i].extended \/ p,
                              set |-> fields[i].optional # "no",
                              value |-> IF CaseBits(i, Len(fields[i].cases)) = 0 THEN 0 ELSE 1,
                              tag |-> Len(fields[i].cases)]] : p \in Reused}

\* A program that knows n fields reads the bits, of which d are lost, into the object
\* target.  A vector of bytes has as many zeros at its end as it takes to fill a byte.
Deserialize(n, target, d, rounded) ==
  /\ Did("write")
  /\ sent = Nothing
  /\ d =< Len(bits)
  /\ LET whole == PadTo(bits, IF rounded THEN AlignTo(8, bitSize) ELSE bitSize)
     IN  buffer' = SubSeq(whole, 1, Len(whole) - d)
  /\ sent' = [known |-> known, object |-> object, bits |-> bits, cut |-> d]
  /\ known' = n
  /\ object' = target
  /\ bitPosition' = 0
  /\ Begin("read")
  /\ UNCHANGED <<fields, numExtendedFields, endBitPosition, bitSize, bits, places>>

\* Whether an extended field is left in the buffer at position p.
HasMore(p) == AlignTo(8, p) < Len(buffer)

ReadStart(i) == IF fields[i].extended THEN AlignTo(8, bitPosition) ELSE bitPosition

\* Mutant of WillRead: the flag is looked for in the object.
WillReadOld(i) == fields[i].optional = "auto" => object[i].set

\* Whether the value of field i is read: its flag, or its clause in the object read so far.
WillRead(i) ==
  CASE fields[i].optional = "no" -> TRUE
    [] fields[i].optional = "auto" -> buffer[ReadStart(i) + 1] = 1
    [] fields[i].optional = "clause" -> IsUsed(object, i)

\* data.field.reset()
Reset(i) == [object[i] EXCEPT !.set = FALSE, !.value = 0, !.tag = 0]

\* Mutant of Absent: the flag of the object is left as it was.
AbsentUnchanged(i) == object[i]

\* data.field.setPresent(false)
Absent(i) == [object[i] EXCEPT !.present = FALSE]

\* What field i is when its value is about to be read: an optional one is emplaced.
Emplaced(i) == IF fields[i].optional = "no" THEN object[i]
               ELSE [object[i] EXCEPT !.set = TRUE, !.value = 0, !.tag = 0]

\* The case of field i: that of the selector in the object read so far, or that of the tag
\* at position p.
ReadTag(i, p) ==
  CASE fields[i].kind = "choice" -> Selected(object, i)
    [] fields[i].kind = "union" /\ p + TagBits(i) =< Len(buffer) ->
         NumOfBits(SubSeq(buffer, p + 1, p + TagBits(i))) + 1
    [] OTHER -> 0

\* The case of field i is empty, and read does nothing.
EmptyCase(i) == fields[i].kind = "choice" /\ Selected(object, i) = 0

\* Field i as read from position p. The presence of an extended field is not touched, and
\* neither is the variant of a choice whose case is empty.
Filled(i, p) ==
  LET t == ReadTag(i, p)
      start == p + TagBits(i)
  IN  IF EmptyCase(i)
      THEN Emplaced(i)
      ELSE [Emplaced(i) EXCEPT !.tag = t,
                               !.value = NumOfBits(SubSeq(buffer, start + 1, start + CaseBits(i, t)))]

\* The value of field i cannot be read from position p: its tag or its selector is not known,
\* or its bits are not there.
Unreadable(i, p) ==
  \/ p + TagBits(i) > Len(buffer)
  \/ ReadTag(i, p) \notin 0..Len(fields[i].cases)
  \/ p + ValueBits(i, ReadTag(i, p)) > Len(buffer)

\* The constraint of field i is broken by what is read from position p.
Refused(i, p) == ~EmptyCase(i) /\ Violated([object EXCEPT ![i] = Filled(i, p)], i)

\* What the exception leaves of it: the old value, or the case without one.
Unfilled(i, p) ==
  {Emplaced(i)} \cup
  {[Emplaced(i) EXCEPT !.tag = t, !.value = 0] : t \in {ReadTag(i, p)} \cap 1..Len(fields[i].cases)}

ReadField ==
  LET i == index + 1
      q == FlagEnd(i, ReadStart(i))
      p == StreamStart(i, q)
  IN  /\ Busy("read")
      /\ \/ /\ fields[i].extended /\ ~HasMore(bitPosition)
            /\ object' = [object EXCEPT ![i] = Absent(i)]
            /\ Continue
            /\ UNCHANGED bitPosition
         \/ /\ fields[i].extended => HasMore(bitPosition)
            /\ IF q > Len(buffer)
               THEN status' = "thrown" /\ UNCHANGED <<index, object, bitPosition>>
               ELSE IF ~WillRead(i)
               THEN object' = [object EXCEPT ![i] = Reset(i)] /\ bitPosition' = q /\ Continue
               ELSE IF ~CanSkip(i, q) \/ Unreadable(i, p)
               THEN /\ \E left \in Unfilled(i, p) : object' = [object EXCEPT ![i] = left]
                    /\ status' = "thrown"
                    /\ UNCHANGED <<index, bitPosition>>
               ELSE /\ object' = [object EXCEPT ![i] = Filled(i, p)]
                    /\ bitPosition' = p + ValueBits(i, ReadTag(i, p))
                    /\ \/ ~Refused(i, p) /\ Continue
                       \/ Refused(i, p) /\ status' = "thrown" /\ UNCHANGED index
      /\ UNCHANGED <<fields, known, operation, numExtendedFields, endBitPosition, bitSize, bits,
                     places, buffer, sent>>

-------------------------------------------------------------------------------
(* serialize what was read: as a view it is validated again, as a DataView *)
(* it is only measured.                                                    *)

\* Mutant of SerializeView: the extended fields are counted on from where it was.
SerializeViewCountingOn ==
  /\ Did("read")
  /\ Begin("validate")
  /\ UNCHANGED <<fields, known, object, numExtendedFields, endBitPosition, bitSize, bits, places,
                 buffer, bitPosition, sent>>

SerializeView ==
  /\ Did("read")
  /\ Begin("validate")
  /\ numExtendedFields' = 0
  /\ UNCHANGED <<fields, known, object, endBitPosition, bitSize, bits, places, buffer,
                 bitPosition, sent>>

SerializeDataView ==
  /\ Did("read")
  /\ Begin("bitSizeOf")
  /\ endBitPosition' = 0
  /\ UNCHANGED <<fields, known, object, numExtendedFields, bitSize, bits, places, buffer,
                 bitPosition, sent>>

-------------------------------------------------------------------------------

\* What a field may be given: a field that is not extended is present, an optional field
\* that is not set has no value.
FieldObjects(f) ==
  {x \in [present : BOOLEAN, set : BOOLEAN, value : f.values, tag : 0..Len(f.cases)] :
     /\ ~f.extended => x.present
     /\ f.optional = "no" => ~x.set
     /\ f.optional # "no" /\ ~x.set => x.tag = 0
     /\ (f.optional # "no" /\ ~x.set) \/ (f.kind # "number" /\ x.tag = 0)
        => x.value = (CHOOSE v \in f.values : TRUE)}

Objects(n) ==
  LET o[i \in 0..n] == IF i = 0 THEN {<<>>}
                       ELSE {Append(s, x) : s \in o[i - 1], x \in FieldObjects(fields[i])}
  IN  o[n]

Init ==
  /\ fields \in Schemas
  /\ known \in Versions
  /\ object \in Objects(known)
  /\ operation = "validate"
  /\ status = "busy"
  /\ index = 0
  /\ numExtendedFields = 0
  /\ endBitPosition = 0
  /\ bitSize = 0
  /\ bits = <<>>
  /\ places = <<>>
  /\ buffer = <<>>
  /\ bitPosition = 0
  /\ sent = Nothing

Targets(n) == {Fresh(n)} \cup Used(n)

Next ==
  \/ ValidateField
  \/ InitializeOffsets
  \/ MeasureField
  \/ Write
  \/ WriteField
  \/ \E n \in Versions, d \in Cuts, r \in BOOLEAN :
       \E target \in Targets(n) : Deserialize(n, target, d, r)
  \/ ReadField
  \/ SerializeView
  \/ SerializeDataView

Spec == Init /\ [][Next]_vars

-------------------------------------------------------------------------------
(* Properties.                                                             *)

Extended(n) == {i \in 1..n : fields[i].extended}

TypeOK ==
  /\ fields \in Schemas
  /\ known \in Versions
  /\ \A i \in 1..known :
       /\ {object[i].present, object[i].set} \subseteq BOOLEAN
       /\ object[i].value \in Nat /\ object[i].tag \in 0..Len(fields[i].cases)
  /\ operation \in {"validate", "initializeOffsets", "bitSizeOf", "write", "read"}
  /\ status \in {"busy", "done", "thrown"}
  /\ index \in 0..known
  /\ numExtendedFields =< Cardinality(Extended(Len(fields)))
  /\ Len(bits) =< bitSize \/ operation # "write"
  /\ bitPosition =< Len(buffer)

\* Field i holds the byte offset of one of n fields.
IsOffset(i, n) == \E j \in 1..n : fields[j].offset = i

\* A choice whose case is empty keeps the variant of the object it was read into.
Leftover(i) ==
  /\ fields[i].kind = "choice" /\ fields[i].optional = "no"
  /\ Selected(object, i) = 0
  /\ sent # Nothing

\* No variant of the object before is left in an empty choice. A DataView would write it.
NothingLeft == \A i \in 1..known : Leftover(i) => object[i].tag = 0

\* The buffer that initializeOffsets or bitSizeOf has measured is filled exactly by write,
\* and an offset field whose C++ type can hold it holds the byte its field is written at:
\* three walks over the fields, each with its own account of flags and alignments, agree. The
\* offsets a DataView writes are those that were read, which a left variant belies.
LayoutAgrees ==
  Did("write") =>
    /\ Len(bits) = bitSize
    /\ \A i \in 1..known :
         LET holder == fields[i].offset
         IN  /\ holder # 0 /\ IsPresent(object, i) /\ IsSet(object, i) /\ NothingLeft
             /\ places[i] \div 8 < Pow2[ValueTypeBits(holder)]
             => 8 * object[holder].value = places[i]

\* What validate has accepted is written, and no constraint of the schema is broken by what
\* is written. Both hold but for offset fields, which are set after validate has seen them.
ValidIsWritten ==
  /\ operation = "write" /\ status = "thrown"
     => \E i \in 1..known : IsOffset(i, known) /\ OutOfRange(i)
  /\ Did("write") => \A i \in 1..known :
       ~IsOffset(i, known) /\ IsPresent(object, i) /\ IsSet(object, i)
       => Leftover(i) \/ (~Violated(object, i) /\ ~WrongCase(i))

\* Whether extended field i leaves a trace in the stream: an extended field that takes no
\* bits, and is not followed by one that does, is not seen by the reader.
LeavesTrace(o, n, i) ==
  \E j \in Extended(n) :
    /\ j >= i
    /\ o[j].present
    /\ fields[j].optional = "auto" \/ (IsSet(o, j) /\ ValueBits(j, o[j].tag) > 0)

\* Field i was read as it was sent, or is missing as it was not.
FieldArrived(i) ==
  LET was == sent.object
  IN  IF fields[i].extended /\ ~LeavesTrace(was, sent.known, i)
      THEN ~object[i].present
      ELSE /\ object[i].present
           /\ fields[i].optional # "no" => object[i].set = was[i].set
           /\ IsSet(was, i) => \/ /\ object[i].tag = was[i].tag
                                 /\ HasValue(was, i) => object[i].value = was[i].value
                              \/ Leftover(i)

\* An object that is sent between two programs, of the same schema version or not, into a
\* bit buffer or a vector of bytes, into a new object or over an old one, is accepted by the
\* reader's own checks and arrives. An offset that breaks the constraint of its field is
\* the one thing that is written and refused when it is read.
RoundTrip ==
  operation = "read" /\ sent.cut = 0
  => /\ status = "thrown" => \E i \in 1..known : IsOffset(i, sent.known) /\ Violated(object, i)
     /\ status = "done" => \A i \in 1..known : FieldArrived(i)

\* If bits are lost and the reader does not notice, all it misses are extended fields at
\* the end; and an object that was read, also a shortened one or one over an old object,
\* passes validate, but for what is left over in an empty choice.
CutReadsPrefix ==
  /\ Did("read") => \E n \in 0..known :
       \A i \in 1..known : IF i =< n THEN FieldArrived(i) ELSE ~object[i].present
  /\ operation = "validate" /\ status = "thrown" => sent = Nothing \/ \E i \in 1..known : Leftover(i)

\* An object that was read is written as the bits it was read from, by a DataView, which
\* neither validates it nor sets its offsets, as well as by a View; an older program
\* writes a beginning of them. A variant that is left over in an empty choice is written.
SameBits ==
  Did("write") /\ sent # Nothing /\ NothingLeft
  => /\ IsPrefix(bits, sent.bits)
     /\ known >= sent.known /\ sent.cut = 0
        => \A k \in (Len(bits) + 1)..Len(sent.bits) : sent.bits[k] = 0

\* alignTo moves to the alignment asked for: the value of an aligned field is written at a
\* multiple of its alignment.
AlignmentReached ==
  operation = "write" => \A i \in 1..index :
    fields[i].alignment # 0 /\ IsPresent(object, i) /\ IsSet(object, i)
    => places[i] % fields[i].alignment = 0

\* A field that was read from the stream is present, one that was not is not.
PresenceIsRead ==
  Did("read") /\ sent.cut = 0
  => \A i \in Extended(known) : object[i].present = LeavesTrace(sent.object, sent.known, i)
===============================================================================
