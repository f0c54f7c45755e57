------------------------------ MODULE JsonWriter ------------------------------
(***************************************************************************)
(* JsonWriter.h: an observer of the walker that writes JSON. What is written *)
(* is the sequence of its tokens: spaces, indents and flushes are left out.   *)
(* A separator is written in front of every item but the first one of an      *)
(* object or an array, which the writer keeps one flag for.                 *)
(***************************************************************************)
EXTENDS Walker, JsonReader

EnumerableFormats == {"STRING", "NUMBER"}

Writer(enumerableFormat) == [out |-> <<>>, isFirst |-> TRUE, enumerableFormat |-> enumerableFormat]

Put1(w, token) == [w EXCEPT !.out = Append(@, token)]

\* encodeIntegral and back: what is negative is read as a signed integer.
Encoded(n) == IF n < 0 THEN JsonInt(n) ELSE JsonUInt(n)

WriteNumber(w, n) == Put1(w, ValueToken(Encoded(n)))

BeginItem(w) == IF w.isFirst THEN w ELSE Put1(w, Token("ITEM_SEPARATOR"))

EndItem(w) == [w EXCEPT !.isFirst = FALSE]

BeginObject(w) == [Put1(w, Token("BEGIN_OBJECT")) EXCEPT !.isFirst = TRUE]

EndObject(w) == Put1(w, Token("END_OBJECT"))

BeginArray(w) == [Put1(w, Token("BEGIN_ARRAY")) EXCEPT !.isFirst = TRUE]

EndArray(w) == Put1(w, Token("END_ARRAY"))

WriteKey(w, name) == Put1(Put1(w, ValueToken(JsonString(name))), Token("KEY_SEPARATOR"))

\* The bytes of a buffer, an item each.
WriteOctets(w, octets) ==
    LET upTo[i \in 0..Len(octets)] ==
            IF i = 0 THEN BeginArray(WriteKey(BeginItem(BeginObject(w)), "buffer"))
                     ELSE EndItem(WriteNumber(BeginItem(upTo[i - 1]), octets[i]))
    IN  EndItem(EndArray(upTo[Len(octets)]))

WriteBytes(w, octets) == EndObject(WriteOctets(w, octets))

WriteBitBuffer(w, bits) ==
    EndObject(EndItem(WriteNumber(WriteKey(BeginItem(WriteOctets(w, bits.buffer)), "bitSize"), bits.bitSize)))

\* The name of an item, or the number with a remark.
StringifiedEnum(type, n) ==
    LET named == SelectSeq(Types[type].getEnumItems, LAMBDA i : i.value = n)
    IN  IF named # <<>> THEN <<Word(named[1].schemaName)>> ELSE <<Digits(n), Remark>>

\* The names of the items that are part of the value; when they are not all of it, or there is
\* none, the number with a remark.
StringifiedBitmask(type, n) ==
    LET parts == SelectSeq(Types[type].getBitmaskValues,
                           LAMBDA i : IF i.value = 0 THEN n = 0 ELSE BitOr(n, i.value) = n)
        joined[k \in 0..Len(parts)] ==
            IF k = 0 THEN [check |-> 0, names |-> <<>>]
            ELSE LET before == joined[k - 1]
                 IN  [check |-> BitOr(before.check, parts[k].value),
                      names |-> before.names \o (IF k = 1 THEN <<>> ELSE <<Bar>>) \o <<Word(parts[k].schemaName)>>]
        all == joined[Len(parts)]
    IN  IF all.names = <<>> \/ all.check # n THEN <<Digits(n), Remark>> ELSE all.names

WriteString(w, lexemes) == Put1(w, ValueToken(Str(lexemes)))

WriteEnum(w, type, n) ==
    IF w.enumerableFormat = "STRING" THEN WriteString(w, StringifiedEnum(type, n)) ELSE WriteNumber(w, n)

WriteBitmask(w, type, n) ==
    IF w.enumerableFormat = "STRING" THEN WriteString(w, StringifiedBitmask(type, n)) ELSE WriteNumber(w, n)

\* A floating point number is written so that it is read as one.
WriteValue(w, type, node) ==
    CASE node = Null -> Put1(w, ValueToken(Null))
      [] IsInt(node.kind) -> WriteNumber(w, node.num)
      [] node.kind = <<"BOOL", 0>> -> Put1(w, ValueToken(node))
      [] node.kind \in {<<"FLOAT", 0>>, <<"DOUBLE", 0>>} -> Put1(w, ValueToken(Num(<<"DOUBLE", 0>>, node.num)))
      [] node.kind = <<"STRING", 0>> -> WriteString(w, node.str)
      [] node.kind = <<"BYTES", 0>> -> WriteBytes(w, node.bits)
      [] node.kind = <<"BIT_BUFFER", 0>> -> WriteBitBuffer(w, node.bits)
      [] node.kind = <<"ENUM", 0>> -> WriteEnum(w, type, node.num)
      [] node.kind = <<"BITMASK", 0>> -> WriteBitmask(w, type, node.num)

\* Elements have no key.
WriteItemKey(w, at) ==
    IF at.index = WALKER_NOT_ELEMENT THEN WriteKey(BeginItem(w), at.field.schemaName) ELSE BeginItem(w)

Write(w, call) ==
    CASE call.call = "beginArray" -> BeginArray(WriteKey(BeginItem(w), call.at.field.schemaName))
      [] call.call = "endArray" -> EndItem(EndArray(w))
      [] call.call = "beginCompound" -> BeginObject(WriteItemKey(w, call.at))
      [] call.call = "endCompound" -> EndItem(EndObject(w))
      [] call.call = "visitValue" -> EndItem(WriteValue(WriteItemKey(w, call.at), call.at.field.typeInfo, call.at.node))

\* The tokens of a root, from beginRoot to endRoot.
Written(calls, enumerableFormat) ==
    LET upTo[i \in 0..Len(calls)] ==
            IF i = 0 THEN BeginObject(Writer(enumerableFormat)) ELSE Write(upTo[i - 1], calls[i])
    IN  EndObject(upTo[Len(calls)]).out
=============================================================================
