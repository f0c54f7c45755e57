----------------------------- MODULE JsonDocument -----------------------------
(***************************************************************************)
(* What a JSON document stands for, from its structure alone: the object of   *)
(* a type that a reader returns for it, or none (Thrown).                    *)
(***************************************************************************)
EXTENDS JsonWriter

ObjectDoc(members) == [doc |-> "object", members |-> members]

ArrayDoc(elements) == [doc |-> "array", elements |-> elements]

ValueDoc(value) == [doc |-> "value", value |-> value]

Member(key, value) == [key |-> key, value |-> value]

RECURSIVE TokensOf(_), ObjectOf(_, _, _)

\* The tokens of parts with a separator between them.
Separated(parts) ==
    LET upTo[i \in 0..Len(parts)] ==
            CASE i = 0 -> <<>>
              [] i = 1 -> parts[1]
              [] OTHER -> Append(upTo[i - 1], Token("ITEM_SEPARATOR")) \o parts[i]
    IN  upTo[Len(parts)]

TokensOf(doc) ==
    CASE doc.doc = "value" -> <<ValueToken(doc.value)>>
      [] doc.doc = "array" ->
            <<Token("BEGIN_ARRAY")>>
                \o Separated([i \in DOMAIN doc.elements |-> TokensOf(doc.elements[i])])
                \o <<Token("END_ARRAY")>>
      [] doc.doc = "object" ->
            <<Token("BEGIN_OBJECT")>>
                \o Separated([i \in DOMAIN doc.members |->
                        <<ValueToken(JsonString(doc.members[i].key)), Token("KEY_SEPARATOR")>>
                            \o TokensOf(doc.members[i].value)])
                \o <<Token("END_OBJECT")>>

\* A value a field or an element may be set to, as the type takes it.
Converted(type, value) ==
    LET from(any) == IF any = Thrown THEN Thrown ELSE fromAny(type, any)
    IN  from(makeAnyValue(type, value))

IsByte(doc) == doc.doc = "value" /\ IsIntegerOfJson(doc.value) /\ doc.value.num <= 255

IsBytes(doc) == doc.doc = "array" /\ \A i \in DOMAIN doc.elements : IsByte(doc.elements[i])

\* {"buffer": [...], "bitSize": n}, in any order; the last one of a name counts.
BufferOf(type, members) ==
    LET good(m) == \/ m.key = "buffer" /\ IsBytes(m.value)
                   \/ /\ m.key = "bitSize" /\ Cpp(type) = <<"BIT_BUFFER", 0>>
                      /\ m.value.doc = "value" /\ IsIntegerOfJson(m.value.value)
        named(key) == {i \in DOMAIN members : members[i].key = key}
        last(key) == members[CHOOSE i \in named(key) : \A j \in named(key) : j <= i].value
        bytes == [i \in DOMAIN last("buffer").elements |-> last("buffer").elements[i].value.num]
    IN  CASE (\E i \in DOMAIN members : ~good(members[i])) \/ named("buffer") = {} -> Thrown
          [] (\A i \in DOMAIN members : good(members[i])) /\ named("buffer") # {} ->
                CASE Cpp(type) = <<"BYTES", 0>> -> Octets(bytes)
                  [] OTHER -> IF named("bitSize") = {} \/ last("bitSize").value.num > 8 * Len(bytes)
                              THEN Thrown ELSE BitBuffer(bytes, last("bitSize").value.num)

\* What is not an array: start is the object that an object's members are set in.
ItemOf(type, start, doc) ==
    CASE doc.doc = "object" ->
            CASE HasAdapter(type) -> BufferOf(type, doc.members)
              [] ~HasAdapter(type) /\ IsCompound(type) -> ObjectOf(type, start, doc.members)
              [] OTHER -> Thrown
      [] doc.doc = "value" -> IF doc.value = Null THEN Thrown ELSE Converted(type, doc.value)
      [] doc.doc = "array" -> Thrown

ElementsOf(type, elements) ==
    LET array(items) == IF \E i \in DOMAIN items : items[i] = Thrown THEN Thrown ELSE Node(ArrayKind, items)
    IN  array([i \in DOMAIN elements |-> ItemOf(type, Default[type], elements[i])])

\* The object with a member set. A structure within a structure keeps what has been set before;
\* a null is an optional field that is not set, or the default.
WithMember(type, node, member) ==
    LET field == FieldOf(type, member.key)
        kept == IF HasChoice(type) \/ field.isOptional THEN DefaultOf(field) ELSE node.at[member.key]
        with(value) == IF value = Thrown THEN Thrown ELSE Select(node, member.key, value)
    IN  CASE member.key \notin FieldNames(type) -> Thrown
          [] member.key \in FieldNames(type) /\ member.value = ValueDoc(Null) ->
                with(IF field.isOptional THEN Null ELSE DefaultOf(field))
          [] member.key \in FieldNames(type) /\ member.value # ValueDoc(Null) /\ field.isArray ->
                with(IF member.value.doc = "array" THEN ElementsOf(field.typeInfo, member.value.elements) ELSE Thrown)
          [] OTHER -> with(ItemOf(field.typeInfo, kept, member.value))

ObjectOf(type, start, members) ==
    LET upTo[i \in 0..Len(members)] ==
            IF i = 0 THEN start
            ELSE LET before == upTo[i - 1]
                 IN  IF before = Thrown THEN Thrown ELSE WithMember(type, before, members[i])
    IN  upTo[Len(members)]

\* The root is an object.
RootOf(doc) == IF doc.doc = "object" THEN ObjectOf(RootType, Default[RootType], doc.members) ELSE Thrown
-----------------------------------------------------------------------------
(* What becomes of an object that is written and read.                      *)

\* Whether an item of an enumeration has the value.
IsNamed(n) == n.node.kind = <<"ENUM", 0>> => n.node.num \in EnumValues(n.place.type)

IsReadable(type, whole) ==
    \A n \in NodesOf(type, whole) : IsNamed([node |-> Get(whole, n.path), place |-> n.place])

RECURSIVE Present(_, _)

\* An extended field that is absent is written as a null, and read as the default.
Present(type, node) ==
    IF "at" \notin DOMAIN node THEN node
    ELSE IF node.kind = ArrayKind
         THEN [node EXCEPT !.at = [i \in DOMAIN node.at |-> Present(type, node.at[i])]]
         ELSE [node EXCEPT !.at = [name \in DOMAIN node.at |->
                    IF node.at[name] # Absent
                    THEN Present(FieldOf(type, name).typeInfo, node.at[name])
                    ELSE IF FieldOf(type, name).isOptional THEN Null ELSE DefaultOf(FieldOf(type, name))]]
=============================================================================
