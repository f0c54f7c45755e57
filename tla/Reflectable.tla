----------------------------- MODULE Reflectable -----------------------------
(***************************************************************************)
(* Reflectable data (ReflectableData.h, ReflectableUtil.h and the classes   *)
(* Reflectable.inc.ftl generates): the objects of a schema, seen through     *)
(* names, indexes and type information.                                    *)
(*                                                                         *)
(* Types maps the names of the types to their type information. A field    *)
(* names its type, as RecursiveTypeInfo does, so a schema may be recursive. *)
(***************************************************************************)
EXTENDS TypeInfo, DataTree, SequencesExt

CONSTANTS
    Types,      \* the type information of every name
    MaxDepth    \* the depth of the deepest tree looked at

ASSUME MaxDepthAssumption == MaxDepth \in Nat

Cpp(type) == Info(Types, type).getCppType

IsCompound(type) == isCompoundCpp(Cpp(type))

HasChoice(type) == hasChoiceCpp(Cpp(type))

\* Every type with fields: find_if over getFields(), which throws for all other types.
FieldsOf(type) == Info(Types, type).getFields

FieldNames(type) == {FieldsOf(type)[i].schemaName : i \in DOMAIN FieldsOf(type)}

\* The names of the fields of a type differ.
FieldOf(type, name) ==
    FieldsOf(type)[CHOOSE i \in DOMAIN FieldsOf(type) : FieldsOf(type)[i].schemaName = name]

FieldInfos ==
    [schemaName : STRING, typeInfo : DOMAIN Types, isArray : BOOLEAN, isOptional : BOOLEAN,
     isExtended : BOOLEAN]

\* The types of what an object of a type has in place: its fields that are no arrays and not optional.
Contained(type) ==
    IF IsCompound(type) /\ ~HasChoice(type)
    THEN {f.typeInfo : f \in {g \in Range(FieldsOf(type)) : ~g.isOptional /\ ~g.isArray}}
    ELSE {}

\* Type information as the code generator emits it. Nothing has itself in place, however deep: a C++
\* class is no member of its own.
ASSUME TypesAssumption ==
    /\ \A type \in DOMAIN Types :
          /\ Cpp(type) \in CppTypes
          /\ IsCompound(type) => FieldsOf(type) \in Seq(FieldInfos)
          /\ Cpp(type) \in Simple({"ENUM", "BITMASK"}) =>
                Cpp(Types[type].getUnderlyingType) \in {"INT", "UINT"} \X StdWidths
    /\ \A types \in (SUBSET DOMAIN Types) \ {{}} :
          \E type \in types : Contained(type) \intersect types = {}
-----------------------------------------------------------------------------
(* Default-constructed values.                                             *)

\* Values, and choices: nothing is selected.
DefaultLeaf(cpp) ==
    CASE hasChoiceCpp(cpp) -> Node(cpp, EmptyAt)
      [] cpp = <<"STRING", 0>> -> Str(<<>>)
      [] cpp = <<"BIT_BUFFER", 0>> -> Bits([buffer |-> <<>>, bitSize |-> 0])
      [] cpp = <<"BYTES", 0>> -> Octets(<<>>)
      [] OTHER -> Num(cpp, 0)

\* T(): the fields of a structure are default-constructed.
Default[type \in DOMAIN Types] ==
    IF IsCompound(type) /\ ~HasChoice(type)
    THEN Node(Cpp(type), [name \in FieldNames(type) |->
            LET f == FieldOf(type, name)
            IN  CASE f.isOptional -> Null
                  [] ~f.isOptional /\ f.isArray -> Node(ArrayKind, <<>>)
                  [] OTHER -> Default[f.typeInfo]])
    ELSE DefaultLeaf(Cpp(type))

\* What a field is created as.
DefaultOf(field) == IF field.isArray THEN Node(ArrayKind, <<>>) ELSE Default[field.typeInfo]

\* TypeInfo::createInstance
createInstance(type) == Default[type]
-----------------------------------------------------------------------------
(* ReflectableUtil::fromAny: the type an Any holds must be the type of the   *)
(* field, or the underlying type of an enumeration or a bitmask.            *)

EnumValues(type) == {Types[type].getEnumItems[i].value : i \in DOMAIN Types[type].getEnumItems}

fromAny(type, any) ==
    LET cpp == Cpp(type)
    IN  CASE any.kind = cpp -> any
          [] cpp = <<"BITMASK", 0>> /\ any.kind = Cpp(Types[type].getUnderlyingType) ->
                Num(cpp, any.num)
          [] cpp = <<"ENUM", 0>> /\ any.kind = Cpp(Types[type].getUnderlyingType)
                /\ any.num \in EnumValues(type) -> Num(cpp, any.num)
          [] OTHER -> Thrown
-----------------------------------------------------------------------------
(* The fields of a compound.                                               *)

\* Mutant of Select: the case that was selected before is kept.
SelectBesides(node, name, value) ==
    [node EXCEPT !.at = [n \in DOMAIN node.at \union {name} |-> IF n = name THEN value ELSE node.at[n]]]

\* A choice has the field that is set and no other one.
Select(node, name, value) ==
    IF node.kind = <<"STRUCT", 0>>
    THEN [node EXCEPT !.at[name] = value]
    ELSE [node EXCEPT !.at = [n \in {name} |-> value]]

\* The child, Null for an optional field that is not set or an extended one that is absent,
\* Thrown for a name the type does not have and for a case that is not the selected one.
getField(type, node, name) ==
    CASE name \notin FieldNames(type) -> Thrown
      [] name \in FieldNames(type) /\ name \notin DOMAIN node.at -> Thrown
      [] OTHER -> IF node.at[name] = Absent THEN Null ELSE node.at[name]

getChoice(node) == CHOOSE name \in DOMAIN node.at : TRUE

\* The node after createField: the new value replaces the old one. The presence of an
\* extended field is left as it is.
createField(type, node, name) ==
    CASE name \notin FieldNames(type) -> Thrown
      [] name \in FieldNames(type) /\ name \in DOMAIN node.at /\ node.at[name] = Absent -> node
      [] OTHER -> Select(node, name, DefaultOf(FieldOf(type, name)))

\* The node after setField. A structure takes a null for an optional field only.
setField(type, node, name, any) ==
    LET f == FieldOf(type, name)
    IN  CASE name \notin FieldNames(type) -> Thrown
          [] name \in FieldNames(type) /\ any = Null /\ f.isOptional /\ ~HasChoice(type) ->
                Select(node, name, Null)
          [] name \in FieldNames(type) /\ ~(any = Null /\ f.isOptional /\ ~HasChoice(type)) ->
                IF f.isArray \/ fromAny(f.typeInfo, any) = Thrown
                THEN Thrown
                ELSE Select(node, name, fromAny(f.typeInfo, any))
-----------------------------------------------------------------------------
(* The elements of an array; type is the type of an element.                *)

\* Mutant of resize: the elements are created anew.
resizeAnew(type, node, size) == [node EXCEPT !.at = [i \in 1..size |-> Default[type]]]

resize(type, node, size) ==
    [node EXCEPT !.at = [i \in 1..size |-> IF i <= Len(node.at) THEN node.at[i] ELSE Default[type]]]

append(type, node, any) ==
    LET value == fromAny(type, any)
    IN  IF value = Thrown THEN Thrown ELSE [node EXCEPT !.at = Append(@, value)]
-----------------------------------------------------------------------------
\* find(): the fields named by a path with dots. Nothing is found below an array, below a value,
\* in a case that is not selected and below what is not set.
FindFrom(type, tree, names) ==
    LET found[i \in 0..Len(names)] ==
            IF i = 0
            THEN [type |-> type, node |-> tree]
            ELSE LET from == found[i - 1]
                     child == getField(from.type, from.node, names[i])
                 IN  IF isCompoundCpp(from.node.kind) /\ child # Thrown
                     THEN [type |-> FieldOf(from.type, names[i]).typeInfo, node |-> child]
                     ELSE [type |-> from.type, node |-> Null]
    IN  found[Len(names)].node
-----------------------------------------------------------------------------
(* What the tree of an object of a type looks like.                         *)

\* The field, the element or the root a path leads to: its type, and whether it is an array,
\* optional or extended.
Place(type, isArray, isOptional, isExtended) ==
    [type |-> type, isArray |-> isArray, isOptional |-> isOptional, isExtended |-> isExtended]

PlaceOf(field) == Place(field.typeInfo, field.isArray, field.isOptional, field.isExtended)

RootPlace(type) == Place(type, FALSE, FALSE, FALSE)

PlaceBelow(place, key) ==
    IF place.isArray THEN Place(place.type, FALSE, FALSE, FALSE)
                     ELSE PlaceOf(FieldOf(place.type, key))

PlaceAt(type, path) ==
    LET place[i \in 0..Len(path)] ==
            IF i = 0 THEN RootPlace(type) ELSE PlaceBelow(place[i - 1], path[i])
    IN  place[Len(path)]

LeafFits(type, node) ==
    /\ node.kind = Cpp(type)
    /\ Cpp(type) = <<"ENUM", 0>> => node.num \in EnumValues(type) \union {0}

NodeFits(place, node) ==
    CASE node = Null -> place.isOptional
      [] node = Absent -> place.isExtended
      [] OTHER ->
            CASE place.isArray -> node.kind = ArrayKind
              [] ~place.isArray /\ IsCompound(place.type) ->
                    /\ node.kind = Cpp(place.type)
                    /\ DOMAIN node.at \subseteq FieldNames(place.type)
                    /\ HasChoice(place.type) => \A m, n \in DOMAIN node.at : m = n
                    /\ ~HasChoice(place.type) => DOMAIN node.at = FieldNames(place.type)
              [] OTHER -> LeafFits(place.type, node)

\* The nodes at a depth of at most MaxDepth below the root: where each one is, and the place.
NodesOf(type, tree) ==
    LET level[d \in 0..MaxDepth] ==
            IF d = 0
            THEN {[path |-> <<>>, place |-> RootPlace(type)]}
            ELSE UNION {{[path |-> Append(n.path, key), place |-> PlaceBelow(n.place, key)] :
                            key \in KeysOf(Get(tree, n.path))} : n \in level[d - 1]}
    IN  UNION {level[d] : d \in 0..MaxDepth}

\* Every node of the tree is what the type of its place says.
Fits(type, tree) == \A n \in NodesOf(type, tree) : NodeFits(n.place, Get(tree, n.path))
=============================================================================
