---------------------------- MODULE Introspection ----------------------------
(***************************************************************************)
(* The interface of reflectable data and of introspectable views            *)
(* (IIntrospectableData.h, IReflectableData.h, IIntrospectableView.h): both   *)
(* show an object through the same operations, and each is implemented by a  *)
(* hierarchy of classes of its own (ReflectableData.h, IntrospectableView.h). *)
(*                                                                         *)
(* A class is the set of the operations it overrides with an answer. All the *)
(* others are those of IntrospectableDataBase, which throw. An operation is  *)
(* a pair of a name and a width, 0 when the name says all.                   *)
(***************************************************************************)
EXTENDS Reflectable

CONSTANTS
    Arguments,  \* for every type, the values of its parameters in the view looked at
    Results     \* for every type, the results of its functions

GetInt(width) == <<"getInt", width>>

GetUInt(width) == <<"getUInt", width>>

FieldOperations == Simple({"getField", "getChoice"})

ArrayOperations == Simple({"size", "at", "[]"})

AnyOperations == Simple({"getAnyValue"})

Getters ==
    ({"getInt", "getUInt"} \X StdWidths)
        \union Simple({"getBool", "getFloat", "getDouble", "getBytes", "getStringView", "getBitBuffer"})

Conversions == Simple({"toInt", "toUInt", "toDouble", "toString"})

FindOperations == Simple({"find", "find[]"})

\* What only reflectable data has, and what only a view has.
ReflectableOperations == Simple({"setField", "createField", "resize", "setAt", "append"})

ViewOperations == Simple({"getParameter", "callFunction", "serialize"})

AllOperations ==
    FieldOperations \union ArrayOperations \union AnyOperations \union Getters \union Conversions
        \union FindOperations \union ReflectableOperations \union ViewOperations

\* The base class answers for the type only.
IntrospectableDataBase == Simple({"getTypeInfo", "isArray"})

Throwing(class) == AllOperations \ class
-----------------------------------------------------------------------------
(* Reflectable data.                                                       *)

\* find() is caught: it returns null where another operation throws.
ReflectableDataBase == IntrospectableDataBase \union FindOperations

BuiltinReflectable == ReflectableDataBase \union AnyOperations

IntegralReflectable == BuiltinReflectable \union Simple({"toDouble", "toString"})

SignedReflectable == IntegralReflectable \union Simple({"toInt"})

UnsignedReflectable == IntegralReflectable \union Simple({"toUInt"})

BoolReflectable == UnsignedReflectable \union Simple({"getBool"})

IntReflectable(width) == SignedReflectable \union {GetInt(width)}

UIntReflectable(width) == UnsignedReflectable \union {GetUInt(width)}

FloatingReflectable == BuiltinReflectable \union Simple({"toDouble"})

FloatReflectable == FloatingReflectable \union Simple({"getFloat"})

DoubleReflectable == FloatingReflectable \union Simple({"getDouble"})

BytesReflectable == BuiltinReflectable \union Simple({"getBytes"})

StringReflectable == BuiltinReflectable \union Simple({"getStringView", "toString"})

BitBufferReflectable == BuiltinReflectable \union Simple({"getBitBuffer"})

ReflectableConstArray == ReflectableDataBase \union ArrayOperations \union AnyOperations

ReflectableArray == ReflectableConstArray \union Simple({"resize", "setAt", "append"})

\* What reflectable() makes of a value: the overload for its wrapper, by the size of the integer.
reflectable(schemaType, width) ==
    CASE schemaType[1] \in {"INT", "DYNAMIC_SIGNED_BITFIELD"} \union SignedVar -> IntReflectable(width)
      [] schemaType[1] \in {"UINT", "DYNAMIC_UNSIGNED_BITFIELD"} \union UnsignedVar -> UIntReflectable(width)
      [] schemaType[1] = "BOOL" -> BoolReflectable
      [] schemaType[1] \in {"FLOAT16", "FLOAT32"} -> FloatReflectable
      [] schemaType[1] = "FLOAT64" -> DoubleReflectable
      [] schemaType[1] = "BYTES" -> BytesReflectable
      [] schemaType[1] = "STRING" -> StringReflectable
      [] schemaType[1] = "EXTERN" -> BitBufferReflectable
-----------------------------------------------------------------------------
(* Views.                                                                  *)

ViewBase == IntrospectableDataBase \union AnyOperations \union FindOperations

IntegralView == ViewBase \union Simple({"toDouble", "toString"})

SignedView == IntegralView \union Simple({"toInt"})

UnsignedView == IntegralView \union Simple({"toUInt"})

BoolView == UnsignedView \union Simple({"getBool"})

IntView(width) == SignedView \union {GetInt(width)}

UIntView(width) == UnsignedView \union {GetUInt(width)}

\* The views of dynamic bit fields wrap another type and convert it.
DynIntView(width) == SignedView \union {GetInt(width)}

DynUIntView(width) == UnsignedView \union {GetUInt(width)}

FloatingView == ViewBase \union Simple({"toDouble"})

FloatView == FloatingView \union Simple({"getFloat"})

DoubleView == FloatingView \union Simple({"getDouble"})

BytesIntrospectable == ViewBase \union Simple({"getBytes"})

StringView == ViewBase \union Simple({"getStringView", "toString"})

BitBufferIntrospectable == ViewBase \union Simple({"getBitBuffer"})

ViewArray == ViewBase \union ArrayOperations

introspectableFixed(signed, width) == IF signed THEN IntView(width) ELSE UIntView(width)

introspectableDyn(signed, width) == IF signed THEN DynIntView(width) ELSE DynUIntView(width)

\* The overloads of introspectable() for all the other wrappers.
introspectableOther(schemaType, width) ==
    CASE schemaType[1] \in SignedVar -> IntView(width)
      [] schemaType[1] \in UnsignedVar -> UIntView(width)
      [] schemaType[1] = "BOOL" -> BoolView
      [] schemaType[1] \in {"FLOAT16", "FLOAT32"} -> FloatView
      [] schemaType[1] = "FLOAT64" -> DoubleView
      [] schemaType[1] = "BYTES" -> BytesIntrospectable
      [] schemaType[1] = "STRING" -> StringView
      [] schemaType[1] = "EXTERN" -> BitBufferIntrospectable

introspectable(schemaType, width) ==
    CASE schemaType[1] \in {"INT", "UINT"} -> introspectableFixed(schemaType[1] = "INT", width)
      [] schemaType[1] \in Dynamic ->
            introspectableDyn(schemaType[1] = "DYNAMIC_SIGNED_BITFIELD", width)
      [] OTHER -> introspectableOther(schemaType, width)
-----------------------------------------------------------------------------
(* find() of a view: a name is looked up among the fields, the parameters    *)
(* and the functions of a compound, in this order; what throws ends it.      *)

Found(type, isArray, node) == [type |-> type, isArray |-> isArray, node |-> node]

NotFound(from) == Found(from.type, FALSE, Null)

InfoNamed(infos, name) == infos[CHOOSE i \in DOMAIN infos : infos[i].schemaName = name]

NamesIn(infos) == {infos[i].schemaName : i \in DOMAIN infos}

\* The view's getField; an optional field that is not set and an absent one are null.
getFieldFromObject(from, name) ==
    IF ~from.isArray /\ IsCompound(from.type) /\ name \in FieldNames(from.type)
    THEN LET node == getField(from.type, from.node, name)
         IN  IF node = Thrown THEN NotFound(from)
             ELSE Found(FieldOf(from.type, name).typeInfo, FieldOf(from.type, name).isArray, node)
    ELSE NotFound(from)

getParameterFromObject(from, name) ==
    IF ~from.isArray /\ IsCompound(from.type) /\ name \in NamesIn(Types[from.type].getParameters)
    THEN Found(InfoNamed(Types[from.type].getParameters, name).typeInfo, FALSE, Arguments[from.type][name])
    ELSE NotFound(from)

callFunctionInObject(from, name) ==
    IF ~from.isArray /\ IsCompound(from.type) /\ name \in NamesIn(Types[from.type].getFunctions)
    THEN Found(InfoNamed(Types[from.type].getFunctions, name).typeInfo, FALSE, Results[from.type][name])
    ELSE NotFound(from)

Lookup(from, name) ==
    LET field == getFieldFromObject(from, name)
        parameter == getParameterFromObject(from, name)
    IN  CASE field.node # Null -> field
          [] field.node = Null /\ parameter.node # Null -> parameter
          [] OTHER -> callFunctionInObject(from, name)

\* getFromObject from the root, for a path of names.
ViewFind(type, tree, names) ==
    LET found[i \in 0..Len(names)] ==
            IF i = 0 THEN Found(type, FALSE, tree)
            ELSE IF found[i - 1].node = Null THEN found[i - 1] ELSE Lookup(found[i - 1], names[i])
    IN  found[Len(names)].node
-----------------------------------------------------------------------------
(* Correctness.                                                            *)

WidthOf(typeInfo) == typeInfo.getCppType[2]

\* The one getter that is named after the C++ type.
GetterOf(cpp) ==
    CASE cpp[1] = "INT" -> GetInt(cpp[2])
      [] cpp[1] = "UINT" -> GetUInt(cpp[2])
      [] cpp[1] = "BOOL" -> <<"getBool", 0>>
      [] cpp[1] = "FLOAT" -> <<"getFloat", 0>>
      [] cpp[1] = "DOUBLE" -> <<"getDouble", 0>>
      [] cpp[1] = "STRING" -> <<"getStringView", 0>>
      [] cpp[1] = "BYTES" -> <<"getBytes", 0>>
      [] cpp[1] = "BIT_BUFFER" -> <<"getBitBuffer", 0>>

\* An object looks the same through reflection and through a view: the same operations answer,
\* the getter is the one of the C++ type in the type information, and a value converts to a signed
\* or an unsigned integer as the predicates say of that type.
LooksTheSame(typeInfo) ==
    LET s == typeInfo.getSchemaType
        c == typeInfo.getCppType
        seen == introspectable(s, WidthOf(typeInfo))
    IN  /\ Throwing(reflectable(s, WidthOf(typeInfo))) = Throwing(seen)
        /\ seen \intersect Getters = {GetterOf(c)}
        /\ (<<"toInt", 0>> \in seen) <=> (isIntegralCpp(c) /\ isSignedCpp(c))
        /\ (<<"toUInt", 0>> \in seen) <=> (isIntegralCpp(c) /\ ~isSignedCpp(c))
        /\ (<<"toDouble", 0>> \in seen) <=> (isIntegralCpp(c) \/ isFloatingPointCpp(c))
        /\ seen \intersect ArrayOperations = {}

\* Every name leads to the same node through reflection and through a view, unless it is a
\* parameter or a function, which reflection does not see.
FindsTheSame(type, tree, paths) ==
    \A names \in paths :
        LET seen == ViewFind(type, tree, names)
            found == FindFrom(type, tree, names)
        IN  found # Null => seen = found
=============================================================================
