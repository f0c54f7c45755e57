-------------------------- MODULE ZserioTreeCreator --------------------------
(***************************************************************************)
(* ZserioTreeCreator.h: builds an object of a schema through a sequence of   *)
(* calls, of which every one may be wrong where it is made.                  *)
(*                                                                         *)
(* The creator keeps two stacks. valueStack has the reflectable pointers     *)
(* (paths) of the objects and arrays that are open; fieldInfoStack has the   *)
(* fields they were opened as. The root and the elements of an array have   *)
(* no field of their own, so the stacks differ in length, and what an       *)
(* operation may do is decided from a state, the field on top and lengths.  *)
(*                                                                         *)
(* A call that is refused leaves all of it as it is, and the creator is used *)
(* further. A call that runs out of memory may have done a part of its work: *)
(* when it has pushed a field and not what was opened, the stacks are torn,   *)
(* and what is done with such a creator is not followed any further. Values  *)
(* are what a caller passes: a C++ type and a value.                        *)
(***************************************************************************)
EXTENDS Reflectable

CONSTANTS
    RootType,   \* m_typeInfo, the name of a compound type
    Names,      \* the names a caller passes
    Values      \* the values a caller passes

ASSUME RootAssumption == RootType \in DOMAIN Types /\ IsCompound(RootType)

ASSUME NamesAssumption == Names \subseteq STRING

\* An enumeration and an object of a generated class are of one type of the schema, which a kind
\* does not tell: what is passed is of a built-in type or a bitmask.
ASSUME ValuesAssumption ==
    \A value \in Values :
        /\ value.kind \in CppTypes \ (Compounds \union Simple({"ENUM"}))
        /\ "at" \notin DOMAIN value

VARIABLES
    state,            \* m_state
    fieldInfoStack,   \* m_fieldInfoStack, a sequence of FieldInfo
    valueStack,       \* m_valueStack, a sequence of paths
    tree,             \* the object being created, Null outside of a root
    outcome,          \* of the last call: "ok", "thrown", or the object endRoot returned
    torn              \* history: whether a field has been pushed without its value

vars == <<state, fieldInfoStack, valueStack, tree, outcome, torn>>

CreatorState == {"BEFORE_ROOT", "IN_COMPOUND", "IN_ARRAY"}

Ok == [result |-> "ok"]

ThrownOut == [result |-> "thrown"]

Returned(object) == [result |-> "returned", object |-> object]
-----------------------------------------------------------------------------
(* makeAnyValue: a value is converted to the type of the field.             *)

Lowest(cpp) == IF cpp[1] = "INT" THEN -(2 ^ (cpp[2] - 1)) ELSE 0

Highest(cpp) == IF cpp[1] = "INT" THEN 2 ^ (cpp[2] - 1) - 1 ELSE 2 ^ cpp[2] - 1

IsInt(cpp) == cpp[1] \in {"INT", "UINT"}

\* An unsigned value is compared with the highest value of the target cast to its own type.
checkArithmeticValueRanges(target, value) ==
    IF value.kind[1] = "UINT"
    THEN value.num <= Highest(target) % (2 ^ value.kind[2])
    ELSE Lowest(target) <= value.num /\ value.num <= Highest(target)

makeAnyBoolValue(value) == IF value.kind = <<"BOOL", 0>> THEN value ELSE Thrown

makeAnyIntegralValue(target, value) ==
    IF IsInt(value.kind) /\ checkArithmeticValueRanges(target, value)
    THEN Num(target, value.num)
    ELSE Thrown

makeAnyFloatingValue(target, value) ==
    IF IsInt(value.kind) \/ value.kind \in {<<"FLOAT", 0>>, <<"DOUBLE", 0>>}
    THEN Num(target, value.num)
    ELSE Thrown

makeAnyStringValue(value) == IF value.kind = <<"STRING", 0>> THEN value ELSE Thrown

\* A string value is a sequence of lexemes: words, numbers, marks and remarks.
Word(w) == [word |-> w]

Digits(n) == [digits |-> n]

Bar == [mark |-> "|"]

Remark == [remark |-> "no match"]

IsWord(lexeme) == "word" \in DOMAIN lexeme

IsDigits(lexeme) == "digits" \in DOMAIN lexeme

ItemsNamed(items, lexeme) == SelectSeq(items, LAMBDA i : IsWord(lexeme) /\ i.schemaName = lexeme.word)

\* A value of the underlying type, from the 64 bits an ItemInfo keeps.
makeUnderlying(type, n) ==
    makeAnyIntegralValue(Cpp(Types[type].getUnderlyingType), [kind |-> <<"INT", 64>>, num |-> n])

\* The whole string has to be the name of an item.
parseEnumStringValue(type, lexemes) ==
    LET found == ItemsNamed(Types[type].getEnumItems, lexemes[1])
    IN  IF Len(lexemes) = 1 /\ found # <<>> THEN makeUnderlying(type, found[1].value) ELSE Thrown

makeAnyEnumValue(type, value) ==
    CASE value.kind = <<"STRING", 0>> ->
            IF value.str # <<>> /\ IsWord(value.str[1]) THEN parseEnumStringValue(type, value.str)
                                                        ELSE Thrown
      [] value.kind = <<"ENUM", 0>> -> value
      [] OTHER -> makeAnyIntegralValue(Cpp(Types[type].getUnderlyingType), value)

\* value |= itemInfo.value, bit by bit.
BitOr(a, b) ==
    FoldLeft(LAMBDA sum, k : sum + (IF (a \div 2 ^ k) % 2 = 1 \/ (b \div 2 ^ k) % 2 = 1 THEN 2 ^ k ELSE 0),
             0, [k \in 1..8 |-> k - 1])

\* Names with a bar, or only spaces, in between. A string that ends in a bar is refused.
parseBitmaskStringValue(type, lexemes) ==
    LET items == Types[type].getBitmaskValues
        n == Len(lexemes)
        from[i \in 1..(n + 2)] ==
            IF i > n \/ ItemsNamed(items, lexemes[i]) = <<>> THEN -1
            ELSE LET value == ItemsNamed(items, lexemes[i])[1].value
                     next == IF i < n /\ lexemes[i + 1] = Bar THEN i + 2 ELSE i + 1
                 IN  CASE i = n -> value
                       [] i < n /\ from[next] = -1 -> -1
                       [] OTHER -> BitOr(value, from[next])
    IN  IF from[1] = -1 THEN Thrown ELSE makeUnderlying(type, from[1])

\* strtoull reads the number in front and leaves the rest alone.
parseBitmaskNumericStringValue(type, lexemes) == makeUnderlying(type, lexemes[1].digits)

makeAnyBitmaskValue(type, value) ==
    CASE value.kind = <<"STRING", 0>> ->
            CASE value.str # <<>> /\ IsWord(value.str[1]) -> parseBitmaskStringValue(type, value.str)
              [] value.str # <<>> /\ IsDigits(value.str[1]) ->
                    parseBitmaskNumericStringValue(type, value.str)
              [] OTHER -> Thrown
      [] value.kind = <<"BITMASK", 0>> -> value
      [] OTHER -> makeAnyIntegralValue(Cpp(Types[type].getUnderlyingType), value)

\* The switch over the C++ type. What has no case of its own is passed on as it is.
makeAnyValue(type, value) ==
    LET cpp == Cpp(type)
    IN  CASE cpp = <<"BOOL", 0>> -> makeAnyBoolValue(value)
          [] IsInt(cpp) -> makeAnyIntegralValue(cpp, value)
          [] cpp \in {<<"FLOAT", 0>>, <<"DOUBLE", 0>>} -> makeAnyFloatingValue(cpp, value)
          [] cpp = <<"STRING", 0>> -> makeAnyStringValue(value)
          [] cpp = <<"ENUM", 0>> -> makeAnyEnumValue(type, value)
          [] cpp = <<"BITMASK", 0>> -> makeAnyBitmaskValue(type, value)
          [] OTHER -> value
-----------------------------------------------------------------------------
(* The top of the stacks.                                                  *)

TopField == fieldInfoStack[Len(fieldInfoStack)]

TopValue == valueStack[Len(valueStack)]

TopNode == Get(tree, TopValue)

\* getTypeInfo(): the root's type while no field is open.
getTypeInfo == IF fieldInfoStack = <<>> THEN RootType ELSE TopField.typeInfo

Pop(stack) == SubSeq(stack, 1, Len(stack) - 1)

\* findFieldInfo throws for a name the type does not have.
Finds(name) == name \in FieldNames(getTypeInfo)

findFieldInfo(name) == FieldOf(getTypeInfo, name)

Throws ==
    /\ outcome' = ThrownOut
    /\ UNCHANGED <<state, fieldInfoStack, valueStack, tree, torn>>
-----------------------------------------------------------------------------
(* The operations: what each one asks for, and what it does.                *)

beginRoot ==
    IF state = "BEFORE_ROOT"
    THEN /\ state' = "IN_COMPOUND"
         /\ valueStack' = Append(valueStack, <<>>)
         /\ tree' = createInstance(RootType)
         /\ outcome' = Ok
         /\ UNCHANGED <<fieldInfoStack, torn>>
    ELSE Throws

endRoot ==
    IF state = "IN_COMPOUND" /\ Len(valueStack) = 1
    THEN /\ state' = "BEFORE_ROOT"
         /\ valueStack' = Pop(valueStack)
         /\ tree' = Null
         /\ outcome' = Returned(tree)
         /\ UNCHANGED <<fieldInfoStack, torn>>
    ELSE Throws

CanBeginArray(name) == state = "IN_COMPOUND" /\ Finds(name) /\ findFieldInfo(name).isArray

FieldCreated(name) == Put(tree, TopValue, createField(getTypeInfo, TopNode, name))

\* The array is created anew, also when the field has one.
beginArray(name) ==
    IF CanBeginArray(name)
    THEN /\ state' = "IN_ARRAY"
         /\ fieldInfoStack' = Append(fieldInfoStack, findFieldInfo(name))
         /\ valueStack' = Append(valueStack, Append(TopValue, name))
         /\ tree' = FieldCreated(name)
         /\ outcome' = Ok
         /\ UNCHANGED torn
    ELSE Throws

endArray ==
    IF state = "IN_ARRAY"
    THEN /\ state' = "IN_COMPOUND"
         /\ fieldInfoStack' = Pop(fieldInfoStack)
         /\ valueStack' = Pop(valueStack)
         /\ outcome' = Ok
         /\ UNCHANGED <<tree, torn>>
    ELSE Throws

CanBeginCompound(name) ==
    /\ state = "IN_COMPOUND"
    /\ Finds(name)
    /\ ~findFieldInfo(name).isArray
    /\ IsCompound(findFieldInfo(name).typeInfo)

\* Of a choice, a union and an optional field a new object is created; another one is
\* filled further.
CreatesCompound(name) == HasChoice(getTypeInfo) \/ findFieldInfo(name).isOptional

beginCompound(name) ==
    IF CanBeginCompound(name)
    THEN /\ fieldInfoStack' = Append(fieldInfoStack, findFieldInfo(name))
         /\ valueStack' = Append(valueStack, Append(TopValue, name))
         /\ tree' = IF CreatesCompound(name) THEN FieldCreated(name) ELSE tree
         /\ outcome' = Ok
         /\ state' = "IN_COMPOUND"
         /\ UNCHANGED torn
    ELSE Throws

\* Memory is exhausted behind the push of the field: while the array or the object is created, or
\* while it is pushed, when the object has it already.
Tears(field, after) ==
    /\ fieldInfoStack' = Append(fieldInfoStack, field)
    /\ tree' \in {tree, after}
    /\ outcome' = ThrownOut
    /\ torn' = TRUE
    /\ UNCHANGED <<state, valueStack>>

beginArrayTears(name) == CanBeginArray(name) /\ Tears(findFieldInfo(name), FieldCreated(name))

beginCompoundTears(name) ==
    /\ CanBeginCompound(name)
    /\ Tears(findFieldInfo(name), IF CreatesCompound(name) THEN FieldCreated(name) ELSE tree)

\* Mutant of CanEndCompound: what is open may be an element of an array.
CanEndCompoundOrElement == state = "IN_COMPOUND" /\ fieldInfoStack # <<>>

CanEndCompound == state = "IN_COMPOUND" /\ fieldInfoStack # <<>> /\ ~TopField.isArray

endCompound ==
    IF CanEndCompound
    THEN /\ fieldInfoStack' = Pop(fieldInfoStack)
         /\ valueStack' = Pop(valueStack)
         /\ outcome' = Ok
         /\ UNCHANGED <<state, tree, torn>>
    ELSE Throws

\* A value is converted and then taken by the field; both may throw.
Set(name, value) ==
    LET any == makeAnyValue(findFieldInfo(name).typeInfo, value)
    IN  IF any = Thrown THEN Thrown ELSE setField(getTypeInfo, TopNode, name, any)

setValue(name, value) ==
    IF /\ state = "IN_COMPOUND"
       /\ Finds(name)
       /\ ~findFieldInfo(name).isArray
       /\ Set(name, value) # Thrown
    THEN /\ tree' = Put(tree, TopValue, Set(name, value))
         /\ outcome' = Ok
         /\ UNCHANGED <<state, fieldInfoStack, valueStack, torn>>
    ELSE Throws

\* A null unsets an optional field and gives any other one its default value.
SetNull(name) ==
    IF findFieldInfo(name).isOptional
    THEN setField(getTypeInfo, TopNode, name, Null)
    ELSE createField(getTypeInfo, TopNode, name)

setNullValue(name) ==
    IF state = "IN_COMPOUND" /\ Finds(name) /\ SetNull(name) # Thrown
    THEN /\ tree' = Put(tree, TopValue, SetNull(name))
         /\ outcome' = Ok
         /\ UNCHANGED <<state, fieldInfoStack, valueStack, torn>>
    ELSE Throws

CanBeginCompoundElement == state = "IN_ARRAY" /\ IsCompound(TopField.typeInfo)

NewSize == Len(TopNode.at) + 1

Grown == Put(tree, TopValue, resize(TopField.typeInfo, TopNode, NewSize))

beginCompoundElement ==
    IF CanBeginCompoundElement
    THEN /\ tree' = Grown
         /\ valueStack' = Append(valueStack, Append(TopValue, NewSize))
         /\ state' = "IN_COMPOUND"
         /\ outcome' = Ok
         /\ UNCHANGED <<fieldInfoStack, torn>>
    ELSE Throws

\* Memory is exhausted behind resize(): the array keeps its new element, which is not opened.
beginCompoundElementStops ==
    /\ CanBeginCompoundElement
    /\ tree' = Grown
    /\ outcome' = ThrownOut
    /\ UNCHANGED <<state, fieldInfoStack, valueStack, torn>>

\* Mutant of CanEndCompoundElement: what is open may be a field of its own.
CanEndElementOrCompound == state = "IN_COMPOUND" /\ fieldInfoStack # <<>>

CanEndCompoundElement == state = "IN_COMPOUND" /\ fieldInfoStack # <<>> /\ TopField.isArray

endCompoundElement ==
    IF CanEndCompoundElement
    THEN /\ valueStack' = Pop(valueStack)
         /\ state' = "IN_ARRAY"
         /\ outcome' = Ok
         /\ UNCHANGED <<fieldInfoStack, tree, torn>>
    ELSE Throws

AppendTo(value) ==
    LET any == makeAnyValue(TopField.typeInfo, value)
    IN  IF any = Thrown THEN Thrown ELSE append(TopField.typeInfo, TopNode, any)

addValueElement(value) ==
    IF state = "IN_ARRAY" /\ AppendTo(value) # Thrown
    THEN /\ tree' = Put(tree, TopValue, AppendTo(value))
         /\ outcome' = Ok
         /\ UNCHANGED <<state, fieldInfoStack, valueStack, torn>>
    ELSE Throws

\* The two questions a caller asks before it passes a value.
getFieldType(name) ==
    IF state = "IN_COMPOUND" /\ Finds(name) THEN findFieldInfo(name).typeInfo ELSE "throws"

getElementType == IF state = "IN_ARRAY" THEN TopField.typeInfo ELSE "throws"
-----------------------------------------------------------------------------
Init ==
    /\ state = "BEFORE_ROOT"
    /\ fieldInfoStack = <<>>
    /\ valueStack = <<>>
    /\ tree = Null
    /\ outcome = Ok
    /\ torn = FALSE

CallInMemory ==
    \/ beginRoot
    \/ endRoot
    \/ \E name \in Names : beginArray(name)
    \/ endArray
    \/ \E name \in Names : beginCompound(name)
    \/ endCompound
    \/ \E name \in Names, value \in Values : setValue(name, value)
    \/ \E name \in Names : setNullValue(name)
    \/ beginCompoundElement
    \/ endCompoundElement
    \/ \E value \in Values : addValueElement(value)

\* A call that runs out of memory, before it has changed anything or behind it.
CallOutOfMemory ==
    \/ Throws
    \/ \E name \in Names : beginArrayTears(name)
    \/ \E name \in Names : beginCompoundTears(name)
    \/ beginCompoundElementStops

Next == ~torn /\ (CallInMemory \/ CallOutOfMemory)

Spec == Init /\ [][Next]_vars
-----------------------------------------------------------------------------
(* Correctness.                                                            *)

TypeOK ==
    /\ state \in CreatorState
    /\ Len(valueStack) <= 2 * Len(fieldInfoStack) + 1
    /\ \A i \in DOMAIN valueStack : Exists(tree, valueStack[i])
    /\ \A i \in DOMAIN fieldInfoStack : fieldInfoStack[i].typeInfo \in DOMAIN Types

\* The open fields that are arrays.
OpenArrays == {i \in DOMAIN fieldInfoStack : fieldInfoStack[i].isArray}

\* The stacks belong together: one object for the root, one for every open field and one more for
\* every open array but the one whose elements are being added. So no operation takes the back of an
\* empty stack, though only some ask first; of endRoot, endCompound and endCompoundElement exactly
\* one is accepted in a compound; and names are looked up in compound types only.
Aligned ==
    /\ state = "BEFORE_ROOT" => valueStack = <<>> /\ fieldInfoStack = <<>>
    /\ state = "IN_COMPOUND" =>
          /\ Len(valueStack) = 1 + Len(fieldInfoStack) + Cardinality(OpenArrays)
          /\ IsCompound(getTypeInfo)
    /\ state = "IN_ARRAY" =>
          /\ fieldInfoStack # <<>> /\ TopField.isArray
          /\ Len(valueStack) = Len(fieldInfoStack) + Cardinality(OpenArrays)

\* One field is open that has no object.
AlignedBelow ==
    /\ state = "IN_COMPOUND" /\ fieldInfoStack # <<>>
    /\ Len(valueStack) = Len(fieldInfoStack) + Cardinality(OpenArrays \ {Len(fieldInfoStack)})

\* After any sequence of calls, refused ones and ones that ran out of memory among them, the two
\* stacks belong together, but for the field on top when memory was exhausted between the two pushes
\* of a call.
StacksAligned == IF torn THEN AlignedBelow ELSE Aligned

\* What is open is part of the object, each thing within the one below it, and the object on top
\* has the type the creator looks names up in (beginCompoundElement pushes an object and no field),
\* unless the field on top has no object.
TopIsOfTheType ==
    state # "BEFORE_ROOT" =>
        /\ \A i \in DOMAIN valueStack : Len(valueStack[i]) = i - 1 /\ IsPrefix(valueStack[i], TopValue)
        /\ Exists(tree, TopValue)
        /\ torn \/ PlaceAt(RootType, TopValue).type = getTypeInfo
        /\ PlaceAt(RootType, TopValue).isArray = (state = "IN_ARRAY")

\* After any sequence of calls, refused ones and ones that ran out of memory among them, the object
\* is one of the schema: also the half-built one, and the one endRoot returns.
ObjectFits ==
    /\ tree # Null => Fits(RootType, tree)
    /\ outcome.result = "returned" => Fits(RootType, outcome.object)

Builder == INSTANCE ObjectBuilder WITH
    open <- state # "BEFORE_ROOT",
    cursor <- IF valueStack = <<>> THEN <<>> ELSE TopValue,
    doc <- tree

\* The creator is a cursor in an object: every call changes what is at one key below the cursor, or
\* moves the cursor, and a call that is refused changes nothing. One that runs out of memory changes
\* what is at one key, or nothing, and the cursor stays.
ImplementsBuilder == Builder!Spec
=============================================================================
