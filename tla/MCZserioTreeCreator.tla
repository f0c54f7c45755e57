------------------------ MODULE MCZserioTreeCreator ------------------------
(* A schema with a field of every kind. Names are shared between the types, *)
(* so that a name looked up in the wrong type would be found there.          *)
EXTENDS ZserioTreeCreator, Introspection

UInt8 == getFixedBitField(FALSE, 8)

Field(name, type) == FieldInfo(name, type, FALSE, FALSE, FALSE)

ArrayField(name, type) == FieldInfo(name, type, TRUE, FALSE, FALSE)

OptionalField(name, type) == FieldInfo(name, type, FALSE, TRUE, FALSE)

Structure(fields) == StructTypeInfo(fields, <<>>, <<>>)

\* A part has a parameter and a function.
MCTypes ==
    [uint8 |-> UInt8,
     Colour |-> EnumTypeInfo("uint8", <<ItemInfo("RED", 1), ItemInfo("BLUE", 2)>>),
     Part |-> StructTypeInfo(<<Field("x", "uint8")>>, <<ParameterInfo("case", "Case")>>,
                             <<FunctionInfo("other", "uint8")>>),
     Case |-> UnionTypeInfo(<<Field("x", "Colour"), ArrayField("list", "uint8")>>, <<>>, <<>>),
     Whole |-> Structure(<<Field("x", "uint8"), Field("part", "Part"), OptionalField("maybe", "Part"),
                           ArrayField("list", "Part"), Field("case", "Case")>>)]

MCArguments == [Part |-> [case |-> Node(<<"UNION", 0>>, [x |-> Num(<<"ENUM", 0>>, 2)])]]

MCResults == [Part |-> [other |-> Num(<<"UINT", 8>>, 5)]]

MCNames == {"x", "part", "maybe", "list", "case", "other"}

MCValues == {Num(<<"UINT", 16>>, 1), Str(<<Word("BLUE")>>)}

\* Paths to a field, a parameter and a function of every place, and beyond.
Paths ==
    {<<name>> : name \in MCNames}
        \union ({"part", "maybe", "list", "case"} \X {"x", "list", "case", "other"})
        \union {<<"part", "case", "x">>, <<"maybe", "case", "x">>, <<"case", "list", "x">>}

\* The bound on the length of an array.
MaxLength == 2

FullArray == state = "IN_ARRAY" /\ Len(TopNode.at) = MaxLength

MCNext ==
    /\ Next
    /\ FullArray => tree' = tree

\* The type information of every kind of type.
KnownTypeInfos ==
    BuiltinTypeInfos \union {MCTypes[type] : type \in DOMAIN MCTypes}
        \union {ChoiceTypeInfo(<<Field("x", "uint8")>>, <<>>, <<>>, "case", <<CaseInfo(<<"1">>, "x")>>),
                BitmaskTypeInfo("uint8", <<ItemInfo("READ", 1)>>),
                SqlTableTypeInfo(<<>>, "", "", FALSE), SqlDatabaseTypeInfo(<<>>),
                PubsubTypeInfo(<<>>), ServiceTypeInfo(<<>>)}

\* The tables, switches and class hierarchies of run-time type information agree with each other.
TypeInfosAgree ==
    /\ \A typeInfo \in KnownTypeInfos : SaysTheSame(typeInfo)
    /\ \A typeInfo \in BuiltinTypeInfos : LooksTheSame(typeInfo)

\* ... and every object built looks the same through reflection and through a view.
LooksAgree ==
    /\ TypeInfosAgree
    /\ tree # Null => FindsTheSame(RootType, tree, Paths)

MCSpec == Init /\ [][MCNext]_vars
=============================================================================
